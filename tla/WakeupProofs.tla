---------------------------- MODULE WakeupProofs ----------------------------
(***************************************************************************)
(* Nobody waits in vain: NoLostWakeup, for every number of pipes, every    *)
(* width, every depth and every program without mispredicted branches.     *)
(*                                                                         *)
(* A register on the scoreboard, and every operand an instruction waits    *)
(* for from the moment the dispatch stage has chosen it, has a writer that *)
(* is still to be broadcast, or whose broadcast is on its way to whoever   *)
(* keeps the operand.  The dispatch stage hears a broadcast before it looks*)
(* at its scoreboard, so that what is due to it then is what is due to the *)
(* stations in the next cycle, when the instruction arrives there; and a   *)
(* station takes its instructions before it hears a broadcast.             *)
(***************************************************************************)
EXTENDS UnderWayProofs

-----------------------------------------------------------------------------
(* What comes, in terms of the instructions x, of the places h they are in *)
(* and of the broadcasts g on their way.                                   *)

\* Instruction i has not been broadcast.
Unsaid(i, h) == \E z \in Place : z # AtFinishWire /\ ~Absent(i, h[z])

\* A value for register r will be broadcast.
Comes(x, h, r, g) == \E i \in DOMAIN x : x[i].PhyRd = r /\ (Unsaid(i, h) \/ ~Absent(i, g))

\* So will those of the operands that instruction i will have forwarded.
Supplied(x, h, i, g) ==
    /\ x[i].IsRs1Forward => Comes(x, h, x[i].PhyRs1, g)
    /\ x[i].IsRs2Forward => Comes(x, h, x[i].PhyRs2, g)

\* Those that the entry e of a station waits for, unless it is issued.
EntrySupplied(x, h, e, g) ==
    e.is_issued \/ /\ e.rs1_valid \/ Comes(x, h, x[e.inst].PhyRs1, g)
                   /\ e.rs2_valid \/ Comes(x, h, x[e.inst].PhyRs2, g)

\* Whatever came, and came over g, still comes, over f.
ComesOn(x, h, g, y, k, f) == \A r : Comes(x, h, r, g) => Comes(y, k, r, f)

-----------------------------------------------------------------------------
(* The inductive invariant, on top of FateInv.                             *)

\* The ports that the write back stage broadcasts to, but for the reorder
\* buffer's.
WakePort == {write_back_dispatch_port_in} \cup {forwarding_reservation_inst_in(p) : p \in Pipe}

WakeWires == \A d \in WakePort : Typed(d, Seq(DOMAIN inst))

\* The dispatch stage and the stations will hear the same in the next cycle.
SameHeard ==
    \A p \in Pipe :
        later[forwarding_reservation_inst_in(p)] = later[write_back_dispatch_port_in]

Told == Joined(later[write_back_dispatch_port_in])

\* What is broadcast has been renamed.
HeardRenamed ==
    \A d \in WakePort : \A i \in DOMAIN inst :
        ~Absent(i, Instructions(d)) => Absent(i, Unrenamed)

\* A busy register's value comes to the dispatch stage.
BoardInv == \A r \in score_board : Comes(inst, held, r, Instructions(write_back_dispatch_port_in))

\* What an entry waits for comes to its station.
StationsInv ==
    \A p \in Pipe : \A k \in DOMAIN reservation_station[p] :
        EntrySupplied(inst, held, reservation_station[p][k],
                      Instructions(forwarding_reservation_inst_in(p)))

\* What an instruction will wait for that arrives in this cycle, too, and what
\* one will that arrives in the next one is due then, or later.
ArrivingInv ==
    \A p \in Pipe : \A i \in DOMAIN inst :
        ~Absent(i, Joined(now[preceding_reservation_inst_in(p)])) =>
            Supplied(inst, held, i, Instructions(forwarding_reservation_inst_in(p)))

SentInv ==
    \A p \in Pipe : \A i \in DOMAIN inst :
        ~Absent(i, Joined(later[preceding_reservation_inst_in(p)])) => Supplied(inst, held, i, Told)

PendingInv ==
    \A p \in Pipe : \A i \in DOMAIN inst :
        ~Absent(i, dispatch_pending_queue[p]) => Supplied(inst, held, i, Told)

\* Instruction i waits to be chosen by the dispatch stage.
Unchosen(i, un, h) ==
    ~Absent(i, un) \/ ~Absent(i, h[AtDispatchWire]) \/ ~Absent(i, h[AtDispatchQueue])

\* The dispatch stage has not looked yet at the sources of what it has not chosen.
OpenInv ==
    \A i \in DOMAIN inst :
        Unchosen(i, Unrenamed, held) => ~inst[i].IsRs1Forward /\ ~inst[i].IsRs2Forward

\* The dispatch stage chooses at most once in a cycle, and issues in the same
\* cycle what it has chosen.
TurnInv ==
    /\ (\E p \in Pipe : dispatch_pending_queue[p] # << >>) => now[dispatch_issue_events_] # << >>
    /\ now[dispatch_issue_events_] # << >> \/ dispatch_issue_events_ \in fired =>
          dispatch_select_events_ \in fired
    /\ dispatch_select_events_ \in fired => now[dispatch_select_events_] = << >>
    /\ now[dispatch_select_events_] \in {<< >>, <<Go>>}
    /\ later[dispatch_select_events_] \in {<< >>, <<Go>>}
    /\ later[dispatch_issue_events_] = << >>

WakeInv ==
    /\ WakeWires /\ SameHeard /\ HeardRenamed /\ BoardInv /\ StationsInv
    /\ ArrivingInv /\ SentInv /\ PendingInv /\ OpenInv /\ TurnInv

-----------------------------------------------------------------------------
(* What still comes.                                                       *)

\* Whoever comes, from the one to the other, is the same writer.
LEMMA ComesFrom ==
  ASSUME NEW x, NEW h, NEW g, NEW y, NEW k, NEW f,
         \A i \in DOMAIN x : Unsaid(i, h) \/ ~Absent(i, g) =>
            i \in DOMAIN y /\ y[i].PhyRd = x[i].PhyRd /\ (Unsaid(i, k) \/ ~Absent(i, f))
  PROVE  ComesOn(x, h, g, y, k, f)
BY Zenon DEF Comes, ComesOn

\* An instruction that is left alone is supplied with as much.
LEMMA SuppliedOn ==
  ASSUME NEW x, NEW h, NEW g, NEW y, NEW k, NEW f, ComesOn(x, h, g, y, k, f), NEW i,
         SameRegs(x, y, i), SameFlags(x, y, i), Supplied(x, h, i, g)
  PROVE  Supplied(y, k, i, f)
<1>1. /\ y[i].PhyRs1 = x[i].PhyRs1 /\ y[i].PhyRs2 = x[i].PhyRs2
      /\ y[i].IsRs1Forward = x[i].IsRs1Forward /\ y[i].IsRs2Forward = x[i].IsRs2Forward
  BY Zenon DEF SameRegs, SameFlags
<1>2. ASSUME y[i].IsRs1Forward PROVE Comes(y, k, y[i].PhyRs1, f)
  BY <1>1, <1>2, Zenon DEF Supplied, ComesOn
<1>3. ASSUME y[i].IsRs2Forward PROVE Comes(y, k, y[i].PhyRs2, f)
  BY <1>1, <1>3, Zenon DEF Supplied, ComesOn
<1> QED BY <1>2, <1>3, Zenon DEF Supplied

\* The entry d waits for no more than the entry e did.
Eased(d, e) ==
    d.is_issued \/ /\ d.inst = e.inst /\ ~e.is_issued
                   /\ d.rs1_valid = e.rs1_valid /\ d.rs2_valid = e.rs2_valid

\* So it is supplied, too.
LEMMA EntryOn ==
  ASSUME NEW x, NEW h, NEW g, NEW y, NEW k, NEW f, ComesOn(x, h, g, y, k, f), NEW e, NEW d,
         Eased(d, e), SameRegs(x, y, e.inst), EntrySupplied(x, h, e, g)
  PROVE  EntrySupplied(y, k, d, f)
<1>1. CASE d.is_issued
  BY <1>1, Zenon DEF EntrySupplied
<1>2. CASE ~d.is_issued
  <2>1. /\ d.inst = e.inst /\ ~e.is_issued
        /\ d.rs1_valid = e.rs1_valid /\ d.rs2_valid = e.rs2_valid
    BY <1>2, Zenon DEF Eased
  <2>2. y[d.inst].PhyRs1 = x[e.inst].PhyRs1 /\ y[d.inst].PhyRs2 = x[e.inst].PhyRs2
    BY <2>1, Zenon DEF SameRegs
  <2>3. /\ e.rs1_valid \/ Comes(x, h, x[e.inst].PhyRs1, g)
        /\ e.rs2_valid \/ Comes(x, h, x[e.inst].PhyRs2, g)
    BY <2>1, Zenon DEF EntrySupplied
  <2>4. d.rs1_valid \/ Comes(y, k, y[d.inst].PhyRs1, f)
    BY <2>1, <2>2, <2>3, Zenon DEF ComesOn
  <2>5. d.rs2_valid \/ Comes(y, k, y[d.inst].PhyRs2, f)
    BY <2>1, <2>2, <2>3, Zenon DEF ComesOn
  <2> QED BY <2>4, <2>5, Zenon DEF EntrySupplied
<1> QED BY <1>1, <1>2

\* The reorder buffer waits for instruction i, or is about to take it.
Due(i, rw, es) == ~Absent(i, rw) \/ \E k \in DOMAIN es : es[k].inst = i /\ ~es[k].finish

\* What has not been broadcast, in terms of the fates.
LEMMA UnsaidIs ==
  ASSUME NEW i, NEW un, NEW rw, NEW es, NEW h, HasFate(i, un, rw, es, h)
  PROVE  /\ Unsaid(i, h) <=> Due(i, rw, es) /\ Absent(i, h[AtFinishWire])
         /\ \A z \in Place : ~Absent(i, h[z]) => Absent(i, un)
<1>1. AtFinishWire \in Place /\ AtFinishWire \notin EarlyPlace /\ EarlyPlace \subseteq Place
  BY PlacesDiffer, Zenon DEF EarlyPlace, Place
<1>2. CASE IsFetched(i, un, rw, es, h)
  <2>1. \A k \in DOMAIN es : es[k].inst # i
    BY <1>2, Zenon DEF IsFetched, Absent, InstsOf
  <2> QED BY <1>2, <2>1, Zenon DEF IsFetched, Nowhere, Unsaid, Due
<1>3. CASE IsRenamed(i, un, rw, es, h)
  <2>1. PICK x \in EarlyPlace : IsAt(i, x, h)
    BY <1>3, Zenon DEF IsRenamed
  <2>2. ~Absent(i, rw) /\ Absent(i, un) /\ ~Absent(i, h[x]) /\ x # AtFinishWire /\ x \in Place
    BY <1>1, <1>3, <2>1, SingleOccurs, Zenon DEF IsRenamed, IsAt
  <2>3. Absent(i, h[AtFinishWire])
    BY <1>1, <2>1, <2>2, Zenon DEF IsAt
  <2> QED BY <2>2, <2>3, Zenon DEF Unsaid, Due
<1>4. CASE IsAwaited(i, un, rw, es, h)
  <2>1. PICK x \in Place : IsAt(i, x, h)
    BY <1>4, Zenon DEF IsAwaited
  <2>2. ~Absent(i, h[x]) /\ Absent(i, un) /\ \A y \in Place : y # x => Absent(i, h[y])
    BY <1>4, <2>1, SingleOccurs, Zenon DEF IsAwaited, IsAt
  <2>3. \E k \in DOMAIN es : es[k].inst = i /\ ~es[k].finish
    <3>1. ~Absent(i, InstsOf(es)) /\ \A k \in DOMAIN es : es[k].inst = i => ~es[k].finish
      BY <1>4, SingleOccurs, Zenon DEF IsAwaited
    <3>2. DOMAIN InstsOf(es) = DOMAIN es /\ \A k \in DOMAIN es : InstsOf(es)[k] = es[k].inst
      BY DEF InstsOf
    <3> QED BY <3>1, <3>2, Zenon DEF Absent
  <2> QED BY <1>1, <2>1, <2>2, <2>3, Zenon DEF Unsaid, Due
<1>5. CASE IsFinished(i, un, rw, es, h)
  BY <1>5, Zenon DEF IsFinished, Nowhere, Unsaid, Due
<1> QED BY <1>2, <1>3, <1>4, <1>5, Zenon DEF HasFate

\* In this state.
LEMMA UnsaidNow ==
  ASSUME FateInv, NEW i \in DOMAIN inst
  PROVE  /\ Unsaid(i, held) <=> Due(i, RobWire, Entries) /\ Absent(i, held[AtFinishWire])
         /\ \A z \in Place : ~Absent(i, held[z]) => Absent(i, Unrenamed)
<1>1. HasFate(i, Unrenamed, RobWire, Entries, held)
  BY Zenon DEF FateInv, Fates
<1> QED BY <1>1, UnsaidIs, Zenon

\* And after a step.
LEMMA UnsaidNext ==
  ASSUME FateInv', NEW i \in DOMAIN inst'
  PROVE  Unsaid(i, held') <=> Due(i, RobWire', Entries') /\ Absent(i, held'[AtFinishWire])
<1>1. HasFate(i, Unrenamed', RobWire', Entries', held')
  BY Zenon DEF FateInv, Fates
<1> QED BY <1>1, UnsaidIs, Zenon

\* Groups of two parts.
LEMMA JoinedBoth ==
  ASSUME NEW S, NEW ss \in Seq(Seq(S)), NEW tt \in Seq(Seq(S)), NEW i
  PROVE  Absent(i, Joined(ss \o tt)) <=> Absent(i, Joined(ss)) /\ Absent(i, Joined(tt))
<1>1. PICK u : u = ss \o tt
  OBVIOUS
<1>2. /\ u \in Seq(Seq(S)) /\ Len(u) = Len(ss) + Len(tt) /\ Len(ss) \in Nat /\ Len(tt) \in Nat
      /\ \A m \in 1 .. Len(ss) : u[m] = ss[m]
      /\ \A m \in 1 .. Len(tt) : u[Len(ss) + m] = tt[m]
  <2>1. PICK Q : Q = Seq(S)
    OBVIOUS
  <2>2. ss \in Seq(Q) /\ tt \in Seq(Q)
    BY <2>1, Zenon
  <2> QED BY <1>1, <2>1, <2>2, ConcatOf
<1>3. /\ Absent(i, Joined(u)) <=> AbsentAmong(i, u, Len(u))
      /\ Absent(i, Joined(ss)) <=> AbsentAmong(i, ss, Len(ss))
      /\ Absent(i, Joined(tt)) <=> AbsentAmong(i, tt, Len(tt))
  BY <1>2, JoinedHas, Zenon
<1>4. PICK n \in Nat, m \in Nat : n = Len(ss) /\ m = Len(tt)
  BY <1>2, Zenon
<1>5. AbsentAmong(i, u, n + m) <=> AbsentAmong(i, ss, n) /\ AbsentAmong(i, tt, m)
  <2>1. /\ \A k \in 1 .. n : k \in 1 .. (n + m)
        /\ \A k \in 1 .. m : n + k \in 1 .. (n + m)
        /\ \A k \in 1 .. (n + m) : k \in 1 .. n \/ \E j \in 1 .. m : k = n + j
    BY Intervals, Zenon
  <2>2. (\A k \in 1 .. n : u[k] = ss[k]) /\ \A k \in 1 .. m : u[n + k] = tt[k]
    BY <1>2, <1>4, Zenon
  <2>3. PICK P, Q, R : P = 1 .. (n + m) /\ Q = 1 .. n /\ R = 1 .. m
    OBVIOUS
  <2>4. (\A k \in P : Absent(i, u[k])) <=> (\A k \in Q : Absent(i, ss[k])) /\ \A k \in R : Absent(i, tt[k])
    BY <2>1, <2>2, <2>3, Zenon
  <2> QED BY <2>3, <2>4, Zenon DEF AbsentAmong
<1> QED BY <1>1, <1>2, <1>3, <1>4, <1>5, Zenon

-----------------------------------------------------------------------------
(* What a step has to leave alone, part by part.                           *)

\* The instructions of group are broadcast in this step; whatever else had not
\* been has still not been.
Onward(group) ==
    /\ More
    /\ \A i \in DOMAIN inst : Absent(i, Unrenamed) => SameRegs(inst, inst', i)
    /\ \A i \in DOMAIN inst : Unsaid(i, held) => Unsaid(i, held') \/ ~Absent(i, group)

\* What came still comes, when the group is among the broadcasts.
LEMMA StillComes ==
  ASSUME FateInv, NEW group, Onward(group), NEW g, NEW f,
         \A i \in DOMAIN inst : ~Absent(i, g) => Absent(i, Unrenamed) /\ ~Absent(i, f),
         \A i \in DOMAIN inst : ~Absent(i, group) => ~Absent(i, f)
  PROVE  ComesOn(inst, held, g, inst', held', f)
<1>1. ASSUME NEW i \in DOMAIN inst, Unsaid(i, held) \/ ~Absent(i, g)
      PROVE  i \in DOMAIN inst' /\ inst'[i].PhyRd = inst[i].PhyRd /\ (Unsaid(i, held') \/ ~Absent(i, f))
  <2>1. Absent(i, Unrenamed)
    <3>1. CASE Unsaid(i, held)
      BY <3>1, UnsaidNow, Zenon DEF Unsaid
    <3>2. CASE ~Absent(i, g)
      BY <3>2, Zenon
    <3> QED BY <1>1, <3>1, <3>2, Zenon
  <2>2. i \in DOMAIN inst' /\ inst'[i].PhyRd = inst[i].PhyRd
    BY <2>1, Zenon DEF Onward, More, SameRegs
  <2>3. Unsaid(i, held') \/ ~Absent(i, f)
    BY <1>1, Zenon DEF Onward
  <2> QED BY <2>2, <2>3, Zenon
<1> QED BY <1>1, ComesFrom, Zenon

\* The scoreboard.
LEMMA BoardKept ==
  ASSUME BoardInv, score_board' \subseteq score_board, NEW f,
         f = Instructions(write_back_dispatch_port_in)',
         ComesOn(inst, held, Instructions(write_back_dispatch_port_in), inst', held', f)
  PROVE  BoardInv'
<1>1. ASSUME NEW r \in score_board' PROVE Comes(inst', held', r, f)
  BY Zenon DEF BoardInv, ComesOn
<1> QED BY <1>1, Zenon DEF BoardInv

\* Whatever is at a place has its registers left alone.
LEMMA PlacedRegs ==
  ASSUME FateInv, NEW group, Onward(group), NEW z \in Place, NEW i \in DOMAIN inst,
         ~Absent(i, held[z])
  PROVE  i \in DOMAIN inst' /\ Absent(i, Unrenamed) /\ SameRegs(inst, inst', i)
BY UnsaidNow, Zenon DEF Onward, More

\* An entry of a station that is not issued is of an instruction there.
LEMMA OpenEntry ==
  ASSUME FateInv, NEW p \in Pipe, NEW k \in DOMAIN reservation_station[p],
         ~reservation_station[p][k].is_issued
  PROVE  /\ reservation_station[p][k].inst \in DOMAIN inst
         /\ ~Absent(reservation_station[p][k].inst, held[AtStation(p)])
<1>1. reservation_station[p] \in Seq(StationEntry(DOMAIN inst))
  BY StationNumbers, Zenon DEF FateInv
<1>2. PICK s, I : s = reservation_station[p] /\ I = DOMAIN inst
  OBVIOUS
<1>3. s \in Seq(StationEntry(I)) /\ k \in 1 .. Len(s) /\ k \in DOMAIN s /\ ~s[k].is_issued
  BY <1>1, <1>2
<1>4. s[k].inst \in I
  BY <1>3, EntriesAre
<1>5. k \in Open(s)
  BY <1>3, Zenon DEF Open
<1>6. ~Absent(s[k].inst, OpenInsts(s))
  BY <1>3, <1>5, OpenHas, EntriesAre, Zenon
<1>7. held[AtStation(p)] = OpenInsts(s)
  BY <1>2, HeldIs, Zenon
<1> QED BY <1>2, <1>4, <1>6, <1>7, Zenon

\* The stations.
LEMMA StationsKept ==
  ASSUME FateInv, StationsInv, NEW group, Onward(group), NEW p \in Pipe, NEW f,
         ComesOn(inst, held, Instructions(forwarding_reservation_inst_in(p)), inst', held', f),
         NEW d, NEW k \in DOMAIN reservation_station[p], Eased(d, reservation_station[p][k])
  PROVE  EntrySupplied(inst', held', d, f)
<1>1. PICK e, g : e = reservation_station[p][k] /\ g = Instructions(forwarding_reservation_inst_in(p))
  OBVIOUS
<1>2. EntrySupplied(inst, held, e, g)
  BY <1>1, Zenon DEF StationsInv
<1>3. CASE d.is_issued
  BY <1>3, Zenon DEF EntrySupplied
<1>4. CASE ~d.is_issued
  <2>1. ~e.is_issued
    BY <1>1, <1>4, Zenon DEF Eased
  <2>2. e.inst \in DOMAIN inst /\ ~Absent(e.inst, held[AtStation(p)])
    BY <1>1, <2>1, OpenEntry, Zenon
  <2>3. SameRegs(inst, inst', e.inst)
    BY <2>2, PlacedRegs, PlacesDiffer, Zenon
  <2> QED BY <1>1, <1>2, <2>3, EntryOn, Zenon
<1> QED BY <1>3, <1>4

\* What is left alone at place z.
StaysAt(z) == \A i \in DOMAIN inst : ~Absent(i, held[z]) => SameFlags(inst, inst', i)

\* An instruction on its way to a station, or pending for it.
LEMMA SuppliedKept ==
  ASSUME FateInv, NEW group, Onward(group), NEW z \in Place, StaysAt(z), NEW i \in DOMAIN inst,
         ~Absent(i, held[z]), NEW g, NEW f, ComesOn(inst, held, g, inst', held', f),
         Supplied(inst, held, i, g)
  PROVE  Supplied(inst', held', i, f)
<1>1. SameRegs(inst, inst', i) /\ SameFlags(inst, inst', i)
  BY PlacedRegs, Zenon DEF StaysAt
<1> QED BY <1>1, SuppliedOn, Zenon

\* What is due on a station's wire, now and later, is what is on it.
LEMMA StationWireHas ==
  ASSUME FateInv, NEW p \in Pipe, NEW i
  PROVE  /\ ~Absent(i, Joined(now[preceding_reservation_inst_in(p)])) =>
               ~Absent(i, held[AtStationWire(p)])
         /\ ~Absent(i, Joined(later[preceding_reservation_inst_in(p)])) =>
               ~Absent(i, held[AtStationWire(p)])
         /\ ~Absent(i, held[AtStationWire(p)]) => i \in DOMAIN inst
<1>1. PICK a, b, I : /\ a = now[preceding_reservation_inst_in(p)] /\ I = DOMAIN inst
                     /\ b = later[preceding_reservation_inst_in(p)]
  OBVIOUS
<1>2. preceding_reservation_inst_in(p) \in GroupPort /\ preceding_reservation_inst_in(p) \in LinkPort
  BY LinkPortHas, Zenon
<1>3. Typed(preceding_reservation_inst_in(p), MessageOf(preceding_reservation_inst_in(p), DOMAIN inst))
  BY <1>2, Zenon DEF FateInv, CreditInv, WiresOK
<1>4. MessageOf(preceding_reservation_inst_in(p), DOMAIN inst) = Seq(DOMAIN inst)
  BY <1>2, LinkPortsAre, Zenon DEF MessageOf
<1>5. a \in Seq(Seq(I)) /\ b \in Seq(Seq(I))
  BY <1>1, <1>3, <1>4, Zenon DEF Typed
<1>6. held[AtStationWire(p)] = Joined(a \o b)
  BY <1>1, HeldIs, Zenon DEF Instructions, OnTheWay
<1>7. Absent(i, Joined(a \o b)) <=> Absent(i, Joined(a)) /\ Absent(i, Joined(b))
  BY <1>5, JoinedBoth, Zenon
<1>8. held[AtStationWire(p)] \in Seq(DOMAIN inst)
  BY HeldTyped, PlacesDiffer, Zenon
<1> QED BY <1>1, <1>6, <1>7, <1>8, OutsideAbsent, Zenon

\* The wires that are broadcast on, by name.
LEMMA WakePortsAre ==
  /\ write_back_dispatch_port_in \in WakePort
  /\ \A p \in Pipe : forwarding_reservation_inst_in(p) \in WakePort
  /\ \A d \in WakePort : d \in OneDelayPort /\ d \in Port /\ d \notin ZeroDelayPort
  /\ \A d \in WakePort : d \notin LinkPort /\ d \notin LatePort /\ d \notin UniqueEvent
<1>1. \A d \in WakePort : d \in OneDelayPort
  BY Zenon DEF WakePort, OneDelayPort
<1>2. \A d \in WakePort : d \notin LinkPort
  BY OtherPorts, Zenon DEF WakePort
<1>3. \A d \in WakePort : d \notin LatePort
  BY DEF WakePort, LatePort, write_back_dispatch_port_in, write_back_rob_finish_in,
         forwarding_reservation_inst_in, preceding_write_back_inst_in
<1> QED BY <1>1, <1>2, <1>3, PortsApart, Zenon DEF WakePort, Port

\* The broadcasts on a wire, due now or later.
LEMMA WakeWireHas ==
  ASSUME WakeWires, NEW d \in WakePort
  PROVE  /\ OnTheWay(d) \in Seq(Seq(DOMAIN inst)) /\ Instructions(d) \in Seq(DOMAIN inst)
         /\ now[d] \in Seq(Seq(DOMAIN inst)) /\ later[d] \in Seq(Seq(DOMAIN inst))
         /\ \A i : Absent(i, Instructions(d)) <=>
                      Absent(i, Joined(now[d])) /\ Absent(i, Joined(later[d]))
<1>1. now[d] \in Seq(Seq(DOMAIN inst)) /\ later[d] \in Seq(Seq(DOMAIN inst))
  BY Zenon DEF WakeWires, Typed
<1>2. PICK a, b, I : a = now[d] /\ b = later[d] /\ I = DOMAIN inst
  OBVIOUS
<1>3. a \in Seq(Seq(I)) /\ b \in Seq(Seq(I))
  BY <1>1, <1>2, Zenon
<1>4. PICK Q : Q = Seq(I)
  OBVIOUS
<1>5. a \o b \in Seq(Seq(I))
  BY <1>3, <1>4, ConcatFacts, Zenon
<1>6. Joined(a \o b) \in Seq(I)
  BY <1>5, JoinedIsSeq, Zenon
<1>7. \A i : Absent(i, Joined(a \o b)) <=> Absent(i, Joined(a)) /\ Absent(i, Joined(b))
  BY <1>3, JoinedBoth, Zenon
<1> QED BY <1>1, <1>2, <1>5, <1>6, <1>7, Zenon DEF Instructions, OnTheWay

\* A broadcast is heard on the wire d.
LEMMA TakenBroadcast ==
  ASSUME WakeWires, NEW d \in WakePort, now[d] # << >>, now'[d] = Tail(now[d]),
         later'[d] = later[d]
  PROVE  /\ now'[d] \in Seq(Seq(DOMAIN inst)) /\ Head(now[d]) \in Seq(DOMAIN inst)
         /\ \A i : Absent(i, Instructions(d)) <=>
                      Absent(i, Head(now[d])) /\ Absent(i, Instructions(d)')
<1>1. PICK a, b, t, I : /\ a = now[d] /\ b = later[d] /\ t = Tail(a) /\ I = DOMAIN inst
                        /\ a \in Seq(Seq(I)) /\ b \in Seq(Seq(I)) /\ a # << >>
  BY WakeWireHas, Zenon
<1>2. PICK Q : Q = Seq(I)
  OBVIOUS
<1>3. t \in Seq(Q)
  BY <1>1, <1>2, HeadTail, Zenon
<1>4. Head(a) \in Seq(I) /\ Joined(t) \in Seq(I) /\ Joined(a) = Head(a) \o Joined(t)
  BY <1>1, JoinedHead, Zenon
<1>5. \A i : Absent(i, Joined(a)) <=> Absent(i, Head(a)) /\ Absent(i, Joined(t))
  BY <1>4, ConcatParts, Zenon DEF Parts
<1>6. /\ \A i : Absent(i, Joined(a \o b)) <=> Absent(i, Joined(a)) /\ Absent(i, Joined(b))
      /\ \A i : Absent(i, Joined(t \o b)) <=> Absent(i, Joined(t)) /\ Absent(i, Joined(b))
  BY <1>1, <1>2, <1>3, JoinedBoth, Zenon
<1>7. Instructions(d) = Joined(a \o b) /\ Instructions(d)' = Joined(t \o b)
  BY <1>1, Zenon DEF Instructions, OnTheWay
<1> QED BY <1>1, <1>2, <1>3, <1>4, <1>5, <1>6, <1>7, Zenon

\* Nobody is told anything new, and nobody hears anything but over c.
TakenAt(c) ==
    \A d \in WakePort :
        /\ later'[d] = later[d]
        /\ d # c => now'[d] = now[d]
        /\ d = c => now[d] # << >> /\ now'[d] = Tail(now[d])

\* Then what came comes, but over c.
LEMMA NothingTold ==
  ASSUME FateInv, WakeInv, Onward(<< >>), NEW c, TakenAt(c),
         \A i \in DOMAIN inst : Absent(i, Unrenamed) => Absent(i, Unrenamed')
  PROVE  /\ WakeWires' /\ SameHeard' /\ HeardRenamed' /\ Told' = Told
         /\ \A d \in WakePort : d # c =>
              ComesOn(inst, held, Instructions(d), inst', held', Instructions(d)')
         /\ ComesOn(inst, held, Told, inst', held', Told)
<1>1. WakeWires /\ SameHeard /\ HeardRenamed
  BY Zenon DEF WakeInv
<1>2. ASSUME NEW d \in WakePort
      PROVE  /\ later'[d] = later[d] /\ now'[d] \in Seq(Seq(DOMAIN inst))
             /\ d # c => Instructions(d)' = Instructions(d)
             /\ \A i : Absent(i, Instructions(d)) => Absent(i, Instructions(d)')
  <2>1. later'[d] = later[d]
    BY Zenon DEF TakenAt
  <2>2. CASE d = c
    <3>1. now[d] # << >> /\ now'[d] = Tail(now[d])
      BY <2>2, Zenon DEF TakenAt
    <3> QED BY <1>1, <2>1, <2>2, <3>1, TakenBroadcast, Zenon
  <2>3. CASE d # c
    <3>1. now'[d] = now[d]
      BY <2>3, Zenon DEF TakenAt
    <3>2. Instructions(d)' = Instructions(d)
      BY <2>1, <3>1, Zenon DEF Instructions, OnTheWay
    <3> QED BY <1>1, <2>1, <2>3, <3>1, <3>2, WakeWireHas, Zenon
  <2> QED BY <2>2, <2>3
<1>3. WakeWires'
  <2>1. PICK I, J : I = DOMAIN inst /\ J = DOMAIN inst' /\ I \subseteq J
    BY Zenon DEF Onward, More
  <2>2. Seq(Seq(I)) \subseteq Seq(Seq(J))
    BY <2>1, SeqGrows, Zenon
  <2>3. ASSUME NEW d \in WakePort PROVE Typed(d, Seq(DOMAIN inst))'
    <3>1. now'[d] \in Seq(Seq(I)) /\ later'[d] \in Seq(Seq(I)) /\ d \notin ZeroDelayPort
      BY <1>1, <1>2, <2>1, <2>3, WakeWireHas, WakePortsAre, Zenon
    <3> QED BY <2>1, <2>2, <3>1, Zenon DEF Typed
  <2> QED BY <2>3, Zenon DEF WakeWires
<1>4. SameHeard' /\ Told' = Told
  BY <1>1, <1>2, WakePortsAre, Zenon DEF SameHeard, Told
<1>5. HeardRenamed'
  <2>1. ASSUME NEW d \in WakePort, NEW i \in DOMAIN inst', ~Absent(i, Instructions(d)')
        PROVE  Absent(i, Unrenamed')
    <3>1. ~Absent(i, Instructions(d))
      BY <1>2, <2>1, Zenon
    <3>2. i \in DOMAIN inst
      BY <1>1, <2>1, <3>1, WakeWireHas, OutsideAbsent, Zenon
    <3> QED BY <1>1, <2>1, <3>1, <3>2, Zenon DEF HeardRenamed
  <2> QED BY <2>1, Zenon DEF HeardRenamed
<1>6. \A i : Absent(i, << >>)
  BY EmptyAbsent, Zenon
<1>7. ASSUME NEW d \in WakePort, d # c
      PROVE  ComesOn(inst, held, Instructions(d), inst', held', Instructions(d)')
  <2>1. \A i \in DOMAIN inst : ~Absent(i, Instructions(d)) => Absent(i, Unrenamed)
    BY <1>1, <1>7, Zenon DEF HeardRenamed
  <2>2. Instructions(d)' = Instructions(d)
    BY <1>2, <1>7, Zenon
  <2> QED BY <1>6, <2>1, <2>2, StillComes, Zenon
<1>8. ComesOn(inst, held, Told, inst', held', Told)
  <2>1. \A i \in DOMAIN inst : ~Absent(i, Told) => Absent(i, Unrenamed)
    BY <1>1, WakeWireHas, WakePortsAre, Zenon DEF Told, HeardRenamed
  <2> QED BY <1>6, <2>1, StillComes, Zenon
<1> QED BY <1>3, <1>4, <1>5, <1>7, <1>8

\* What an instruction waits for that arrives, will arrive or is pending.
LEMMA ArrivingKept ==
  ASSUME FateInv, WakeInv, NEW group, Onward(group), NEW p \in Pipe, StaysAt(AtStationWire(p)),
         NEW f,
         ComesOn(inst, held, Instructions(forwarding_reservation_inst_in(p)), inst', held', f),
         NEW i, ~Absent(i, Joined(now[preceding_reservation_inst_in(p)]))
  PROVE  Supplied(inst', held', i, f)
<1>1. i \in DOMAIN inst /\ ~Absent(i, held[AtStationWire(p)]) /\ AtStationWire(p) \in Place
  BY StationWireHas, PlacesDiffer, Zenon
<1>2. Supplied(inst, held, i, Instructions(forwarding_reservation_inst_in(p)))
  BY <1>1, Zenon DEF WakeInv, ArrivingInv
<1> QED BY <1>1, <1>2, SuppliedKept, Zenon

LEMMA SentKept ==
  ASSUME FateInv, WakeInv, NEW group, Onward(group), NEW p \in Pipe, StaysAt(AtStationWire(p)),
         NEW f, ComesOn(inst, held, Told, inst', held', f),
         NEW i, ~Absent(i, Joined(later[preceding_reservation_inst_in(p)]))
  PROVE  Supplied(inst', held', i, f)
<1>1. i \in DOMAIN inst /\ ~Absent(i, held[AtStationWire(p)]) /\ AtStationWire(p) \in Place
  BY StationWireHas, PlacesDiffer, Zenon
<1>2. Supplied(inst, held, i, Told)
  BY <1>1, Zenon DEF WakeInv, SentInv
<1> QED BY <1>1, <1>2, SuppliedKept, Zenon

LEMMA PendingKept ==
  ASSUME FateInv, WakeInv, NEW group, Onward(group), NEW p \in Pipe, StaysAt(AtPending(p)),
         NEW f, ComesOn(inst, held, Told, inst', held', f),
         NEW i, ~Absent(i, dispatch_pending_queue[p])
  PROVE  i \in DOMAIN inst /\ Supplied(inst', held', i, f)
<1>1. /\ AtPending(p) \in Place /\ held[AtPending(p)] = dispatch_pending_queue[p]
      /\ dispatch_pending_queue[p] \in Seq(DOMAIN inst)
  BY PlacesDiffer, HeldIs, StationNumbers, Zenon DEF FateInv
<1>2. i \in DOMAIN inst
  BY <1>1, OutsideAbsent, Zenon
<1>3. Supplied(inst, held, i, Told)
  BY <1>2, Zenon DEF WakeInv, PendingInv
<1> QED BY <1>1, <1>2, <1>3, SuppliedKept, Zenon

\* The turns of the dispatch stage.
LEMMA TurnsKept ==
  ASSUME TurnInv, NEW c, NEW soon, NEW next, NEW out, Fire(c, soon, next, out),
         c # dispatch_select_events_, c # dispatch_issue_events_,
         dispatch_issue_events_ \notin soon, dispatch_issue_events_ \notin next,
         dispatch_pending_queue' = dispatch_pending_queue
  PROVE  TurnInv'
<1>1. PICK s, e : s = dispatch_select_events_ /\ e = dispatch_issue_events_
  OBVIOUS
<1>2. s \in UniqueEvent /\ e \in UniqueEvent /\ s # e
  BY <1>1 DEF UniqueEvent, dispatch_select_events_, dispatch_issue_events_
<1>3. /\ s \in Source /\ s \notin ZeroDelayPort /\ s \notin OneDelayPort
      /\ e \in Source /\ e \notin ZeroDelayPort /\ e \notin OneDelayPort
  BY <1>2, PortsApart, Zenon DEF Source
<1>4. (s \in fired' <=> s \in fired) /\ (e \in fired' <=> e \in fired)
  BY <1>1, Zenon DEF Fire
<1>5. now'[s] = (IF s \in soon \ fired' THEN <<Go>> ELSE now[s]) /\ now'[e] = now[e]
  BY <1>1, <1>3, Zenon DEF Fire
<1>6. later'[s] = (IF s \in next THEN <<Go>> ELSE later[s]) /\ later'[e] = later[e]
  BY <1>1, <1>3, Zenon DEF Fire
<1>7. /\ (\E p \in Pipe : dispatch_pending_queue[p] # << >>) => now[e] # << >>
      /\ now[e] # << >> \/ e \in fired => s \in fired
      /\ s \in fired => now[s] = << >>
      /\ now[s] \in {<< >>, <<Go>>} /\ later[s] \in {<< >>, <<Go>>} /\ later[e] = << >>
  BY <1>1, Zenon DEF TurnInv
<1>8. s \in fired' => now'[s] = << >>
  BY <1>4, <1>5, <1>7, Zenon
<1>9. now'[s] \in {<< >>, <<Go>>} /\ later'[s] \in {<< >>, <<Go>>}
  BY <1>5, <1>6, <1>7, Zenon
<1> QED BY <1>1, <1>4, <1>5, <1>6, <1>7, <1>8, <1>9, Zenon DEF TurnInv

\* What has not been chosen.
LEMMA OpenKept ==
  ASSUME OpenInv,
         \A i \in DOMAIN inst' :
            \/ ~inst'[i].IsRs1Forward /\ ~inst'[i].IsRs2Forward
            \/ /\ i \in DOMAIN inst /\ SameFlags(inst, inst', i)
               /\ Unchosen(i, Unrenamed', held') => Unchosen(i, Unrenamed, held)
  PROVE  OpenInv'
<1>1. ASSUME NEW i \in DOMAIN inst', Unchosen(i, Unrenamed', held')
      PROVE  ~inst'[i].IsRs1Forward /\ ~inst'[i].IsRs2Forward
  <2>1. CASE /\ i \in DOMAIN inst /\ SameFlags(inst, inst', i)
             /\ Unchosen(i, Unrenamed', held') => Unchosen(i, Unrenamed, held)
    BY <1>1, <2>1, Zenon DEF OpenInv, SameFlags
  <2> QED BY <1>1, <2>1, Zenon
<1> QED BY <1>1, Zenon DEF OpenInv

\* A step that leaves alone whoever is not at a station and what is not heard
\* over c; nobody arrives where it is heard.
Mostly(c) ==
    /\ FateInv' /\ OpenInv' /\ TurnInv' /\ Onward(<< >>)
    /\ \A i \in DOMAIN inst :
         Absent(i, Unrenamed) => SameFlags(inst, inst', i) /\ Absent(i, Unrenamed')
    /\ TakenAt(c)
    /\ \A p \in Pipe :
         /\ later'[preceding_reservation_inst_in(p)] = later[preceding_reservation_inst_in(p)]
         /\ \A i : ~Absent(i, Joined(now'[preceding_reservation_inst_in(p)])) =>
               /\ ~Absent(i, Joined(now[preceding_reservation_inst_in(p)]))
               /\ forwarding_reservation_inst_in(p) # c
    /\ dispatch_pending_queue' = dispatch_pending_queue

\* The registers still come ...
LEMMA MostlyComes ==
  ASSUME FateInv, WakeInv, NEW c, Mostly(c)
  PROVE  /\ WakeWires' /\ SameHeard' /\ HeardRenamed' /\ Told' = Told
         /\ \A d \in WakePort : d # c =>
              ComesOn(inst, held, Instructions(d), inst', held', Instructions(d)')
         /\ ComesOn(inst, held, Told, inst', held', Told)
         /\ \A z \in Place : StaysAt(z)
<1>1. ASSUME NEW z \in Place PROVE StaysAt(z)
  BY UnsaidNow, Zenon DEF StaysAt, Mostly
<1> QED BY <1>1, NothingTold, Zenon DEF Mostly

\* ... and such a step keeps the invariant, if only the scoreboard and the
\* stations are kept.
LEMMA MostlyWake ==
  ASSUME FateInv, WakeInv, NEW c, Mostly(c), BoardInv', StationsInv' PROVE WakeInv'
<1>1. /\ WakeWires' /\ SameHeard' /\ HeardRenamed' /\ Told' = Told
      /\ \A d \in WakePort : d # c =>
           ComesOn(inst, held, Instructions(d), inst', held', Instructions(d)')
      /\ ComesOn(inst, held, Told, inst', held', Told)
      /\ \A z \in Place : StaysAt(z)
  BY MostlyComes, Zenon
<1>2. Onward(<< >>)
  BY Zenon DEF Mostly
<1>3. \A p \in Pipe : StaysAt(AtStationWire(p)) /\ StaysAt(AtPending(p))
  BY <1>1, PlacesDiffer, Zenon
<1>4. ArrivingInv'
  <2>1. ASSUME NEW p \in Pipe, NEW i, ~Absent(i, Joined(now'[preceding_reservation_inst_in(p)]))
        PROVE  Supplied(inst', held', i, Instructions(forwarding_reservation_inst_in(p))')
    <3>1. /\ ~Absent(i, Joined(now[preceding_reservation_inst_in(p)]))
          /\ forwarding_reservation_inst_in(p) # c
      BY <2>1, Zenon DEF Mostly
    <3> QED BY <1>1, <1>2, <1>3, <3>1, ArrivingKept, WakePortsAre, Zenon
  <2> QED BY <2>1, Zenon DEF ArrivingInv
<1>5. SentInv'
  <2>1. ASSUME NEW p \in Pipe, NEW i, ~Absent(i, Joined(later'[preceding_reservation_inst_in(p)]))
        PROVE  Supplied(inst', held', i, Told')
    <3>1. ~Absent(i, Joined(later[preceding_reservation_inst_in(p)]))
      BY <2>1, Zenon DEF Mostly
    <3> QED BY <1>1, <1>2, <1>3, <3>1, SentKept, Zenon
  <2> QED BY <2>1, Zenon DEF SentInv
<1>6. PendingInv'
  <2>1. ASSUME NEW p \in Pipe, NEW i, ~Absent(i, dispatch_pending_queue'[p])
        PROVE  Supplied(inst', held', i, Told')
    <3>1. ~Absent(i, dispatch_pending_queue[p])
      BY <2>1, Zenon DEF Mostly
    <3> QED BY <1>1, <1>2, <1>3, <3>1, PendingKept, Zenon
  <2> QED BY <2>1, Zenon DEF PendingInv
<1> QED BY <1>1, <1>4, <1>5, <1>6, Zenon DEF WakeInv, Mostly

StationsEased ==
    \A p \in Pipe : \A k \in DOMAIN reservation_station'[p] :
         \E j \in DOMAIN reservation_station[p] :
            Eased(reservation_station'[p][k], reservation_station[p][j])

\* The stations are kept when their entries wait for no more than they did.
LEMMA EasedKept ==
  ASSUME FateInv, WakeInv, NEW c, Mostly(c), \A p \in Pipe : forwarding_reservation_inst_in(p) # c,
         StationsEased
  PROVE  StationsInv'
<1>1. \A d \in WakePort : d # c =>
           ComesOn(inst, held, Instructions(d), inst', held', Instructions(d)')
  BY MostlyComes, Zenon
<1>2. ASSUME NEW p \in Pipe, NEW k \in DOMAIN reservation_station'[p]
      PROVE  EntrySupplied(inst', held', reservation_station'[p][k],
                           Instructions(forwarding_reservation_inst_in(p))')
  <2>1. PICK j \in DOMAIN reservation_station[p] :
           Eased(reservation_station'[p][k], reservation_station[p][j])
    BY <1>2, Zenon DEF StationsEased
  <2>2. Onward(<< >>) /\ StationsInv
    BY Zenon DEF Mostly, WakeInv
  <2>3. ComesOn(inst, held, Instructions(forwarding_reservation_inst_in(p)), inst', held',
                Instructions(forwarding_reservation_inst_in(p))')
    BY <1>1, <1>2, WakePortsAre, Zenon
  <2> QED BY <1>2, <2>1, <2>2, <2>3, StationsKept, Zenon
<1> QED BY <1>2, Zenon DEF StationsInv

\* The scoreboard is when it has no more registers.
LEMMA BoardStays ==
  ASSUME FateInv, WakeInv, NEW c, Mostly(c), write_back_dispatch_port_in # c,
         score_board' \subseteq score_board
  PROVE  BoardInv'
<1>1. BoardInv /\ ComesOn(inst, held, Instructions(write_back_dispatch_port_in), inst', held',
                          Instructions(write_back_dispatch_port_in)')
  BY MostlyComes, WakePortsAre, Zenon DEF WakeInv
<1> QED BY <1>1, BoardKept, Zenon
-----------------------------------------------------------------------------
(* The handlers that leave everybody waiting for what they waited for.     *)

Apart(c, out, d) == d # c /\ \A mail \in out : mail[1] # d

\* The wires to whoever waits.
HeardPort == WakePort \cup {preceding_reservation_inst_in(p) : p \in Pipe}

\* A wire that a handler has nothing to do with.
LEMMA QuietWire ==
  ASSUME FateInv, WakeInv, NEW c, NEW soon, NEW next, NEW out, Fire(c, soon, next, out),
         Events(soon, next), NEW d \in WorkPort \cup WakePort, Apart(c, out, d)
  PROVE  Quiet(d)
<1>1. d # c /\ \A mail \in out : mail[1] # d
  BY Zenon DEF Apart
<1>2. CASE d \in WorkPort
  BY <1>1, <1>2, WorkQuiet, Zenon DEF FateInv
<1>3. CASE d \in WakePort
  <2>1. Typed(d, Seq(DOMAIN inst)) /\ d \in Port
    BY <1>3, WakePortsAre, Zenon DEF WakeInv, WakeWires
  <2> QED BY <1>1, <2>1, QuietPort, Zenon
<1> QED BY <1>2, <1>3, Zenon

\* What a handler has to leave alone.
Calm(c, soon, next, out) ==
    /\ Fire(c, soon, next, out) /\ Events(soon, next)
    /\ c # dispatch_select_events_ /\ c # dispatch_issue_events_
    /\ dispatch_issue_events_ \notin soon /\ dispatch_issue_events_ \notin next
    /\ \A d \in HeardPort : Apart(c, out, d)
    /\ dispatch_pending_queue' = dispatch_pending_queue

\* Then these wires are quiet, and the turns stay.
LEMMA CalmWires ==
  ASSUME FateInv, WakeInv, NEW c, NEW soon, NEW next, NEW out, Calm(c, soon, next, out)
  PROVE  (\A d \in HeardPort : Quiet(d)) /\ TurnInv'
<1>1. /\ Fire(c, soon, next, out) /\ Events(soon, next)
      /\ c # dispatch_select_events_ /\ c # dispatch_issue_events_
      /\ dispatch_issue_events_ \notin soon /\ dispatch_issue_events_ \notin next
      /\ dispatch_pending_queue' = dispatch_pending_queue
  BY Zenon DEF Calm
<1>2. ASSUME NEW d \in HeardPort PROVE Quiet(d)
  <2>1. d \in WorkPort \cup WakePort
    BY WorkPortHas, Zenon DEF HeardPort
  <2> QED BY <1>1, <2>1, QuietWire, Zenon DEF Calm
<1>3. TurnInv
  BY Zenon DEF WakeInv
<1> QED BY <1>1, <1>2, <1>3, TurnsKept, Zenon

\* A calm handler leaves most alone, and the stations.
LEMMA CalmMostly ==
  ASSUME FateInv, WakeInv, FateInv', NEW c, NEW soon, NEW next, NEW out, Calm(c, soon, next, out),
         OpenInv', Onward(<< >>), StationsEased,
         \A i \in DOMAIN inst :
            Absent(i, Unrenamed) => SameFlags(inst, inst', i) /\ Absent(i, Unrenamed')
  PROVE  StationsInv' /\ Mostly(rename_event) /\ rename_event \notin WakePort
<1>1. (\A d \in HeardPort : Quiet(d)) /\ TurnInv'
  BY CalmWires, Zenon
<1>2. (\A d \in WakePort : Quiet(d)) /\ \A p \in Pipe : Quiet(preceding_reservation_inst_in(p))
  BY <1>1, Zenon DEF HeardPort
<1>3. PICK e : e = rename_event /\ e \notin WakePort
  BY WakePortsAre, Zenon DEF UniqueEvent
<1>4. TakenAt(e) /\ \A p \in Pipe : forwarding_reservation_inst_in(p) # e
  BY <1>2, <1>3, WakePortsAre, Zenon DEF TakenAt, Quiet
<1>5. Mostly(e)
  BY <1>1, <1>2, <1>4, Zenon DEF Mostly, Quiet, Calm
<1>6. StationsInv'
  BY <1>4, <1>5, EasedKept, Zenon
<1> QED BY <1>3, <1>5, <1>6

\* So it keeps the invariant when it leaves the scoreboard alone.
LEMMA CalmStep ==
  ASSUME FateInv, WakeInv, FateInv', NEW c, NEW soon, NEW next, NEW out, Calm(c, soon, next, out),
         OpenInv', Onward(<< >>), StationsEased, score_board' = score_board,
         \A i \in DOMAIN inst :
            Absent(i, Unrenamed) => SameFlags(inst, inst', i) /\ Absent(i, Unrenamed')
  PROVE  WakeInv'
<1>1. StationsInv' /\ Mostly(rename_event) /\ rename_event \notin WakePort
  BY CalmMostly, Zenon
<1>2. write_back_dispatch_port_in # rename_event /\ score_board' \subseteq score_board
  BY <1>1, WakePortsAre, Zenon
<1>3. BoardInv'
  BY <1>1, <1>2, BoardStays, Zenon
<1> QED BY <1>1, <1>3, MostlyWake, Zenon

\* The stations left alone.
LEMMA StationsAlone ==
  ASSUME FateInv, reservation_station' = reservation_station PROVE StationsEased
<1>1. ASSUME NEW p \in Pipe, NEW k \in DOMAIN reservation_station[p]
      PROVE  Eased(reservation_station[p][k], reservation_station[p][k])
  BY Zenon DEF Eased
<1> QED BY <1>1, Zenon DEF StationsEased

\* Neither what the reorder buffer waits for changes nor what is broadcast.
LEMMA OnwardRegs ==
  ASSUME FateInv, FateInv', rob' = rob, DOMAIN inst' = DOMAIN inst,
         \A i \in DOMAIN inst : SameRegs(inst, inst', i),
         Quiet(preceding_rob_inst_in), Quiet(write_back_rob_finish_in)
  PROVE  Onward(<< >>)
<1>1. More /\ \A i \in DOMAIN inst : SameRegs(inst, inst', i)
  BY Zenon DEF More
<1>2. RobWire' = RobWire /\ Entries' = Entries
  BY QuietPortSame, Zenon DEF RobWire, Entries
<1>3. held'[AtFinishWire] = held[AtFinishWire]
  BY HeldIs, HeldIsPrime, QuietPortSame, Zenon
<1>4. ASSUME NEW i \in DOMAIN inst, Unsaid(i, held) PROVE Unsaid(i, held')
  <2>1. Due(i, RobWire, Entries) /\ Absent(i, held[AtFinishWire])
    BY <1>4, UnsaidNow, Zenon
  <2> QED BY <1>2, <1>3, <2>1, UnsaidNext, Zenon
<1> QED BY <1>1, <1>4, Zenon DEF Onward

LEMMA OnwardSame ==
  ASSUME FateInv, FateInv', inst' = inst, rob' = rob,
         Quiet(preceding_rob_inst_in), Quiet(write_back_rob_finish_in)
  PROVE  Onward(<< >>)
<1>1. \A i \in DOMAIN inst : SameRegs(inst, inst', i)
  BY Zenon DEF SameRegs
<1> QED BY <1>1, OnwardRegs, Zenon

\* What is at the places stays there, or moves to another that is not the last.
LEMMA OnwardHeld ==
  ASSUME inst' = inst, \A z \in Place : z # AtFinishWire => held'[z] = held[z]
  PROVE  Onward(<< >>)
<1>1. More /\ \A i \in DOMAIN inst : SameRegs(inst, inst', i)
  BY Zenon DEF More, SameRegs
<1>2. \A i : Unsaid(i, held) => Unsaid(i, held')
  BY Zenon DEF Unsaid
<1> QED BY <1>1, <1>2, Zenon DEF Onward

\* The program left alone.
LEMMA ProgramSame ==
  ASSUME WakeInv, inst' = inst,
         \A i : Absent(i, Unrenamed) => Absent(i, Unrenamed'),
         \A i : Unchosen(i, Unrenamed', held') => Unchosen(i, Unrenamed, held)
  PROVE  /\ OpenInv'
         /\ \A i \in DOMAIN inst :
              Absent(i, Unrenamed) => SameFlags(inst, inst', i) /\ Absent(i, Unrenamed')
<1>1. \A i : SameFlags(inst, inst', i)
  BY Zenon DEF SameFlags
<1>2. OpenInv'
  BY <1>1, OpenKept, Zenon DEF WakeInv
<1> QED BY <1>1, <1>2, Zenon

\* And what has not been chosen.
LEMMA ProgramAlone ==
  ASSUME WakeInv, inst' = inst,
         \A i : Absent(i, Unrenamed) => Absent(i, Unrenamed'),
         \A i : Absent(i, held[AtDispatchWire]) => Absent(i, held'[AtDispatchWire]),
         \A i : Absent(i, held[AtDispatchQueue]) => Absent(i, held'[AtDispatchQueue])
  PROVE  /\ OpenInv'
         /\ \A i \in DOMAIN inst :
              Absent(i, Unrenamed) => SameFlags(inst, inst', i) /\ Absent(i, Unrenamed')
<1>1. \A i : Unchosen(i, Unrenamed', held') => Unchosen(i, Unrenamed, held)
  BY Zenon DEF Unchosen
<1> QED BY <1>1, ProgramSame, Zenon

\* The wires to whoever waits, and those to where the dispatch stage's choice
\* and the last broadcast are decided.
KeyPort ==
    HeardPort \cup {preceding_renaming_inst_in, preceding_rob_inst_in,
                    preceding_dispatch_inst_in, write_back_rob_finish_in}

\* Which ports are not among them.
LEMMA NotKey ==
  /\ \A c \in UniqueEvent : c \notin KeyPort
  /\ \A c \in CreditPort : c \notin KeyPort
  /\ rs_dispatch_credit_in \notin KeyPort /\ Rob_cmt_inst_in \notin KeyPort
  /\ preceding_write_back_inst_in \notin KeyPort
  /\ \A p \in Pipe : preceding_func_inst_in(p) \notin KeyPort
  /\ \A mail \in Nothing : FALSE
<1>1. \A d \in KeyPort : d \in OneDelayPort
  BY WakePortsAre, Zenon DEF KeyPort, HeardPort, OneDelayPort
<1>2. \A d \in KeyPort : d \notin ZeroDelayPort /\ d \notin UniqueEvent
  BY <1>1, PortsApart, Zenon
<1>3. \A c \in CreditPort : c \in ZeroDelayPort
  BY Zenon DEF CreditPort, ZeroDelayPort
<1>4. /\ rs_dispatch_credit_in \in ZeroDelayPort /\ Rob_cmt_inst_in \in ZeroDelayPort
      /\ preceding_write_back_inst_in \in ZeroDelayPort
  BY Zenon DEF ZeroDelayPort
<1>5. ASSUME NEW p \in Pipe PROVE preceding_func_inst_in(p) \notin KeyPort
  BY DEF KeyPort, HeardPort, WakePort, write_back_dispatch_port_in, write_back_rob_finish_in,
         forwarding_reservation_inst_in, preceding_reservation_inst_in, preceding_func_inst_in,
         preceding_renaming_inst_in, preceding_rob_inst_in, preceding_dispatch_inst_in
<1>6. \A mail \in Nothing : FALSE
  BY DEF Nothing
<1> QED BY <1>2, <1>3, <1>4, <1>5, <1>6, Zenon

\* A handler that has nothing to do with any of them.
Distant(c, soon, next, out) ==
    /\ Fire(c, soon, next, out) /\ Events(soon, next)
    /\ c # dispatch_select_events_ /\ c # dispatch_issue_events_
    /\ dispatch_issue_events_ \notin soon /\ dispatch_issue_events_ \notin next
    /\ c \notin KeyPort /\ \A mail \in out : mail[1] \notin KeyPort
    /\ UNCHANGED <<inst, rob, renaming_stage_queue, dispatch_pending_queue, score_board>>
    /\ StationsEased

\* It keeps the invariant, when the dispatch queue holds no more than it did.
LEMMA DistantStep ==
  ASSUME FateInv, WakeInv, FateInv', NEW c, NEW soon, NEW next, NEW out,
         Distant(c, soon, next, out),
         \A i : Absent(i, held[AtDispatchQueue]) => Absent(i, held'[AtDispatchQueue])
  PROVE  WakeInv'
<1>1. \A d \in KeyPort : Apart(c, out, d)
  BY Zenon DEF Distant, Apart
<1>2. Calm(c, soon, next, out)
  BY <1>1, Zenon DEF Distant, Calm, KeyPort
<1>3. ASSUME NEW d \in KeyPort PROVE Quiet(d)
  <2>1. d \in WorkPort \cup WakePort
    BY WorkPortHas, Zenon DEF KeyPort, HeardPort
  <2>2. Fire(c, soon, next, out) /\ Events(soon, next)
    BY Zenon DEF Distant
  <2> QED BY <1>1, <2>1, <2>2, QuietWire, Zenon
<1>4. /\ Quiet(preceding_renaming_inst_in) /\ Quiet(preceding_rob_inst_in)
      /\ Quiet(preceding_dispatch_inst_in) /\ Quiet(write_back_rob_finish_in)
  BY <1>3, Zenon DEF KeyPort
<1>5. /\ inst' = inst /\ rob' = rob /\ renaming_stage_queue' = renaming_stage_queue /\ StationsEased
      /\ score_board' = score_board
  BY Zenon DEF Distant
<1>6. Onward(<< >>)
  BY <1>4, <1>5, OnwardSame, Zenon
<1>7. Unrenamed' = Unrenamed /\ held'[AtDispatchWire] = held[AtDispatchWire]
  BY <1>4, <1>5, QuietPortSame, HeldIs, HeldIsPrime, Zenon DEF Unrenamed
<1>8. /\ OpenInv'
      /\ \A i \in DOMAIN inst :
           Absent(i, Unrenamed) => SameFlags(inst, inst', i) /\ Absent(i, Unrenamed')
  BY <1>5, <1>7, ProgramAlone, Zenon
<1> QED BY <1>2, <1>5, <1>6, <1>8, CalmStep, Zenon

\* When it is left alone, too.
LEMMA DistantAlone ==
  ASSUME FateInv, WakeInv, FateInv', NEW c, NEW soon, NEW next, NEW out,
         Distant(c, soon, next, out), inst_queue' = inst_queue
  PROVE  WakeInv'
<1>1. held'[AtDispatchQueue] = held[AtDispatchQueue]
  BY HeldIs, HeldIsPrime, Zenon
<1> QED BY <1>1, DistantStep, Zenon

\* The two events of the dispatch stage's turns are not others.
LEMMA TurnsDiffer ==
  /\ \A c \in Port : c # dispatch_select_events_ /\ c # dispatch_issue_events_
  /\ dispatch_issue_events_ \notin {produce_inst_event_, rename_event, commit_event,
        dispatch_pop_events_, dispatch_select_events_, arbitrate_inst_event}
  /\ dispatch_select_events_ \notin {produce_inst_event_, rename_event, commit_event,
        dispatch_pop_events_, arbitrate_inst_event}
  /\ \A p \in Pipe : /\ passing_event(p) # dispatch_issue_events_
                     /\ passing_event(p) # dispatch_select_events_
                     /\ pop_event(p) # dispatch_issue_events_
                     /\ pop_event(p) # dispatch_select_events_
                     /\ write_back_event(p) # dispatch_issue_events_
                     /\ write_back_event(p) # dispatch_select_events_
<1>1. dispatch_select_events_ \in UniqueEvent /\ dispatch_issue_events_ \in UniqueEvent
  BY Zenon DEF UniqueEvent
<1>2. \A c \in Port : c \notin UniqueEvent
  BY PortsApart, Zenon DEF Port
<1>3. dispatch_issue_events_ \notin {produce_inst_event_, rename_event, commit_event,
        dispatch_pop_events_, dispatch_select_events_, arbitrate_inst_event}
  BY DEF dispatch_issue_events_, produce_inst_event_, rename_event, commit_event,
         dispatch_pop_events_, dispatch_select_events_, arbitrate_inst_event
<1>4. dispatch_select_events_ \notin {produce_inst_event_, rename_event, commit_event,
        dispatch_pop_events_, arbitrate_inst_event}
  BY DEF produce_inst_event_, rename_event, commit_event,
         dispatch_pop_events_, dispatch_select_events_, arbitrate_inst_event
<1>5. ASSUME NEW p \in Pipe
      PROVE  /\ passing_event(p) # dispatch_issue_events_
             /\ passing_event(p) # dispatch_select_events_
             /\ pop_event(p) # dispatch_issue_events_
             /\ pop_event(p) # dispatch_select_events_
             /\ write_back_event(p) # dispatch_issue_events_
             /\ write_back_event(p) # dispatch_select_events_
  BY DEF dispatch_issue_events_, dispatch_select_events_, passing_event, pop_event, write_back_event
<1> QED BY <1>1, <1>2, <1>3, <1>4, <1>5, Zenon

\* The ports of no link are ports, too.
LEMMA OtherPortsAre ==
  /\ Rob_cmt_inst_in \in Port /\ write_back_dispatch_port_in \in Port
  /\ \A p \in Pipe : forwarding_reservation_inst_in(p) \in Port
BY Zenon DEF Port, ZeroDelayPort, OneDelayPort

\* The fetch stage takes credits.
LEMMA AcceptCreditWake ==
  ASSUME FateInv, WakeInv, AcceptCredit,
         UNCHANGED <<renamingVars, rob, dispatchVars, rsVars, fuVars>>
  PROVE  WakeInv'
<1>1. inst' = inst /\ Fire(backend_fetch_credit_in, {produce_inst_event_}, {}, Nothing)
  BY Zenon DEF AcceptCredit
<1>2. FateInv'
  BY AcceptCreditFate, Zenon
<1>3. Events({produce_inst_event_}, {})
  BY DEF Events, UniqueEvent
<1>4. /\ backend_fetch_credit_in # dispatch_select_events_ /\ backend_fetch_credit_in # dispatch_issue_events_
      /\ dispatch_issue_events_ \notin {produce_inst_event_} /\ dispatch_issue_events_ \notin {}
  BY TurnsDiffer, LinkPortHas, LinkPortsAre, LatePortsAre, OtherPortsAre, Zenon
<1>5. backend_fetch_credit_in \notin KeyPort /\ \A mail \in Nothing : mail[1] \notin KeyPort
  BY NotKey, LinkPortHas, Zenon
<1>6. UNCHANGED <<rob, renaming_stage_queue, inst_queue, dispatch_pending_queue, score_board>>
  BY Zenon DEF AcceptCredit, renamingVars, dispatchVars
<1>7. reservation_station' = reservation_station
  BY Zenon DEF AcceptCredit, rsVars
<1>8. Distant(backend_fetch_credit_in, {produce_inst_event_}, {}, Nothing)
  BY <1>1, <1>3, <1>4, <1>5, <1>6, <1>7, StationsAlone, Zenon DEF Distant
<1> QED BY <1>2, <1>6, <1>8, DistantAlone, Zenon

\* The renaming stage takes credits.
LEMMA AcceptRobCreditWake ==
  ASSUME FateInv, WakeInv, AcceptRobCredit_,
         UNCHANGED <<fetch_credit, rob, dispatchVars, rsVars, fuVars>>
  PROVE  WakeInv'
<1>1. inst' = inst /\ Fire(rob_renaming_credit_in, {rename_event}, {}, Nothing)
  BY Zenon DEF AcceptRobCredit_
<1>2. FateInv'
  BY AcceptRobCreditFate, Zenon
<1>3. Events({rename_event}, {})
  BY DEF Events, UniqueEvent
<1>4. /\ rob_renaming_credit_in # dispatch_select_events_ /\ rob_renaming_credit_in # dispatch_issue_events_
      /\ dispatch_issue_events_ \notin {rename_event} /\ dispatch_issue_events_ \notin {}
  BY TurnsDiffer, LinkPortHas, LinkPortsAre, LatePortsAre, OtherPortsAre, Zenon
<1>5. rob_renaming_credit_in \notin KeyPort /\ \A mail \in Nothing : mail[1] \notin KeyPort
  BY NotKey, LinkPortHas, Zenon
<1>6. UNCHANGED <<rob, renaming_stage_queue, inst_queue, dispatch_pending_queue, score_board>>
  BY Zenon DEF AcceptRobCredit_, renamingVars, dispatchVars
<1>7. reservation_station' = reservation_station
  BY Zenon DEF AcceptRobCredit_, rsVars
<1>8. Distant(rob_renaming_credit_in, {rename_event}, {}, Nothing)
  BY <1>1, <1>3, <1>4, <1>5, <1>6, <1>7, StationsAlone, Zenon DEF Distant
<1> QED BY <1>2, <1>6, <1>8, DistantAlone, Zenon

\* The dispatch stage's as well.
LEMMA AcceptDispatchCreditWake ==
  ASSUME FateInv, WakeInv, AcceptDispatchCredit_,
         UNCHANGED <<fetch_credit, rob, dispatchVars, rsVars, fuVars>>
  PROVE  WakeInv'
<1>1. inst' = inst /\ Fire(following_renaming_credit_in, {rename_event}, {}, Nothing)
  BY Zenon DEF AcceptDispatchCredit_
<1>2. FateInv'
  BY AcceptDispatchCreditFate, Zenon
<1>3. Events({rename_event}, {})
  BY DEF Events, UniqueEvent
<1>4. /\ following_renaming_credit_in # dispatch_select_events_ /\ following_renaming_credit_in # dispatch_issue_events_
      /\ dispatch_issue_events_ \notin {rename_event} /\ dispatch_issue_events_ \notin {}
  BY TurnsDiffer, LinkPortHas, LinkPortsAre, LatePortsAre, OtherPortsAre, Zenon
<1>5. following_renaming_credit_in \notin KeyPort /\ \A mail \in Nothing : mail[1] \notin KeyPort
  BY NotKey, LinkPortHas, Zenon
<1>6. UNCHANGED <<rob, renaming_stage_queue, inst_queue, dispatch_pending_queue, score_board>>
  BY Zenon DEF AcceptDispatchCredit_, renamingVars, dispatchVars
<1>7. reservation_station' = reservation_station
  BY Zenon DEF AcceptDispatchCredit_, rsVars
<1>8. Distant(following_renaming_credit_in, {rename_event}, {}, Nothing)
  BY <1>1, <1>3, <1>4, <1>5, <1>6, <1>7, StationsAlone, Zenon DEF Distant
<1> QED BY <1>2, <1>6, <1>8, DistantAlone, Zenon

\* The renaming stage hears of committed instructions.
LEMMA RobCommitWake ==
  ASSUME FateInv, WakeInv, RobCommit_,
         UNCHANGED <<fetch_credit, rob, dispatchVars, rsVars, fuVars>>
  PROVE  WakeInv'
<1>1. PICK next : next \in {{rename_event}, {}} /\ inst' = inst /\ Fire(Rob_cmt_inst_in, {}, next, Nothing)
                  /\ renaming_stage_queue' = renaming_stage_queue
  BY DEF RobCommit_
<1>2. FateInv'
  BY RobCommitFate, Zenon
<1>3. Events({}, next)
  BY <1>1 DEF Events, UniqueEvent
<1>4. /\ Rob_cmt_inst_in # dispatch_select_events_ /\ Rob_cmt_inst_in # dispatch_issue_events_
      /\ dispatch_issue_events_ \notin {} /\ dispatch_issue_events_ \notin next
  BY <1>1, TurnsDiffer, LinkPortHas, LinkPortsAre, LatePortsAre, OtherPortsAre, Zenon
<1>5. Rob_cmt_inst_in \notin KeyPort /\ \A mail \in Nothing : mail[1] \notin KeyPort
  BY NotKey, LinkPortHas, Zenon
<1>6. UNCHANGED <<rob, renaming_stage_queue, inst_queue, dispatch_pending_queue, score_board>>
  BY <1>1, Zenon DEF RobCommit_, renamingVars, dispatchVars
<1>7. reservation_station' = reservation_station
  BY Zenon DEF RobCommit_, rsVars
<1>8. Distant(Rob_cmt_inst_in, {}, next, Nothing)
  BY <1>1, <1>3, <1>4, <1>5, <1>6, <1>7, StationsAlone, Zenon DEF Distant
<1> QED BY <1>2, <1>6, <1>8, DistantAlone, Zenon

\* The dispatch stage takes credits.
LEMMA DispatchAcceptCreditWake ==
  ASSUME FateInv, WakeInv, DispatchAcceptCredit_,
         UNCHANGED <<fetch_credit, renamingVars, rob, rsVars, fuVars>>
  PROVE  WakeInv'
<1>1. inst' = inst /\ Fire(rs_dispatch_credit_in, {}, {}, Nothing)
  BY Zenon DEF DispatchAcceptCredit_
<1>2. FateInv'
  BY DispatchAcceptCreditFate, Zenon
<1>3. Events({}, {})
  BY DEF Events, UniqueEvent
<1>4. /\ rs_dispatch_credit_in # dispatch_select_events_ /\ rs_dispatch_credit_in # dispatch_issue_events_
      /\ dispatch_issue_events_ \notin {} /\ dispatch_issue_events_ \notin {}
  BY TurnsDiffer, LinkPortHas, LinkPortsAre, LatePortsAre, OtherPortsAre, Zenon
<1>5. rs_dispatch_credit_in \notin KeyPort /\ \A mail \in Nothing : mail[1] \notin KeyPort
  BY NotKey, LinkPortHas, Zenon
<1>6. UNCHANGED <<rob, renaming_stage_queue, inst_queue, dispatch_pending_queue, score_board>>
  BY Zenon DEF DispatchAcceptCredit_, renamingVars, dispatchVars
<1>7. reservation_station' = reservation_station
  BY Zenon DEF DispatchAcceptCredit_, rsVars
<1>8. Distant(rs_dispatch_credit_in, {}, {}, Nothing)
  BY <1>1, <1>3, <1>4, <1>5, <1>6, <1>7, StationsAlone, Zenon DEF Distant
<1> QED BY <1>2, <1>6, <1>8, DistantAlone, Zenon

\* A station takes credits.
LEMMA RsAcceptCreditWake ==
  ASSUME FateInv, WakeInv, NEW p \in Pipe, RsAcceptCredit_(p),
         UNCHANGED <<fetch_credit, renamingVars, rob, dispatchVars, fuVars>>
  PROVE  WakeInv'
<1>1. inst' = inst /\ Fire(following_reservation_credit_in(p), {passing_event(p)}, {}, Nothing)
  BY Zenon DEF RsAcceptCredit_
<1>2. FateInv'
  BY RsAcceptCreditFate, Zenon
<1>3. Events({passing_event(p)}, {})
  BY DEF Events, UniqueEvent
<1>4. /\ following_reservation_credit_in(p) # dispatch_select_events_ /\ following_reservation_credit_in(p) # dispatch_issue_events_
      /\ dispatch_issue_events_ \notin {passing_event(p)} /\ dispatch_issue_events_ \notin {}
  BY TurnsDiffer, LinkPortHas, LinkPortsAre, LatePortsAre, OtherPortsAre, Zenon
<1>5. following_reservation_credit_in(p) \notin KeyPort /\ \A mail \in Nothing : mail[1] \notin KeyPort
  BY NotKey, LinkPortHas, Zenon
<1>6. UNCHANGED <<rob, renaming_stage_queue, inst_queue, dispatch_pending_queue, score_board>>
  BY Zenon DEF RsAcceptCredit_, renamingVars, dispatchVars
<1>7. reservation_station' = reservation_station
  BY Zenon DEF RsAcceptCredit_, rsVars
<1>8. Distant(following_reservation_credit_in(p), {passing_event(p)}, {}, Nothing)
  BY <1>1, <1>3, <1>4, <1>5, <1>6, <1>7, StationsAlone, Zenon DEF Distant
<1> QED BY <1>2, <1>6, <1>8, DistantAlone, Zenon

\* New instructions come to a function unit.
LEMMA AllocateFuWake ==
  ASSUME FateInv, WakeInv, NEW p \in Pipe, Allocate_(p),
         UNCHANGED <<fetch_credit, renamingVars, rob, dispatchVars, rsVars>>
  PROVE  WakeInv'
<1>1. inst' = inst /\ Fire(preceding_func_inst_in(p), {write_back_event(p)}, {}, Nothing)
  BY Zenon DEF Allocate_
<1>2. FateInv'
  BY AllocateFuFate, Zenon
<1>3. Events({write_back_event(p)}, {})
  BY DEF Events, UniqueEvent
<1>4. /\ preceding_func_inst_in(p) # dispatch_select_events_ /\ preceding_func_inst_in(p) # dispatch_issue_events_
      /\ dispatch_issue_events_ \notin {write_back_event(p)} /\ dispatch_issue_events_ \notin {}
  BY TurnsDiffer, LinkPortHas, LinkPortsAre, LatePortsAre, OtherPortsAre, Zenon
<1>5. preceding_func_inst_in(p) \notin KeyPort /\ \A mail \in Nothing : mail[1] \notin KeyPort
  BY NotKey, LinkPortHas, Zenon
<1>6. UNCHANGED <<rob, renaming_stage_queue, inst_queue, dispatch_pending_queue, score_board>>
  BY Zenon DEF Allocate_, renamingVars, dispatchVars
<1>7. reservation_station' = reservation_station
  BY Zenon DEF Allocate_, rsVars
<1>8. Distant(preceding_func_inst_in(p), {write_back_event(p)}, {}, Nothing)
  BY <1>1, <1>3, <1>4, <1>5, <1>6, <1>7, StationsAlone, Zenon DEF Distant
<1> QED BY <1>2, <1>6, <1>8, DistantAlone, Zenon

\* The write back stage takes the instructions of a function unit.
LEMMA AcceptFuncInstWake ==
  ASSUME FateInv, WakeInv, AcceptFuncInst_,
         UNCHANGED <<fetch_credit, renamingVars, rob, dispatchVars, rsVars>>
  PROVE  WakeInv'
<1>1. inst' = inst /\ Fire(preceding_write_back_inst_in, {arbitrate_inst_event}, {}, Nothing)
  BY Zenon DEF AcceptFuncInst_
<1>2. FateInv'
  BY AcceptFuncInstFate, Zenon
<1>3. Events({arbitrate_inst_event}, {})
  BY DEF Events, UniqueEvent
<1>4. /\ preceding_write_back_inst_in # dispatch_select_events_ /\ preceding_write_back_inst_in # dispatch_issue_events_
      /\ dispatch_issue_events_ \notin {arbitrate_inst_event} /\ dispatch_issue_events_ \notin {}
  BY TurnsDiffer, LinkPortHas, LinkPortsAre, LatePortsAre, OtherPortsAre, Zenon
<1>5. preceding_write_back_inst_in \notin KeyPort /\ \A mail \in Nothing : mail[1] \notin KeyPort
  BY NotKey, LinkPortHas, Zenon
<1>6. UNCHANGED <<rob, renaming_stage_queue, inst_queue, dispatch_pending_queue, score_board>>
  BY Zenon DEF AcceptFuncInst_, renamingVars, dispatchVars
<1>7. reservation_station' = reservation_station
  BY Zenon DEF AcceptFuncInst_, rsVars
<1>8. Distant(preceding_write_back_inst_in, {arbitrate_inst_event}, {}, Nothing)
  BY <1>1, <1>3, <1>4, <1>5, <1>6, <1>7, StationsAlone, Zenon DEF Distant
<1> QED BY <1>2, <1>6, <1>8, DistantAlone, Zenon

\* One station's entries wait for no more than some of its did.
LEMMA EasedOne ==
  ASSUME FateInv, NEW p \in Pipe, NEW s, s = reservation_station[p], NEW t,
         reservation_station' = [reservation_station EXCEPT ![p] = t],
         \A k \in DOMAIN t : \E j \in DOMAIN s : Eased(t[k], s[j])
  PROVE  StationsEased
<1>1. /\ reservation_station'[p] = t
      /\ \A q \in Pipe : q # p => reservation_station'[q] = reservation_station[q]
  BY StationBecomes, Zenon DEF FateInv
<1>2. \A e : Eased(e, e)
  BY Zenon DEF Eased
<1>3. ASSUME NEW q \in Pipe, NEW k \in DOMAIN reservation_station'[q]
      PROVE  \E j \in DOMAIN reservation_station[q] :
                Eased(reservation_station'[q][k], reservation_station[q][j])
  <2>1. CASE q = p
    BY <1>1, <1>3, <2>1, Zenon
  <2>2. CASE q # p
    BY <1>1, <1>2, <1>3, <2>2, Zenon
  <2> QED BY <2>1, <2>2
<1> QED BY <1>3, Zenon DEF StationsEased

\* A station's event is none of the dispatch stage's and no port of theirs.
LEMMA StationEvents ==
  ASSUME NEW p \in Pipe, NEW c \in {passing_event(p), pop_event(p), write_back_event(p)},
         NEW next \in {{}, {c}}
  PROVE  /\ Events({}, next) /\ c \in UniqueEvent /\ c \notin KeyPort
         /\ c # dispatch_select_events_ /\ c # dispatch_issue_events_
         /\ dispatch_issue_events_ \notin {} /\ dispatch_issue_events_ \notin next
         /\ \A mail \in Nothing : mail[1] \notin KeyPort
<1>1. c \in UniqueEvent
  BY DEF UniqueEvent
<1>2. Events({}, next)
  BY <1>1 DEF Events
<1>3. c # dispatch_select_events_ /\ c # dispatch_issue_events_
  BY TurnsDiffer, Zenon
<1> QED BY <1>1, <1>2, <1>3, NotKey, Zenon

\* A station drops entries that have been issued.
LEMMA PopInstWake ==
  ASSUME FateInv, WakeInv, NEW p \in Pipe, PopInst_(p),
         UNCHANGED <<fetch_credit, renamingVars, rob, dispatchVars, fuVars>>
  PROVE  WakeInv'
<1>1. FateInv'
  BY PopInstFate, Zenon
<1>2. PICK I : I = DOMAIN inst
  OBVIOUS
<1>3. PICK s \in Seq(StationEntry(I)) : s = reservation_station[p]
  BY <1>2, StationNumbers, Zenon DEF FateInv
<1> DEFINE turns == (Len(s) + 1) \div 2
           S == {k \in 0 .. turns : \A j \in 1 .. k : s[j].is_issued}
<1>4. Len(s) \in Nat /\ turns \in Nat /\ turns <= Len(s)
  <2>1. PICK n \in Nat : n = Len(s)
    BY <1>3
  <2>2. (n + 1) \div 2 \in Nat /\ (n + 1) \div 2 <= n
    OBVIOUS
  <2> QED BY <2>1, <2>2
<1>5. Max(S) \in S /\ Max(S) \in 0 .. turns
  <2>1. S \in SUBSET (0 .. turns) /\ 0 \in S
    BY <1>4
  <2> HIDE DEF S, turns
  <2> QED BY <1>4, <2>1, MaxIs
<1>6. PICK c, next : /\ c = pop_event(p) /\ next \in {{}, {c}} /\ Fire(c, {}, next, Nothing)
                     /\ reservation_station' = [reservation_station EXCEPT
                                                  ![p] = SubSeq(s, Max(S) + 1, Len(s))]
                     /\ inst' = inst
  <2>1. LET c == pop_event(p) IN
          /\ Fire(c, {}, IF reservation_station'[p] = << >> THEN {} ELSE {c}, Nothing)
          /\ reservation_station' = [reservation_station EXCEPT ![p] = SubSeq(s, Max(S) + 1, Len(s))]
          /\ inst' = inst
    BY <1>3, Zenon DEF PopInst_
  <2> HIDE DEF S, turns
  <2> QED BY <2>1
<1> HIDE DEF S, turns
<1>7. PICK k \in Nat : k = Max(S) /\ k <= Len(s)
  BY <1>4, <1>5
<1>8. PICK t : t = SubSeq(s, k + 1, Len(s))
  OBVIOUS
<1>9. \A j \in DOMAIN t : \E m \in DOMAIN s : Eased(t[j], s[m])
  <2>1. \A j \in DOMAIN t : k + j \in DOMAIN s /\ t[j] = s[k + j]
    BY <1>3, <1>7, <1>8
  <2> QED BY <2>1, Zenon DEF Eased
<1>10. StationsEased
  BY <1>3, <1>6, <1>7, <1>8, <1>9, EasedOne, Zenon
<1>11. UNCHANGED <<rob, renaming_stage_queue, inst_queue, dispatch_pending_queue, score_board>>
  BY Zenon DEF renamingVars, dispatchVars
<1>12. Distant(c, {}, next, Nothing)
  BY <1>6, <1>10, <1>11, StationEvents, Zenon DEF Distant
<1> QED BY <1>1, <1>11, <1>12, DistantAlone, Zenon

\* A station passes on instructions: their entries are issued.
LEMMA PassingWake ==
  ASSUME FateInv, WakeInv, NEW p \in Pipe, PassingInst(p),
         UNCHANGED <<fetch_credit, renamingVars, rob, dispatchVars, fuVars>>
  PROVE  WakeInv'
<1>1. FateInv'
  BY PassingFate, Zenon
<1>2. PICK I : I = DOMAIN inst
  OBVIOUS
<1>3. PICK s \in Seq(StationEntry(I)) : s = reservation_station[p]
  BY <1>2, StationNumbers, Zenon DEF FateInv
<1>4. PICK passing, group, credit :
        /\ reservation_station' = [reservation_station EXCEPT ![p] =
              [k \in DOMAIN s |-> [s[k] EXCEPT !.is_issued = @ \/ k \in passing]]]
        /\ Fire(passing_event(p), {}, credit,
                IF group = << >> THEN Nothing
                ELSE Post(preceding_func_inst_in(p), <<group>>)
                     \cup Post(rs_dispatch_credit_in, <<[name |-> p, credit |-> Len(group)]>>))
        /\ credit \in {{}, {passing_event(p)}} /\ inst' = inst
  BY <1>3 DEF PassingInst
<1>5. PICK t : t = [k \in DOMAIN s |-> [s[k] EXCEPT !.is_issued = @ \/ k \in passing]]
  OBVIOUS
<1>6. PICK out : out = IF group = << >> THEN Nothing
                       ELSE Post(preceding_func_inst_in(p), <<group>>)
                            \cup Post(rs_dispatch_credit_in, <<[name |-> p, credit |-> Len(group)]>>)
  OBVIOUS
<1>7. \A k \in DOMAIN t : \E j \in DOMAIN s : Eased(t[k], s[j])
  <2>1. ASSUME NEW e \in StationEntry(I), NEW P, NEW k
        PROVE  Eased([e EXCEPT !.is_issued = @ \/ k \in P], e)
    BY DEF StationEntry, Eased
  <2>2. DOMAIN t = DOMAIN s /\ \A k \in DOMAIN s : s[k] \in StationEntry(I)
    BY <1>3, <1>5
  <2>3. \A k \in DOMAIN s : Eased(t[k], s[k])
    BY <1>5, <2>1, <2>2, Zenon
  <2> QED BY <2>2, <2>3, Zenon
<1>8. StationsEased
  BY <1>3, <1>4, <1>5, <1>7, EasedOne, Zenon
<1>9. \A mail \in out : mail[1] \notin KeyPort
  <2>1. \A mail \in out : mail[1] = preceding_func_inst_in(p) \/ mail[1] = rs_dispatch_credit_in
    BY <1>6 DEF Nothing, Post
  <2> QED BY <2>1, NotKey, Zenon
<1>10. UNCHANGED <<rob, renaming_stage_queue, inst_queue, dispatch_pending_queue, score_board>>
  BY Zenon DEF renamingVars, dispatchVars
<1>11. PICK c : c = passing_event(p)
  OBVIOUS
<1>12. /\ Fire(c, {}, credit, out) /\ Events({}, credit) /\ c \notin KeyPort
       /\ c # dispatch_select_events_ /\ c # dispatch_issue_events_
       /\ dispatch_issue_events_ \notin {} /\ dispatch_issue_events_ \notin credit
  BY <1>4, <1>6, <1>11, StationEvents, Zenon
<1>13. Distant(c, {}, credit, out)
  BY <1>4, <1>8, <1>9, <1>10, <1>12, Zenon DEF Distant
<1> QED BY <1>1, <1>10, <1>13, DistantAlone, Zenon

\* A function unit writes back.
LEMMA WriteBackWake ==
  ASSUME FateInv, WakeInv, NEW p \in Pipe, WriteBack_(p),
         UNCHANGED <<fetch_credit, renamingVars, rob, dispatchVars, rsVars>>
  PROVE  WakeInv'
<1>1. FateInv'
  BY WriteBackFate, Zenon
<1>2. PICK num, group : /\ Fire(write_back_event(p), {}, {},
                             IF num = 0 THEN Nothing
                             ELSE Post(preceding_write_back_inst_in, <<[name |-> p, inst_group |-> group]>>)
                                  \cup Post(following_reservation_credit_in(p), <<num>>))
                        /\ inst' = inst
  BY DEF WriteBack_
<1>3. PICK out : out = IF num = 0 THEN Nothing
                       ELSE Post(preceding_write_back_inst_in, <<[name |-> p, inst_group |-> group]>>)
                            \cup Post(following_reservation_credit_in(p), <<num>>)
  OBVIOUS
<1>4. \A mail \in out : mail[1] \notin KeyPort
  <2>1. \A mail \in out : \/ mail[1] = preceding_write_back_inst_in
                          \/ mail[1] = following_reservation_credit_in(p)
    BY <1>3 DEF Nothing, Post
  <2> QED BY <2>1, NotKey, LinkPortHas, Zenon
<1>5. UNCHANGED <<rob, renaming_stage_queue, inst_queue, dispatch_pending_queue, score_board>>
  BY Zenon DEF renamingVars, dispatchVars
<1>6. StationsEased
  BY StationsAlone, Zenon DEF rsVars
<1>7. PICK c : c = write_back_event(p)
  OBVIOUS
<1>8. /\ Fire(c, {}, {}, out) /\ Events({}, {}) /\ c \notin KeyPort
      /\ c # dispatch_select_events_ /\ c # dispatch_issue_events_ /\ dispatch_issue_events_ \notin {}
  BY <1>2, <1>3, <1>7, StationEvents, Zenon
<1>9. Distant(c, {}, {}, out)
  BY <1>2, <1>4, <1>5, <1>6, <1>8, Zenon DEF Distant
<1> QED BY <1>1, <1>5, <1>9, DistantAlone, Zenon

\* The dispatch stage drops entries that have been issued.
LEMMA PopIssueQueueWake ==
  ASSUME FateInv, WakeInv, PopIssueQueue_,
         UNCHANGED <<fetch_credit, renamingVars, rob, rsVars, fuVars>>
  PROVE  WakeInv'
<1>1. FateInv'
  BY PopIssueQueueFate, Zenon
<1>2. PICK I : I = DOMAIN inst
  OBVIOUS
<1>3. PICK s \in Seq(DispatchEntry(I)) : s = inst_queue
  BY <1>2, Zenon DEF FateInv, CreditInv, DispatchInv
<1> DEFINE c == dispatch_pop_events_
           S == {k \in 0 .. Len(s) : \A j \in 1 .. k : s[j].is_issued}
<1>4. Len(s) \in Nat /\ S \in SUBSET (0 .. Len(s)) /\ 0 \in S
  BY <1>3
<1>5. Max(S) \in S /\ Max(S) \in 0 .. Len(s)
  <2> HIDE DEF S
  <2> QED BY <1>4, MaxIs
<1>6. PICK k \in Nat : k = Max(S) /\ k <= Len(s) /\ \A j \in 1 .. k : s[j].is_issued
  <2>1. \A j \in 1 .. Max(S) : s[j].is_issued
    BY <1>5
  <2> HIDE DEF S
  <2>2. Max(S) \in Nat /\ Max(S) <= Len(s)
    BY <1>4, <1>5
  <2> QED BY <2>1, <2>2, Zenon
<1>7. PICK next :
        /\ next = IF inst_queue' = << >> THEN {}
                  ELSE {dispatch_pop_events_, dispatch_select_events_}
        /\ Fire(c, {}, next, Nothing) /\ inst_queue' = SubSeq(s, k + 1, Len(s))
        /\ inst' = inst /\ dispatch_pending_queue' = dispatch_pending_queue
        /\ score_board' = score_board
  BY <1>3, <1>6, Zenon DEF PopIssueQueue_
<1>8. Events({}, next) /\ c \notin KeyPort
  BY <1>7, NotKey DEF Events, UniqueEvent
<1>9. /\ c # dispatch_select_events_ /\ c # dispatch_issue_events_
      /\ dispatch_issue_events_ \notin {} /\ dispatch_issue_events_ \notin next
  BY <1>7, TurnsDiffer
<1> HIDE DEF S, c
<1>10. UNCHANGED <<rob, renaming_stage_queue>> /\ StationsEased
  BY StationsAlone, Zenon DEF renamingVars, rsVars
<1>11. Distant(c, {}, next, Nothing)
  BY <1>7, <1>8, <1>9, <1>10, NotKey, Zenon DEF Distant
<1>12. PICK t : t = SubSeq(s, k + 1, Len(s))
  OBVIOUS
<1>13. Alike(OpenInsts(s), OpenInsts(t))
  <2>1. \A e \in DispatchEntry(I) : e.inst \in I
    BY EntriesAre
  <2> QED BY <1>6, <1>12, <2>1, OpenLeft, Zenon
<1>14. \A i : Absent(i, held[AtDispatchQueue]) => Absent(i, held'[AtDispatchQueue])
  BY <1>3, <1>7, <1>12, <1>13, HeldIs, HeldIsPrime, Zenon DEF Alike
<1> QED BY <1>1, <1>11, <1>14, DistantStep, Zenon

-----------------------------------------------------------------------------
(* The handlers in front of the dispatch stage, and the reorder buffer's.  *)

\* What advances has not been chosen before, and is not broadcast.
LEMMA AdvancesWake ==
  ASSUME FateInv, WakeInv, FateInv', Advances, NEW c, NEW soon, NEW next, NEW out,
         Calm(c, soon, next, out), UNCHANGED <<reservation_station, score_board>>
  PROVE  WakeInv'
<1>1. /\ AtDispatchWire \in Place /\ AtDispatchQueue \in Place
      /\ AtDispatchWire # AtDispatchQueue /\ AtDispatchWire # AtFinishWire
      /\ AtDispatchQueue # AtFinishWire
  BY PlacesDiffer DEF AtDispatchWire, AtDispatchQueue, AtFinishWire
<1>2. More /\ \A i \in DOMAIN inst : i \in DOMAIN inst'
  BY Zenon DEF Advances, More
<1>3. ASSUME NEW i \in DOMAIN inst, Unsaid(i, held) PROVE Unsaid(i, held')
  <2>1. PICK z \in Place : z # AtFinishWire /\ ~Absent(i, held[z])
    BY <1>3, Zenon DEF Unsaid
  <2>2. CASE z = AtDispatchWire
    <3>1. ~Absent(i, held'[AtDispatchWire])
      BY <1>3, <2>1, <2>2, Zenon DEF Advances
    <3> QED BY <1>1, <3>1, Zenon DEF Unsaid
  <2>3. CASE z # AtDispatchWire
    <3>1. held'[z] = held[z]
      BY <2>1, <2>3, Zenon DEF Advances
    <3> QED BY <2>1, <3>1, Zenon DEF Unsaid
  <2> QED BY <2>2, <2>3
<1>4. Onward(<< >>)
  BY <1>2, <1>3, Zenon DEF Onward, Advances
<1>5. \A i \in DOMAIN inst :
         Absent(i, Unrenamed) => SameFlags(inst, inst', i) /\ Absent(i, Unrenamed')
  BY Zenon DEF Advances
<1>6. held'[AtDispatchQueue] = held[AtDispatchQueue]
  BY <1>1, Zenon DEF Advances
<1>7. ASSUME NEW i \in DOMAIN inst, Unchosen(i, Unrenamed', held')
      PROVE  Unchosen(i, Unrenamed, held)
  <2>1. CASE Absent(i, Unrenamed) /\ Absent(i, held[AtDispatchWire])
    <3>1. Absent(i, Unrenamed') /\ Absent(i, held'[AtDispatchWire])
      BY <1>7, <2>1, Zenon DEF Advances
    <3> QED BY <1>6, <1>7, <3>1, Zenon DEF Unchosen
  <2>2. CASE ~(Absent(i, Unrenamed) /\ Absent(i, held[AtDispatchWire]))
    BY <2>2, Zenon DEF Unchosen
  <2> QED BY <2>1, <2>2
<1>8. OpenInv'
  <2>1. ASSUME NEW i \in DOMAIN inst'
        PROVE  \/ ~inst'[i].IsRs1Forward /\ ~inst'[i].IsRs2Forward
               \/ /\ i \in DOMAIN inst /\ SameFlags(inst, inst', i)
                  /\ Unchosen(i, Unrenamed', held') => Unchosen(i, Unrenamed, held)
    <3>1. CASE i \in DOMAIN inst
      BY <1>7, <3>1, Zenon DEF Advances
    <3>2. CASE i \notin DOMAIN inst
      BY <2>1, <3>2, Zenon DEF Advances, Unflagged
    <3> QED BY <3>1, <3>2
  <2> QED BY <2>1, OpenKept, Zenon DEF WakeInv
<1>9. StationsEased
  BY StationsAlone, Zenon
<1>10. score_board' = score_board
  BY Zenon
<1> QED BY <1>4, <1>5, <1>8, <1>9, <1>10, CalmStep, Zenon

\* The ports and events of these handlers are not those of whoever waits.
LEMMA NotHeard ==
  /\ \A c \in UniqueEvent : c \notin HeardPort
  /\ \A c \in CreditPort : c \notin HeardPort
  /\ Rob_cmt_inst_in \notin HeardPort
  /\ preceding_renaming_inst_in \notin HeardPort /\ preceding_rob_inst_in \notin HeardPort
  /\ preceding_dispatch_inst_in \notin HeardPort /\ write_back_rob_finish_in \notin HeardPort
<1>1. HeardPort \subseteq KeyPort
  BY Zenon DEF KeyPort
<1>2. /\ preceding_renaming_inst_in \notin HeardPort /\ preceding_rob_inst_in \notin HeardPort
      /\ preceding_dispatch_inst_in \notin HeardPort /\ write_back_rob_finish_in \notin HeardPort
  BY DEF HeardPort, WakePort, write_back_dispatch_port_in, write_back_rob_finish_in,
         forwarding_reservation_inst_in, preceding_reservation_inst_in,
         preceding_renaming_inst_in, preceding_rob_inst_in, preceding_dispatch_inst_in
<1> QED BY <1>1, <1>2, NotKey, Zenon

\* Such a handler is calm.
LEMMA NotHeardCalm ==
  ASSUME NEW c, NEW soon, NEW next, NEW out, Fire(c, soon, next, out), Events(soon, next),
         c \in Port \/ c \in {produce_inst_event_, rename_event, commit_event},
         soon \subseteq {rename_event},
         next \subseteq {produce_inst_event_, rename_event, commit_event},
         c \notin HeardPort, \A mail \in out : mail[1] \notin HeardPort,
         UNCHANGED dispatchVars
  PROVE  Calm(c, soon, next, out)
<1>1. c # dispatch_select_events_ /\ c # dispatch_issue_events_
  BY TurnsDiffer, Zenon
<1>2. dispatch_issue_events_ \notin soon /\ dispatch_issue_events_ \notin next
  BY TurnsDiffer, Zenon
<1>3. \A d \in HeardPort : Apart(c, out, d)
  BY Zenon DEF Apart
<1>4. dispatch_pending_queue' = dispatch_pending_queue
  BY Zenon DEF dispatchVars
<1> QED BY <1>1, <1>2, <1>3, <1>4, Zenon DEF Calm

\* The renaming stage puts the fetched instructions in its queue.
LEMMA RenamingAllocateWake ==
  ASSUME FateInv, WakeInv, RenamingAllocateInst_,
         UNCHANGED <<fetch_credit, rob, dispatchVars, rsVars, fuVars>>
  PROVE  WakeInv'
<1>1. PICK c : c = preceding_renaming_inst_in /\ c \in Port /\ c \notin HeardPort
  BY LinkPortHas, LinkPortsAre, NotHeard, Zenon
<1>2. Fire(c, {rename_event}, {}, Nothing)
  BY <1>1, Zenon DEF RenamingAllocateInst_
<1>3. Events({rename_event}, {})
  BY DEF Events, UniqueEvent
<1>4. \A mail \in Nothing : mail[1] \notin HeardPort
  BY NotKey, Zenon
<1>5. Calm(c, {rename_event}, {}, Nothing)
  BY <1>1, <1>2, <1>3, <1>4, NotHeardCalm, Zenon
<1>6. UNCHANGED <<reservation_station, score_board>>
  BY Zenon DEF rsVars, dispatchVars
<1>7. FateInv' /\ Advances
  BY RenamingAllocateFate, Zenon
<1> QED BY <1>5, <1>6, <1>7, AdvancesWake, Zenon

\* The renaming stage renames instructions.
LEMMA RenameWake ==
  ASSUME FateInv, WakeInv, RenameInst_,
         UNCHANGED <<fetch_credit, rob, dispatchVars, rsVars, fuVars>>
  PROVE  WakeInv'
<1>1. PICK next, out :
        /\ Fire(rename_event, {}, next, out) /\ next \subseteq {rename_event}
        /\ \A mail \in out : mail[1] \in {backend_fetch_credit_in, preceding_rob_inst_in,
                                           preceding_dispatch_inst_in}
  <2>1. CASE renaming_stage_queue # << >> /\ IsEmpty(free_list)
    <3>1. Fire(rename_event, {}, {rename_event}, Nothing)
      BY <2>1, Zenon DEF RenameInst_
    <3> QED BY <3>1, NotKey, Zenon
  <2>2. CASE ~(renaming_stage_queue # << >> /\ IsEmpty(free_list))
    <3>1. PICK n, g :
             Fire(rename_event, {}, {},
                  IF n = 0 THEN Nothing
                  ELSE Post(backend_fetch_credit_in, <<n>>)
                       \cup Post(preceding_rob_inst_in, <<g>>)
                       \cup Post(preceding_dispatch_inst_in, <<g>>))
      BY <2>2, Zenon DEF RenameInst_
    <3>2. PICK out : out = IF n = 0 THEN Nothing
                  ELSE Post(backend_fetch_credit_in, <<n>>)
                       \cup Post(preceding_rob_inst_in, <<g>>)
                       \cup Post(preceding_dispatch_inst_in, <<g>>)
      OBVIOUS
    <3>3. \A mail \in out : mail[1] \in {backend_fetch_credit_in, preceding_rob_inst_in,
                                           preceding_dispatch_inst_in}
      BY <3>2 DEF Nothing, Post
    <3>4. PICK next : next = {}
      OBVIOUS
    <3>5. Fire(rename_event, {}, next, out) /\ next \subseteq {rename_event}
      BY <3>1, <3>2, <3>4, Zenon
    <3> QED BY <3>3, <3>5, Zenon
  <2> QED BY <2>1, <2>2
<1>2. \A mail \in out : mail[1] \notin HeardPort
  BY <1>1, NotHeard, LinkPortHas, Zenon
<1>3. Events({}, next) /\ rename_event \notin HeardPort
  BY <1>1, NotHeard DEF Events, UniqueEvent
<1>4. Calm(rename_event, {}, next, out)
  BY <1>1, <1>2, <1>3, NotHeardCalm
<1>5. UNCHANGED <<reservation_station, score_board>>
  BY Zenon DEF rsVars, dispatchVars
<1>6. FateInv' /\ Advances
  BY RenameFate, Zenon
<1> QED BY <1>4, <1>5, <1>6, AdvancesWake, Zenon

\* The fetch stage produces instructions.
LEMMA ProduceWake ==
  ASSUME FateInv, WakeInv, WellPredicted, ProduceInst,
         UNCHANGED <<renamingVars, rob, dispatchVars, rsVars, fuVars>>
  PROVE  WakeInv'
<1>1. PICK next, out :
        /\ Fire(produce_inst_event_, {}, next, out) /\ next \subseteq {produce_inst_event_}
        /\ \A mail \in out : mail[1] = preceding_renaming_inst_in
  <2>1. CASE Min({FetchWidth, fetch_credit}) = 0
    <3>1. Fire(produce_inst_event_, {}, {}, Nothing)
      BY <2>1, Zenon DEF ProduceInst
    <3> QED BY <3>1, NotKey, Zenon
  <2>2. CASE Min({FetchWidth, fetch_credit}) # 0
    <3>1. PICK g, next :
             /\ next \in {{produce_inst_event_}, {}}
             /\ Fire(produce_inst_event_, {}, next, Post(preceding_renaming_inst_in, <<g>>))
      BY <2>2 DEF ProduceInst
    <3>2. PICK out : out = Post(preceding_renaming_inst_in, <<g>>)
      OBVIOUS
    <3>3. \A mail \in out : mail[1] = preceding_renaming_inst_in
      BY <3>2 DEF Post
    <3>4. Fire(produce_inst_event_, {}, next, out) /\ next \subseteq {produce_inst_event_}
      BY <3>1, <3>2, Zenon
    <3> QED BY <3>3, <3>4, Zenon
  <2> QED BY <2>1, <2>2
<1>2. \A mail \in out : mail[1] \notin HeardPort
  BY <1>1, NotHeard, Zenon
<1>3. Events({}, next) /\ produce_inst_event_ \notin HeardPort
  BY <1>1, NotHeard DEF Events, UniqueEvent
<1>4. Calm(produce_inst_event_, {}, next, out)
  BY <1>1, <1>2, <1>3, NotHeardCalm
<1>5. UNCHANGED <<reservation_station, score_board>>
  BY Zenon DEF rsVars, dispatchVars
<1>6. FateInv' /\ Advances
  BY ProduceFate, Zenon
<1> QED BY <1>4, <1>5, <1>6, AdvancesWake, Zenon

\* Renamed instructions get their entries.
LEMMA AllocateRobWake ==
  ASSUME FateInv, WakeInv, AllocateRob_,
         UNCHANGED <<fetch_credit, renamingVars, dispatchVars, rsVars, fuVars>>
  PROVE  WakeInv'
<1>1. PICK c : c = preceding_rob_inst_in /\ c \in Port /\ c \notin HeardPort
  BY LinkPortHas, LinkPortsAre, NotHeard, Zenon
<1>2. Fire(c, {}, {commit_event}, Nothing)
  BY <1>1, Zenon DEF AllocateRob_
<1>3. Events({}, {commit_event})
  BY DEF Events, UniqueEvent
<1>4. \A mail \in Nothing : mail[1] \notin HeardPort
  BY NotKey, Zenon
<1>5. Calm(c, {}, {commit_event}, Nothing)
  BY <1>1, <1>2, <1>3, <1>4, NotHeardCalm, Zenon
<1>6. UNCHANGED <<reservation_station, score_board>>
  BY Zenon DEF rsVars, dispatchVars
<1>7. FateInv' /\ Advances
  BY AllocateRobFate, Zenon
<1> QED BY <1>5, <1>6, <1>7, AdvancesWake, Zenon

\* Finished instructions' entries are marked.
LEMMA FinishWake ==
  ASSUME FateInv, WakeInv, Finish_,
         UNCHANGED <<fetch_credit, renamingVars, dispatchVars, rsVars, fuVars>>
  PROVE  WakeInv'
<1>1. PICK c : c = write_back_rob_finish_in /\ c \in Port /\ c \notin HeardPort
  BY LatePortsAre, NotHeard, Zenon
<1>2. Fire(c, {}, {}, Nothing)
  BY <1>1, Zenon DEF Finish_
<1>3. Events({}, {})
  BY DEF Events
<1>4. \A mail \in Nothing : mail[1] \notin HeardPort
  BY NotKey, Zenon
<1>5. Calm(c, {}, {}, Nothing)
  BY <1>1, <1>2, <1>3, <1>4, NotHeardCalm, Zenon
<1>6. UNCHANGED <<reservation_station, score_board>>
  BY Zenon DEF rsVars, dispatchVars
<1>7. FateInv' /\ Advances
  BY FinishFate, Zenon
<1> QED BY <1>5, <1>6, <1>7, AdvancesWake, Zenon

\* Instructions are committed.
LEMMA CommitWake ==
  ASSUME FateInv, WakeInv, Commit_,
         UNCHANGED <<fetch_credit, renamingVars, dispatchVars, rsVars, fuVars>>
  PROVE  WakeInv'
<1>1. PICK next, out :
        /\ Fire(commit_event, {}, next, out) /\ next \subseteq {commit_event}
        /\ \A mail \in out : mail[1] \in {Rob_cmt_inst_in, rob_renaming_credit_in,
                                           rob_flush_manager_in}
  <2>1. PICK m, g, f, next :
           /\ next \in {{}, {commit_event}}
           /\ Fire(commit_event, {}, next,
                   (IF m = 0 THEN Nothing
                    ELSE Post(Rob_cmt_inst_in, <<g>>) \cup Post(rob_renaming_credit_in, <<m>>))
                   \cup (IF f THEN Post(rob_flush_manager_in, <<1>>) ELSE Nothing))
    BY DEF Commit_
  <2>2. PICK out :
           out = (IF m = 0 THEN Nothing
                  ELSE Post(Rob_cmt_inst_in, <<g>>) \cup Post(rob_renaming_credit_in, <<m>>))
                 \cup (IF f THEN Post(rob_flush_manager_in, <<1>>) ELSE Nothing)
    OBVIOUS
  <2>3. \A mail \in out : mail[1] \in {Rob_cmt_inst_in, rob_renaming_credit_in,
                                        rob_flush_manager_in}
    BY <2>2 DEF Nothing, Post
  <2>4. Fire(commit_event, {}, next, out) /\ next \subseteq {commit_event}
    BY <2>1, <2>2, Zenon
  <2> QED BY <2>3, <2>4, Zenon
<1>2. rob_flush_manager_in \notin HeardPort
  BY DEF HeardPort, WakePort, write_back_dispatch_port_in, rob_flush_manager_in,
         forwarding_reservation_inst_in, preceding_reservation_inst_in
<1>3. \A mail \in out : mail[1] \notin HeardPort
  BY <1>1, <1>2, NotHeard, LinkPortHas, Zenon
<1>4. Events({}, next) /\ commit_event \notin HeardPort
  BY <1>1, NotHeard DEF Events, UniqueEvent
<1>5. Calm(commit_event, {}, next, out)
  BY <1>1, <1>3, <1>4, NotHeardCalm
<1>6. UNCHANGED <<reservation_station, score_board>>
  BY Zenon DEF rsVars, dispatchVars
<1>7. FateInv' /\ Advances
  BY CommitFate, Zenon
<1> QED BY <1>5, <1>6, <1>7, AdvancesWake, Zenon

-----------------------------------------------------------------------------
(* The handlers that somebody waits for, or that make somebody wait.       *)

\* New instructions come to the dispatch queue: their registers become busy.
LEMMA DispatchAllocateWake ==
  ASSUME FateInv, WakeInv, DispatchAllocateInst_,
         UNCHANGED <<fetch_credit, renamingVars, rob, rsVars, fuVars>>
  PROVE  WakeInv'
<1>1. PICK c, g, soon : /\ c = preceding_dispatch_inst_in /\ g = Message(c)
                        /\ soon = {dispatch_select_events_, dispatch_pop_events_}
  OBVIOUS
<1>2. /\ Fire(c, soon, {}, Nothing) /\ inst' = inst
      /\ score_board' = score_board \cup ({inst[i].PhyRd : i \in Range(g)} \ {0})
      /\ dispatch_pending_queue' = dispatch_pending_queue
  BY <1>1, Zenon DEF DispatchAllocateInst_
<1>3. /\ FateInv' /\ g \in Seq(DOMAIN inst)
      /\ Parts(held[AtDispatchWire], g, held'[AtDispatchWire])
      /\ Parts(held'[AtDispatchQueue], held[AtDispatchQueue], g)
  BY <1>1, DispatchAllocateFate, Zenon
<1>4. /\ Events(soon, {}) /\ dispatch_issue_events_ \notin soon /\ dispatch_issue_events_ \notin {}
      /\ c # dispatch_select_events_ /\ c # dispatch_issue_events_
  BY <1>1, TurnsDiffer, LinkPortHas, LinkPortsAre DEF Events, UniqueEvent
<1>5. \A d \in HeardPort : Apart(c, Nothing, d)
  BY <1>1, NotHeard, NotKey, Zenon DEF Apart
<1>6. Calm(c, soon, {}, Nothing)
  BY <1>2, <1>4, <1>5, Zenon DEF Calm
<1>7. /\ Quiet(preceding_renaming_inst_in) /\ Quiet(preceding_rob_inst_in)
      /\ Quiet(write_back_rob_finish_in)
  <2>1. /\ preceding_renaming_inst_in # c /\ preceding_rob_inst_in # c
        /\ write_back_rob_finish_in # c
    BY <1>1 DEF preceding_renaming_inst_in, preceding_rob_inst_in, write_back_rob_finish_in,
                preceding_dispatch_inst_in
  <2>2. /\ Apart(c, Nothing, preceding_renaming_inst_in) /\ Apart(c, Nothing, preceding_rob_inst_in)
        /\ Apart(c, Nothing, write_back_rob_finish_in)
    BY <2>1, NotKey, Zenon DEF Apart
  <2> QED BY <1>2, <1>4, <2>2, QuietWire, WorkPortHas, Zenon
<1>8. UNCHANGED <<rob, renaming_stage_queue, reservation_station>>
  BY Zenon DEF renamingVars, rsVars
<1>9. Onward(<< >>) /\ StationsEased
  BY <1>2, <1>3, <1>7, <1>8, OnwardSame, StationsAlone, Zenon
<1>10. Unrenamed' = Unrenamed
  BY <1>7, <1>8, QuietPortSame, Zenon DEF Unrenamed
<1>11. /\ OpenInv'
       /\ \A i \in DOMAIN inst :
            Absent(i, Unrenamed) => SameFlags(inst, inst', i) /\ Absent(i, Unrenamed')
  <2>1. \A i : Unchosen(i, Unrenamed', held') => Unchosen(i, Unrenamed, held)
    BY <1>3, <1>10, Zenon DEF Unchosen, Parts
  <2> QED BY <1>2, <1>10, <2>1, ProgramSame, Zenon
<1>12. StationsInv' /\ Mostly(rename_event) /\ rename_event \notin WakePort
  BY <1>3, <1>6, <1>9, <1>11, CalmMostly, Zenon
<1>13. BoardInv'
  <2>1. PICK f : f = Instructions(write_back_dispatch_port_in)'
    OBVIOUS
  <2>2. ComesOn(inst, held, Instructions(write_back_dispatch_port_in), inst', held', f)
    BY <1>12, <2>1, MostlyComes, WakePortsAre, Zenon
  <2>3. ASSUME NEW r \in score_board PROVE Comes(inst', held', r, f)
    BY <2>2, <2>3, Zenon DEF WakeInv, BoardInv, ComesOn
  <2>4. ASSUME NEW i \in Range(g) PROVE Comes(inst', held', inst[i].PhyRd, f)
    <3>1. i \in DOMAIN inst /\ ~Absent(i, g)
      BY <1>3, <2>4, RangeHas, OutsideAbsent, Zenon
    <3>2. ~Absent(i, held'[AtDispatchQueue])
      BY <1>3, <3>1, Zenon DEF Parts
    <3>3. AtDispatchQueue \in Place /\ AtDispatchQueue # AtFinishWire
      BY PlacesDiffer DEF AtDispatchQueue, AtFinishWire
    <3>4. Unsaid(i, held')
      BY <3>2, <3>3, Zenon DEF Unsaid
    <3> QED BY <1>2, <3>1, <3>4, Zenon DEF Comes
  <2>5. ASSUME NEW r \in score_board' PROVE Comes(inst', held', r, f)
    BY <1>2, <2>3, <2>4, <2>5, Zenon
  <2> QED BY <2>1, <2>5, Zenon DEF BoardInv
<1> QED BY <1>12, <1>13, MostlyWake, Zenon

\* A handler of one of the wires to whoever waits.
Near(c, soon, next) ==
    /\ Pending(c) /\ Fire(c, soon, next, Nothing) /\ Events(soon, next)
    /\ dispatch_issue_events_ \notin soon /\ dispatch_issue_events_ \notin next
    /\ c \in HeardPort
    /\ UNCHANGED <<inst, rob, renaming_stage_queue, inst_queue, dispatch_pending_queue>>

\* It leaves the others alone.
LEMMA NearKeeps ==
  ASSUME FateInv, WakeInv, FateInv', NEW c, NEW soon, NEW next, Near(c, soon, next)
  PROVE  /\ OpenInv' /\ TurnInv' /\ Onward(<< >>)
         /\ \A i \in DOMAIN inst :
              Absent(i, Unrenamed) => SameFlags(inst, inst', i) /\ Absent(i, Unrenamed')
         /\ \A d \in HeardPort : d # c => Quiet(d)
<1>1. /\ Fire(c, soon, next, Nothing) /\ Events(soon, next) /\ c \in HeardPort
      /\ dispatch_issue_events_ \notin soon /\ dispatch_issue_events_ \notin next
      /\ UNCHANGED <<inst, rob, renaming_stage_queue, inst_queue, dispatch_pending_queue>>
  BY Zenon DEF Near
<1>2. ASSUME NEW d \in KeyPort, d # c PROVE Quiet(d)
  <2>1. d \in WorkPort \cup WakePort
    BY WorkPortHas, Zenon DEF KeyPort, HeardPort
  <2>2. Apart(c, Nothing, d)
    BY <1>2, NotKey, Zenon DEF Apart
  <2> QED BY <1>1, <2>1, <2>2, QuietWire, Zenon
<1>3. /\ Quiet(preceding_renaming_inst_in) /\ Quiet(preceding_rob_inst_in)
      /\ Quiet(preceding_dispatch_inst_in) /\ Quiet(write_back_rob_finish_in)
  BY <1>1, <1>2, NotHeard, Zenon DEF KeyPort
<1>4. Onward(<< >>)
  BY <1>1, <1>3, OnwardSame, Zenon
<1>5. /\ Unrenamed' = Unrenamed /\ held'[AtDispatchWire] = held[AtDispatchWire]
      /\ held'[AtDispatchQueue] = held[AtDispatchQueue]
  BY <1>1, <1>3, QuietPortSame, HeldIs, HeldIsPrime, Zenon DEF Unrenamed
<1>6. /\ OpenInv'
      /\ \A i \in DOMAIN inst :
           Absent(i, Unrenamed) => SameFlags(inst, inst', i) /\ Absent(i, Unrenamed')
  BY <1>1, <1>5, ProgramAlone, Zenon
<1>7. c \in Port /\ TurnInv
  BY <1>1, WakePortsAre, LinkPortHas, LinkPortsAre, Zenon DEF HeardPort, WakeInv
<1>8. TurnInv'
  BY <1>1, <1>7, TurnsDiffer, TurnsKept, Zenon
<1> QED BY <1>2, <1>4, <1>6, <1>8, Zenon DEF KeyPort

\* And hears what is due.
LEMMA NearHears ==
  ASSUME FateInv, WakeInv, FateInv', NEW c \in WakePort, NEW soon, NEW next, Near(c, soon, next)
  PROVE  Mostly(c) \/ \E p \in Pipe : /\ c = forwarding_reservation_inst_in(p)
                                      /\ now[preceding_reservation_inst_in(p)] # << >>
<1>1. /\ Pending(c) /\ Fire(c, soon, next, Nothing) /\ Events(soon, next)
      /\ dispatch_pending_queue' = dispatch_pending_queue
  BY Zenon DEF Near
<1>2. PICK a, b, Q : /\ a = now[c] /\ b = later[c] /\ Q = Seq(DOMAIN inst)
                     /\ a \in Seq(Q) /\ b \in Seq(Q) /\ a # << >>
  BY <1>1, WakeWireHas, Zenon DEF WakeInv, Pending
<1>3. Sent(Nothing, c) = << >> /\ b \o << >> = b
  BY <1>2, SentIs, EmptyConcat, Zenon
<1>4. /\ c \in Source /\ c \in OneDelayPort /\ c \notin ZeroDelayPort
      /\ c \notin soon /\ c \notin next
  BY <1>1, WakePortsAre, Zenon DEF Source, Events
<1>5. now'[c] = Tail(a) /\ later'[c] = b
  BY <1>1, <1>2, <1>3, <1>4, Zenon DEF Fire
<1>6. /\ OpenInv' /\ TurnInv' /\ Onward(<< >>)
      /\ \A i \in DOMAIN inst :
           Absent(i, Unrenamed) => SameFlags(inst, inst', i) /\ Absent(i, Unrenamed')
      /\ \A d \in HeardPort : d # c => Quiet(d)
  BY NearKeeps, Zenon
<1>7. TakenAt(c)
  BY <1>2, <1>5, <1>6, Zenon DEF TakenAt, Quiet, HeardPort
<1>8. \A p \in Pipe : Quiet(preceding_reservation_inst_in(p))
  BY <1>6, WakePortsAre, LinkPortHas, Zenon DEF HeardPort
<1>9. Joined(<< >>) = << >> /\ \A i : Absent(i, << >>)
  BY JoinedEmpty, EmptyAbsent, Zenon
<1>10. CASE \A p \in Pipe : c = forwarding_reservation_inst_in(p) =>
                now[preceding_reservation_inst_in(p)] = << >>
  BY <1>1, <1>6, <1>7, <1>8, <1>9, <1>10, Zenon DEF Mostly, Quiet
<1> QED BY <1>10

\* One broadcast is heard: every other register still comes.
LEMMA HeardElse ==
  ASSUME FateInv, WakeInv, Onward(<< >>), inst' = inst, NEW d \in WakePort, TakenAt(d),
         NEW group, group = Message(d), NEW r, r \notin {inst[i].PhyRd : i \in Range(group)},
         Comes(inst, held, r, Instructions(d))
  PROVE  Comes(inst', held', r, Instructions(d)')
<1>1. now[d] # << >> /\ now'[d] = Tail(now[d]) /\ later'[d] = later[d]
  BY Zenon DEF TakenAt
<1>2. \A i : Absent(i, Instructions(d)) <=> Absent(i, group) /\ Absent(i, Instructions(d)')
  BY <1>1, TakenBroadcast, Zenon DEF WakeInv, Message
<1>3. PICK i \in DOMAIN inst : inst[i].PhyRd = r /\ (Unsaid(i, held) \/ ~Absent(i, Instructions(d)))
  BY Zenon DEF Comes
<1>4. Absent(i, group)
  BY <1>3, RangeHas, Zenon
<1>5. Unsaid(i, held) => Unsaid(i, held')
  BY <1>3, EmptyAbsent, Zenon DEF Onward
<1> QED BY <1>2, <1>3, <1>4, <1>5, Zenon DEF Comes

\* The dispatch stage hears a broadcast.
LEMMA FuncUnitBackWake ==
  ASSUME FateInv, WakeInv, FuncUnitBack_,
         UNCHANGED <<fetch_credit, renamingVars, rob, rsVars, fuVars>>
  PROVE  WakeInv'
<1>1. PICK c, next : c = write_back_dispatch_port_in /\ next = {}
  OBVIOUS
<1>2. /\ Ready(c) /\ Fire(c, next, next, Nothing)
      /\ UNCHANGED <<inst, inst_queue, dispatch_pending_queue>>
      /\ score_board' = score_board \ {inst[i].PhyRd : i \in Range(Message(c))}
  BY <1>1, Zenon DEF FuncUnitBack_
<1>3. c \in WakePort /\ c \in HeardPort
  BY <1>1, WakePortsAre, Zenon DEF HeardPort
<1>4. UNCHANGED <<rob, renaming_stage_queue, reservation_station>>
  BY Zenon DEF renamingVars, rsVars
<1>5. Events(next, next) /\ dispatch_issue_events_ \notin next
  BY <1>1 DEF Events
<1>6. Near(c, next, next)
  BY <1>2, <1>3, <1>4, <1>5, Zenon DEF Near, Ready
<1>7. FateInv'
  BY FuncUnitBackFate, Zenon
<1>8. \A p \in Pipe : forwarding_reservation_inst_in(p) # c
  BY <1>1 DEF forwarding_reservation_inst_in, write_back_dispatch_port_in
<1>9. Mostly(c)
  BY <1>3, <1>6, <1>7, <1>8, NearHears, Zenon
<1>10. Onward(<< >>) /\ TakenAt(c)
  BY <1>9, Zenon DEF Mostly
<1>11. BoardInv'
  <2>1. ASSUME NEW r \in score_board' PROVE Comes(inst', held', r, Instructions(c)')
    <3>1. r \in score_board /\ r \notin {inst[i].PhyRd : i \in Range(Message(c))}
      BY <1>2, <2>1, Zenon
    <3>2. Comes(inst, held, r, Instructions(c))
      BY <1>1, <3>1, Zenon DEF WakeInv, BoardInv
    <3> QED BY <1>2, <1>3, <1>10, <3>1, <3>2, HeardElse, Zenon
  <2> QED BY <1>1, <2>1, Zenon DEF BoardInv
<1>12. StationsInv'
  BY <1>4, <1>8, <1>9, EasedKept, StationsAlone, Zenon
<1> QED BY <1>9, <1>11, <1>12, MostlyWake, Zenon

\* A station's instructions have come when it hears a broadcast.
LEMMA StationHasTaken ==
  ASSUME NEW p \in Pipe, Ready(forwarding_reservation_inst_in(p))
  PROVE  now[preceding_reservation_inst_in(p)] = << >>
<1>1. PICK c, d : c = forwarding_reservation_inst_in(p) /\ d = preceding_reservation_inst_in(p)
  OBVIOUS
<1>2. c \in Source /\ d \in Source
  BY <1>1 DEF Source, OneDelayPort
<1>3. <<d, c>> \in DeclaredOrder
  BY <1>1 DEF DeclaredOrder
<1>4. <<d, c>> \in Before
  BY <1>3, LinksAreBefore, Zenon DEF FirstLinks
<1>5. d \in Earlier[c]
  BY <1>2, <1>4, Zenon DEF Earlier
<1>6. ~Pending(d)
  BY <1>1, <1>5, Zenon DEF Ready
<1> QED BY <1>1, <1>6, Zenon DEF Pending

\* An operand that is not in the broadcast still comes.
LEMMA ResolvedEntry ==
  ASSUME FateInv, WakeInv, Onward(<< >>), inst' = inst, NEW p \in Pipe, NEW c \in WakePort,
         c = forwarding_reservation_inst_in(p), TakenAt(c),
         NEW regs, regs = {inst[i].PhyRd : i \in Range(Message(c))},
         NEW e \in StationEntry(DOMAIN inst), EntrySupplied(inst, held, e, Instructions(c))
  PROVE  EntrySupplied(inst', held', Resolve(e, regs), Instructions(c)')
<1>1. PICK d : d = Resolve(e, regs)
  OBVIOUS
<1>2. /\ d.inst = e.inst /\ d.is_issued = e.is_issued
      /\ d.rs1_valid = (e.rs1_valid \/ inst[e.inst].PhyRs1 \in regs)
      /\ d.rs2_valid = (e.rs2_valid \/ inst[e.inst].PhyRs2 \in regs)
  BY <1>1 DEF Resolve, StationEntry
<1>3. \A r : r \notin regs /\ Comes(inst, held, r, Instructions(c)) => Comes(inst', held', r, Instructions(c)')
  BY HeardElse, Zenon
<1>4. CASE e.is_issued
  <2>1. d.is_issued
    BY <1>2, <1>4
  <2> QED BY <1>1, <2>1, Zenon DEF EntrySupplied
<1>5. CASE ~e.is_issued
  <2>1. /\ e.rs1_valid \/ Comes(inst, held, inst[e.inst].PhyRs1, Instructions(c))
        /\ e.rs2_valid \/ Comes(inst, held, inst[e.inst].PhyRs2, Instructions(c))
    BY <1>5, Zenon DEF EntrySupplied
  <2>2. /\ d.rs1_valid \/ Comes(inst', held', inst[e.inst].PhyRs1, Instructions(c)')
        /\ d.rs2_valid \/ Comes(inst', held', inst[e.inst].PhyRs2, Instructions(c)')
    BY <1>2, <1>3, <2>1, Zenon
  <2> QED BY <1>1, <1>2, <2>2, Zenon DEF EntrySupplied
<1> QED BY <1>4, <1>5

\* A station hears a broadcast.
LEMMA GetForwardingWake ==
  ASSUME FateInv, WakeInv, NEW p \in Pipe, GetForwardingData(p),
         UNCHANGED <<fetch_credit, renamingVars, rob, dispatchVars, fuVars>>
  PROVE  WakeInv'
<1>1. PICK c, next : c = forwarding_reservation_inst_in(p) /\ next = {}
  OBVIOUS
<1>2. PICK regs, s :
        /\ regs = {inst[i].PhyRd : i \in Range(Message(c))} /\ s = reservation_station[p]
        /\ Ready(c) /\ Fire(c, next, next, Nothing) /\ inst' = inst
        /\ reservation_station' = [reservation_station EXCEPT ![p] =
              [k \in DOMAIN s |-> Resolve(s[k], regs)]]
  BY <1>1, Zenon DEF GetForwardingData
<1>3. c \in WakePort /\ c \in HeardPort
  BY <1>1, WakePortsAre, Zenon DEF HeardPort
<1>4. UNCHANGED <<rob, renaming_stage_queue, inst_queue, dispatch_pending_queue, score_board>>
  BY Zenon DEF renamingVars, dispatchVars
<1>5. Events(next, next) /\ dispatch_issue_events_ \notin next
  BY <1>1 DEF Events
<1>6. Near(c, next, next)
  BY <1>2, <1>3, <1>4, <1>5, Zenon DEF Near, Ready
<1>7. FateInv'
  BY GetForwardingFate, Zenon
<1>8. /\ \A q \in Pipe : forwarding_reservation_inst_in(q) = c => q = p
      /\ write_back_dispatch_port_in # c
  BY <1>1 DEF forwarding_reservation_inst_in, write_back_dispatch_port_in
<1>9. now[preceding_reservation_inst_in(p)] = << >>
  BY <1>1, <1>2, StationHasTaken, Zenon
<1>10. Mostly(c)
  BY <1>3, <1>6, <1>7, <1>8, <1>9, NearHears, Zenon
<1>11. Onward(<< >>) /\ TakenAt(c)
  BY <1>10, Zenon DEF Mostly
<1>12. BoardInv'
  BY <1>4, <1>8, <1>10, BoardStays, Zenon
<1>13. CreditInv /\ s \in Seq(StationEntry(DOMAIN inst))
  BY <1>2, StationNumbers, Zenon DEF FateInv
<1>14. /\ reservation_station'[p] = [k \in DOMAIN s |-> Resolve(s[k], regs)]
       /\ \A q \in Pipe : q # p => reservation_station'[q] = reservation_station[q]
  BY <1>2, <1>13, StationBecomes, Zenon
<1>15. ASSUME NEW k \in DOMAIN s
       PROVE  EntrySupplied(inst', held', Resolve(s[k], regs), Instructions(c)')
  <2>1. s[k] \in StationEntry(DOMAIN inst)
    BY <1>13, <1>15
  <2>2. EntrySupplied(inst, held, s[k], Instructions(c))
    BY <1>1, <1>2, <1>15, Zenon DEF WakeInv, StationsInv
  <2> QED BY <1>1, <1>2, <1>3, <1>11, <2>1, <2>2, ResolvedEntry, Zenon
<1>16. ASSUME NEW q \in Pipe, q # p, NEW k \in DOMAIN reservation_station'[q]
       PROVE  EntrySupplied(inst', held', reservation_station'[q][k],
                            Instructions(forwarding_reservation_inst_in(q))')
  <2>1. PICK b : b = forwarding_reservation_inst_in(q)
    OBVIOUS
  <2>2. reservation_station'[q] = reservation_station[q]
    BY <1>14, <1>16, Zenon
  <2>3. ComesOn(inst, held, Instructions(b), inst', held', Instructions(b)')
    <3>1. b \in WakePort /\ b # c
      BY <1>8, <1>16, <2>1, WakePortsAre, Zenon
    <3> QED BY <1>10, <3>1, MostlyComes, Zenon
  <2>4. Eased(reservation_station[q][k], reservation_station[q][k])
    BY Zenon DEF Eased
  <2>5. k \in DOMAIN reservation_station[q] /\ StationsInv
    BY <1>16, <2>2, Zenon DEF WakeInv
  <2>6. EntrySupplied(inst', held', reservation_station[q][k], Instructions(b)')
    BY <1>11, <1>16, <2>1, <2>3, <2>4, <2>5, StationsKept, Zenon
  <2> QED BY <2>1, <2>2, <2>6, Zenon
<1>17. StationsInv'
  <2>1. ASSUME NEW q \in Pipe, NEW k \in DOMAIN reservation_station'[q]
        PROVE  EntrySupplied(inst', held', reservation_station'[q][k],
                             Instructions(forwarding_reservation_inst_in(q))')
    <3>1. CASE q # p
      BY <1>16, <2>1, <3>1, Zenon
    <3>2. CASE q = p
      <4>1. k \in DOMAIN s /\ reservation_station'[p][k] = Resolve(s[k], regs)
        BY <1>14, <2>1, <3>2
      <4> QED BY <1>1, <1>15, <3>2, <4>1, Zenon
    <3> QED BY <3>1, <3>2
  <2> QED BY <2>1, Zenon DEF StationsInv
<1> QED BY <1>10, <1>12, <1>17, MostlyWake, Zenon

\* What is on a station's wire.
LEMMA StationWireTyped ==
  ASSUME FateInv, NEW p \in Pipe, NEW c, c = preceding_reservation_inst_in(p)
  PROVE  now[c] \in Seq(Seq(DOMAIN inst)) /\ later[c] \in Seq(Seq(DOMAIN inst))
<1>1. c \in GroupPort /\ c \in LinkPort
  BY LinkPortHas, Zenon
<1>2. Typed(c, MessageOf(c, DOMAIN inst))
  BY <1>1, Zenon DEF FateInv, CreditInv, WiresOK
<1>3. MessageOf(c, DOMAIN inst) = Seq(DOMAIN inst)
  BY <1>1, LinkPortsAre, Zenon DEF MessageOf
<1> QED BY <1>2, <1>3, Zenon DEF Typed

\* The first group that is due comes to the station.
LEMMA ComesToStation ==
  ASSUME FateInv, NEW p \in Pipe, NEW c, c = preceding_reservation_inst_in(p), Pending(c)
  PROVE  /\ Message(c) \in Seq(DOMAIN inst)
         /\ \A i : ~Absent(i, Message(c)) => ~Absent(i, Joined(now[c]))
         /\ \A i : ~Absent(i, Joined(Tail(now[c]))) => ~Absent(i, Joined(now[c]))
<1>1. PICK a, I : a = now[c] /\ I = DOMAIN inst
  OBVIOUS
<1>2. a \in Seq(Seq(I)) /\ a # << >>
  BY <1>1, StationWireTyped, Zenon DEF Pending
<1>3. Head(a) \in Seq(I) /\ Joined(Tail(a)) \in Seq(I) /\ Joined(a) = Head(a) \o Joined(Tail(a))
  BY <1>2, JoinedHead, Zenon
<1>4. \A i : Absent(i, Joined(a)) <=> Absent(i, Head(a)) /\ Absent(i, Joined(Tail(a)))
  BY <1>3, ConcatParts, Zenon DEF Parts
<1> QED BY <1>1, <1>3, <1>4, Zenon DEF Message

\* So a station's handler of new instructions leaves most alone.
LEMMA NearStation ==
  ASSUME FateInv, WakeInv, FateInv', NEW p \in Pipe, NEW c, c = preceding_reservation_inst_in(p),
         NEW soon, NEW next, Near(c, soon, next)
  PROVE  Mostly(rename_event) /\ rename_event \notin WakePort
<1>1. /\ Pending(c) /\ Fire(c, soon, next, Nothing) /\ Events(soon, next)
      /\ dispatch_pending_queue' = dispatch_pending_queue
  BY Zenon DEF Near
<1>2. /\ OpenInv' /\ TurnInv' /\ Onward(<< >>)
      /\ \A i \in DOMAIN inst :
           Absent(i, Unrenamed) => SameFlags(inst, inst', i) /\ Absent(i, Unrenamed')
      /\ \A d \in HeardPort : d # c => Quiet(d)
  BY NearKeeps, Zenon
<1>3. /\ rename_event \notin WakePort
      /\ \A q \in Pipe : forwarding_reservation_inst_in(q) # rename_event
  BY DEF rename_event, WakePort, write_back_dispatch_port_in, forwarding_reservation_inst_in
<1>4. /\ \A d \in WakePort : d # c
      /\ \A q \in Pipe : q # p => preceding_reservation_inst_in(q) # c
  BY DEF WakePort, write_back_dispatch_port_in, forwarding_reservation_inst_in,
         preceding_reservation_inst_in
<1>5. TakenAt(rename_event)
  BY <1>2, <1>3, <1>4, Zenon DEF TakenAt, Quiet, HeardPort
<1>6. now'[c] = Tail(now[c]) /\ later'[c] = later[c]
  <2>1. PICK b, Q : b = later[c] /\ Q = Seq(DOMAIN inst) /\ b \in Seq(Q)
    BY StationWireTyped, Zenon
  <2>2. Sent(Nothing, c) = << >> /\ b \o << >> = b
    BY <2>1, SentIs, EmptyConcat, Zenon
  <2>3. /\ c \in OneDelayPort /\ c \notin ZeroDelayPort /\ c \in Source
        /\ c \notin soon /\ c \notin next
    <3>1. c \in OneDelayPort /\ c \in Source
      BY DEF OneDelayPort, Source
    <3> QED BY <1>1, <3>1, PortsApart, Zenon DEF Events, Port
  <2> QED BY <1>1, <2>1, <2>2, <2>3, Zenon DEF Fire
<1>7. ASSUME NEW q \in Pipe
      PROVE  /\ later'[preceding_reservation_inst_in(q)] = later[preceding_reservation_inst_in(q)]
             /\ \A i : ~Absent(i, Joined(now'[preceding_reservation_inst_in(q)])) =>
                   ~Absent(i, Joined(now[preceding_reservation_inst_in(q)]))
  <2>1. CASE q = p
    BY <1>1, <1>6, <2>1, ComesToStation, Zenon
  <2>2. CASE q # p
    <3>1. Quiet(preceding_reservation_inst_in(q))
      BY <1>2, <1>4, <2>2, Zenon DEF HeardPort
    <3> QED BY <3>1, Zenon DEF Quiet
  <2> QED BY <2>1, <2>2
<1> QED BY <1>1, <1>2, <1>3, <1>5, <1>7, Zenon DEF Mostly

\* The entry of an instruction that comes to a station.
StationEntryOf(i) ==
    [inst |-> i, rs1_valid |-> ~inst[i].IsRs1Forward, rs2_valid |-> ~inst[i].IsRs2Forward,
     is_issued |-> FALSE]

\* It waits for what the instruction has forwarded.
LEMMA NewEntrySupplied ==
  ASSUME inst' = inst, NEW i \in DOMAIN inst, NEW h, NEW g, Supplied(inst', h, i, g)
  PROVE  EntrySupplied(inst', h, StationEntryOf(i), g)
<1>1. PICK e : e = StationEntryOf(i)
  OBVIOUS
<1>2. /\ e.inst = i /\ e.rs1_valid = ~inst[i].IsRs1Forward
      /\ e.rs2_valid = ~inst[i].IsRs2Forward
  BY <1>1 DEF StationEntryOf
<1> QED BY <1>1, <1>2, Zenon DEF EntrySupplied, Supplied

IsCat(u, s, g) == u = s \o g

NewEntries(g, group) == g = [k \in DOMAIN group |-> StationEntryOf(group[k])]

\* What is added to a station comes after what it has.
LEMMA StationAdds ==
  ASSUME NEW I, NEW s \in Seq(StationEntry(I)), NEW group \in Seq(I), NEW g,
         NewEntries(g, group), NEW u, IsCat(u, s, g),
         NEW k \in DOMAIN u
  PROVE  \/ k \in DOMAIN s /\ u[k] = s[k]
         \/ \E i \in I : ~Absent(i, group) /\ u[k] = StationEntryOf(i)
<1>2. /\ group \in Seq(I) /\ Len(group) \in Nat /\ DOMAIN group = 1 .. Len(group)
      /\ \A j \in 1 .. Len(group) : group[j] \in I
  OBVIOUS
<1>3. g = [j \in 1 .. Len(group) |-> g[j]] /\ \A j \in 1 .. Len(group) : g[j] = StationEntryOf(group[j])
  BY <1>2 DEF NewEntries
<1>4. PICK T : T = {g[j] : j \in 1 .. Len(group)} \cup StationEntry(I)
  OBVIOUS
<1>5. g \in Seq(T) /\ Len(g) = Len(group)
  BY <1>2, <1>3, <1>4
<1>6. s \in Seq(T) /\ DOMAIN s = 1 .. Len(s) /\ Len(s) \in Nat
  BY <1>4
<1>7. /\ DOMAIN u = 1 .. (Len(s) + Len(g))
      /\ \A i \in 1 .. Len(s) : u[i] = s[i]
      /\ \A i \in 1 .. Len(g) : u[Len(s) + i] = g[i]
  <2>1. g \in Seq(T) /\ s \in Seq(T)
    BY <1>5, <1>6, Zenon
  <2>2. u \in Seq(T) /\ Len(u) = Len(s) + Len(g)
    BY <2>1 DEF IsCat
  <2>3. DOMAIN u = 1 .. (Len(s) + Len(g))
    BY <2>2
  <2> QED BY <2>1, <2>3 DEF IsCat
<1>8. CASE k \in 1 .. Len(s)
  BY <1>6, <1>7, <1>8
<1>9. CASE k \notin 1 .. Len(s)
  <2>1. PICK j : j \in 1 .. Len(group) /\ k = Len(s) + j
    <3>1. k \in Nat /\ k >= 1 /\ k <= Len(s) + Len(group) /\ k > Len(s)
      BY <1>2, <1>5, <1>6, <1>7, <1>9
    <3>2. k - Len(s) \in 1 .. Len(group) /\ k = Len(s) + (k - Len(s))
      BY <1>2, <1>6, <3>1
    <3> QED BY <3>2
  <2>2. u[k] = StationEntryOf(group[j])
    BY <1>3, <1>5, <1>7, <2>1
  <2>3. group[j] \in I /\ ~Absent(group[j], group)
    BY <1>2, <2>1, Zenon DEF Absent
  <2> QED BY <2>2, <2>3, Zenon
<1> QED BY <1>8, <1>9

\* New instructions come to a station.
LEMMA AllocateReStationWake ==
  ASSUME FateInv, WakeInv, NEW p \in Pipe, AllocateReStation(p),
         UNCHANGED <<fetch_credit, renamingVars, rob, dispatchVars, fuVars>>
  PROVE  WakeInv'
<1>1. PICK c, soon, next, f :
        /\ c = preceding_reservation_inst_in(p) /\ soon = {passing_event(p)}
        /\ next = {pop_event(p)} /\ f = Instructions(forwarding_reservation_inst_in(p))'
  OBVIOUS
<1>2. PICK group, s, g, u :
        /\ group = Message(c) /\ s = reservation_station[p]
        /\ NewEntries(g, group) /\ IsCat(u, s, g)
        /\ Ready(c) /\ Fire(c, soon, next, Nothing) /\ inst' = inst
        /\ reservation_station' = [reservation_station EXCEPT ![p] = u]
  BY <1>1, Zenon DEF AllocateReStation, StationEntryOf, NewEntries, IsCat
<1>3. UNCHANGED <<rob, renaming_stage_queue, inst_queue, dispatch_pending_queue, score_board>>
  BY Zenon DEF renamingVars, dispatchVars
<1>4. Events(soon, next) /\ dispatch_issue_events_ \notin soon /\ dispatch_issue_events_ \notin next
  BY <1>1, TurnsDiffer DEF Events, UniqueEvent
<1>5. c \in HeardPort
  BY <1>1, Zenon DEF HeardPort
<1>6. Near(c, soon, next)
  BY <1>2, <1>3, <1>4, <1>5, Zenon DEF Near, Ready
<1>7. FateInv'
  BY AllocateReStationFate, Zenon
<1>8. Mostly(rename_event) /\ rename_event \notin WakePort
  BY <1>1, <1>6, <1>7, NearStation, Zenon
<1>9. /\ write_back_dispatch_port_in # rename_event
      /\ \A q \in Pipe : forwarding_reservation_inst_in(q) # rename_event
  BY <1>8, WakePortsAre, Zenon
<1>10. BoardInv'
  BY <1>3, <1>8, <1>9, BoardStays, Zenon
<1>11. Onward(<< >>) /\ StaysAt(AtStationWire(p)) /\ StationsInv /\ ArrivingInv
  BY <1>8, MostlyComes, PlacesDiffer, Zenon DEF Mostly, WakeInv
<1>12. CreditInv /\ s \in Seq(StationEntry(DOMAIN inst))
  BY <1>2, StationNumbers, Zenon DEF FateInv
<1>13. /\ reservation_station'[p] = u
       /\ \A q \in Pipe : q # p => reservation_station'[q] = reservation_station[q]
  BY <1>2, <1>12, StationBecomes, Zenon
<1>14. /\ group \in Seq(DOMAIN inst)
       /\ \A i : ~Absent(i, group) => ~Absent(i, Joined(now[c]))
  BY <1>1, <1>2, ComesToStation, Zenon DEF Ready
<1>15. ASSUME NEW q \in Pipe, NEW k \in DOMAIN reservation_station[q]
       PROVE  EntrySupplied(inst', held', reservation_station[q][k],
                            Instructions(forwarding_reservation_inst_in(q))')
  <2>1. PICK b : b = forwarding_reservation_inst_in(q)
    OBVIOUS
  <2>2. b \in WakePort /\ b # rename_event
    BY <1>9, <2>1, WakePortsAre, Zenon
  <2>3. ComesOn(inst, held, Instructions(b), inst', held', Instructions(b)')
    BY <1>8, <2>2, MostlyComes, Zenon
  <2>4. Eased(reservation_station[q][k], reservation_station[q][k])
    BY Zenon DEF Eased
  <2>5. EntrySupplied(inst', held', reservation_station[q][k], Instructions(b)')
    BY <1>11, <1>15, <2>1, <2>3, <2>4, StationsKept, Zenon
  <2> QED BY <2>1, <2>5, Zenon
<1>16. ASSUME NEW i \in DOMAIN inst, ~Absent(i, group)
       PROVE  EntrySupplied(inst', held', StationEntryOf(i), f)
  <2>1. PICK b : b = forwarding_reservation_inst_in(p)
    OBVIOUS
  <2>2. b \in WakePort /\ b # rename_event
    BY <1>9, <2>1, WakePortsAre, Zenon
  <2>3. ComesOn(inst, held, Instructions(b), inst', held', Instructions(b)')
    BY <1>8, <2>2, MostlyComes, Zenon
  <2>4. ~Absent(i, Joined(now[preceding_reservation_inst_in(p)]))
    BY <1>1, <1>14, <1>16, Zenon
  <2>5. Supplied(inst', held', i, Instructions(b)')
    BY <1>11, <2>1, <2>3, <2>4, ArrivingKept, Zenon
  <2> QED BY <1>1, <1>2, <1>16, <2>1, <2>5, NewEntrySupplied, Zenon
<1>17. ASSUME NEW k \in DOMAIN u PROVE EntrySupplied(inst', held', u[k], f)
  <2>1. \/ k \in DOMAIN s /\ u[k] = s[k]
        \/ \E i \in DOMAIN inst : ~Absent(i, group) /\ u[k] = StationEntryOf(i)
    <3>1. PICK I : I = DOMAIN inst
      OBVIOUS
    <3>2. s \in Seq(StationEntry(I)) /\ group \in Seq(I)
      BY <1>12, <1>14, <3>1, Zenon
    <3>3. \/ k \in DOMAIN s /\ u[k] = s[k]
          \/ \E i \in I : ~Absent(i, group) /\ u[k] = StationEntryOf(i)
      <4>1. k \in DOMAIN u /\ NewEntries(g, group) /\ IsCat(u, s, g)
        BY <1>2, <1>17, Zenon
      <4> QED BY <3>2, <4>1, StationAdds
    <3> QED BY <3>1, <3>3, Zenon
  <2>2. CASE k \in DOMAIN s /\ u[k] = s[k]
    BY <1>1, <1>2, <1>15, <2>2, Zenon
  <2>3. CASE \E i \in DOMAIN inst : ~Absent(i, group) /\ u[k] = StationEntryOf(i)
    BY <1>16, <2>3, Zenon
  <2> QED BY <2>1, <2>2, <2>3
<1>18. StationsInv'
  <2>1. ASSUME NEW q \in Pipe, NEW k \in DOMAIN reservation_station'[q]
        PROVE  EntrySupplied(inst', held', reservation_station'[q][k],
                             Instructions(forwarding_reservation_inst_in(q))')
    <3>1. CASE q # p
      BY <1>13, <1>15, <2>1, <3>1, Zenon
    <3>2. CASE q = p
      BY <1>1, <1>13, <1>17, <2>1, <3>2, Zenon
    <3> QED BY <3>1, <3>2
  <2> QED BY <2>1, Zenon DEF StationsInv
<1> QED BY <1>8, <1>10, <1>18, MostlyWake, Zenon

\* The turns when the dispatch stage issues what is pending.
LEMMA IssueTurns ==
  ASSUME TurnInv, NEW c, c = dispatch_issue_events_, NEW next, NEW out, Pending(c),
         Fire(c, {}, next, out), c \notin next, \A p \in Pipe : dispatch_pending_queue'[p] = << >>
  PROVE  TurnInv'
<1>1. PICK s : s = dispatch_select_events_
  OBVIOUS
<1>2. s \in UniqueEvent /\ c \in UniqueEvent /\ s # c
  BY <1>1 DEF UniqueEvent, dispatch_select_events_, dispatch_issue_events_
<1>3. /\ s \in Source /\ s \notin ZeroDelayPort /\ s \notin OneDelayPort
      /\ c \in Source /\ c \notin ZeroDelayPort /\ c \notin OneDelayPort
  BY <1>2, PortsApart, Zenon DEF Source
<1>4. fired' = fired \cup {c}
  BY <1>2, Zenon DEF Fire
<1>5. \A x : x \notin {} \ fired'
  OBVIOUS
<1>6. now'[s] = now[s]
  BY <1>2, <1>3, <1>5, Zenon DEF Fire
<1>7. later'[s] = (IF s \in next THEN <<Go>> ELSE later[s]) /\ later'[c] = later[c]
  BY <1>3, Zenon DEF Fire
<1>8. /\ s \in fired /\ now[s] = << >>
      /\ later[s] \in {<< >>, <<Go>>} /\ later[c] = << >>
  BY <1>1, Zenon DEF TurnInv, Pending
<1>9. later'[s] \in {<< >>, <<Go>>} /\ s \in fired' /\ now'[s] \in {<< >>, <<Go>>}
  BY <1>4, <1>6, <1>7, <1>8, Zenon
<1> QED BY <1>1, <1>6, <1>7, <1>8, <1>9, Zenon DEF TurnInv

\* What a station is sent is what was on its way, and what was pending.
LEMMA IssueSends ==
  ASSUME FateInv, NEW p \in Pipe, NEW d, d = preceding_reservation_inst_in(p), NEW m,
         m = dispatch_pending_queue[p], NEW sent, sent = (IF m = << >> THEN << >> ELSE <<m>>),
         later'[d] = later[d] \o sent, NEW i, ~Absent(i, Joined(later'[d]))
  PROVE  ~Absent(i, Joined(later[d])) \/ ~Absent(i, m)
<1>1. PICK a, I, Q : /\ a = later[d] /\ I = DOMAIN inst /\ Q = Seq(I)
                     /\ a \in Seq(Q) /\ m \in Q
  BY StationWireTyped, StationNumbers, Zenon DEF FateInv
<1>2. CASE m = << >>
  <2>1. a \o << >> = a
    BY <1>1, EmptyConcat, Zenon
  <2> QED BY <1>1, <1>2, <2>1, Zenon
<1>3. CASE m # << >>
  <2>1. Joined(a \o <<m>>) = Joined(a) \o m /\ Joined(a) \in Seq(I) /\ m \in Seq(I)
    BY <1>1, JoinedAppend, JoinedIsSeq, Zenon
  <2>2. Absent(i, Joined(a \o <<m>>)) <=> Absent(i, Joined(a)) /\ Absent(i, m)
    <3>1. PICK u, s, t : u = Joined(a \o <<m>>) /\ s = Joined(a) /\ t = m
      OBVIOUS
    <3>2. s \in Seq(I) /\ t \in Seq(I) /\ u = s \o t
      BY <2>1, <3>1, Zenon
    <3>3. Absent(i, u) <=> Absent(i, s) /\ Absent(i, t)
      BY <3>2, ConcatParts, Zenon DEF Parts
    <3> QED BY <3>1, <3>3, Zenon
  <2> QED BY <1>1, <1>3, <2>2, Zenon
<1> QED BY <1>2, <1>3

\* The dispatch stage sends the stations what it chose for them.
LEMMA IssueInstWake ==
  ASSUME FateInv, WakeInv, IssueInst_, UNCHANGED <<fetch_credit, renamingVars, rob, rsVars, fuVars>>
  PROVE  WakeInv'
<1>1. PICK c, m, soon, next, out :
        /\ c = dispatch_issue_events_ /\ m = dispatch_pending_queue /\ soon = {}
        /\ next = IF inst_queue = << >> THEN {} ELSE {dispatch_select_events_}
        /\ out = UNION {Post(preceding_reservation_inst_in(p), <<m[p]>>) :
                          p \in {q \in Pipe : m[q] # << >>}}
        /\ Ready(c) /\ Fire(c, soon, next, out)
        /\ dispatch_pending_queue' = [p \in Pipe |-> << >>]
        /\ UNCHANGED <<inst, inst_queue, score_board>>
  BY Zenon DEF IssueInst_
<1>2. FateInv'
  BY IssueInstFate, Zenon
<1>3. c \in UniqueEvent /\ Events(soon, next) /\ c \notin next
  BY <1>1 DEF Events, UniqueEvent, dispatch_issue_events_, dispatch_select_events_
<1>4. /\ \A mail \in out : \E p \in Pipe : mail[1] = preceding_reservation_inst_in(p)
      /\ \A p \in Pipe : Sent(out, preceding_reservation_inst_in(p)) =
            IF m[p] = << >> THEN << >> ELSE <<m[p]>>
  <2>1. out = UNION {Post(preceding_reservation_inst_in(p), <<m[p]>>) :
                       p \in {q \in Pipe : m[q] # << >>}}
    BY <1>1, Zenon
  <2> QED BY <2>1, IssueMails, Zenon
<1>5. UNCHANGED <<rob, renaming_stage_queue, reservation_station>>
  BY Zenon DEF renamingVars, rsVars
<1>6. /\ \A d \in WakePort : Quiet(d)
      /\ Quiet(preceding_renaming_inst_in) /\ Quiet(preceding_rob_inst_in)
      /\ Quiet(preceding_dispatch_inst_in) /\ Quiet(write_back_rob_finish_in)
  <2>1. c \notin KeyPort
    BY <1>3, NotKey, Zenon
  <2>2. \A p \in Pipe : /\ preceding_reservation_inst_in(p) \notin WakePort
                        /\ preceding_renaming_inst_in # preceding_reservation_inst_in(p)
                        /\ preceding_rob_inst_in # preceding_reservation_inst_in(p)
                        /\ preceding_dispatch_inst_in # preceding_reservation_inst_in(p)
                        /\ write_back_rob_finish_in # preceding_reservation_inst_in(p)
    <3>1. \A p \in Pipe : preceding_reservation_inst_in(p) \in LinkPort
      BY LinkPortHas, Zenon
    <3> QED BY <3>1, WakePortsAre, LinkPortsDiffer, LatePortsAre, Zenon
  <2>3. \A d \in WakePort : Apart(c, out, d)
    BY <1>4, <2>1, <2>2, Zenon DEF Apart, KeyPort, HeardPort
  <2>4. /\ Apart(c, out, preceding_renaming_inst_in) /\ Apart(c, out, preceding_rob_inst_in)
        /\ Apart(c, out, preceding_dispatch_inst_in) /\ Apart(c, out, write_back_rob_finish_in)
    BY <1>4, <2>1, <2>2, Zenon DEF Apart, KeyPort
  <2> QED BY <1>1, <1>3, <2>3, <2>4, QuietWire, WorkPortHas, Zenon
<1>7. TakenAt(rename_event) /\ rename_event \notin WakePort
  <2>1. rename_event \notin WakePort
    BY DEF rename_event, WakePort, write_back_dispatch_port_in, forwarding_reservation_inst_in
  <2> QED BY <1>6, <2>1, Zenon DEF TakenAt, Quiet
<1>8. Onward(<< >>)
  BY <1>1, <1>2, <1>5, <1>6, OnwardSame, Zenon
<1>9. /\ Unrenamed' = Unrenamed /\ held'[AtDispatchWire] = held[AtDispatchWire]
      /\ held'[AtDispatchQueue] = held[AtDispatchQueue]
  BY <1>1, <1>5, <1>6, QuietPortSame, HeldIs, HeldIsPrime, Zenon DEF Unrenamed
<1>10. /\ OpenInv'
       /\ \A i \in DOMAIN inst :
            Absent(i, Unrenamed) => SameFlags(inst, inst', i) /\ Absent(i, Unrenamed')
  BY <1>1, <1>9, ProgramAlone, Zenon
<1>11. \A z \in Place : StaysAt(z)
  BY <1>10, UnsaidNow, Zenon DEF StaysAt
<1>12. /\ WakeWires' /\ SameHeard' /\ HeardRenamed' /\ Told' = Told
       /\ ComesOn(inst, held, Told, inst', held', Told)
       /\ \A d \in WakePort : ComesOn(inst, held, Instructions(d), inst', held', Instructions(d)')
  BY <1>7, <1>8, <1>10, NothingTold, Zenon
<1>13. BoardInv'
  <2>1. PICK f : f = Instructions(write_back_dispatch_port_in)'
    OBVIOUS
  <2>2. ComesOn(inst, held, Instructions(write_back_dispatch_port_in), inst', held', f)
    BY <1>12, <2>1, WakePortsAre, Zenon
  <2> QED BY <1>1, <2>1, <2>2, BoardKept, Zenon DEF WakeInv
<1>14. ASSUME NEW p \in Pipe
       PROVE  \E f : /\ f = Instructions(forwarding_reservation_inst_in(p))'
                     /\ ComesOn(inst, held, Instructions(forwarding_reservation_inst_in(p)),
                                inst', held', f)
                     /\ StaysAt(AtStationWire(p)) /\ StaysAt(AtPending(p))
  BY <1>11, <1>12, PlacesDiffer, WakePortsAre, Zenon
<1>15. StationsInv'
  <2>1. ASSUME NEW p \in Pipe, NEW k \in DOMAIN reservation_station'[p]
        PROVE  EntrySupplied(inst', held', reservation_station'[p][k],
                             Instructions(forwarding_reservation_inst_in(p))')
    <3>1. Eased(reservation_station[p][k], reservation_station[p][k])
      BY Zenon DEF Eased
    <3>2. k \in DOMAIN reservation_station[p] /\ StationsInv
      BY <1>5, <2>1, Zenon DEF WakeInv
    <3> QED BY <1>5, <1>8, <1>14, <2>1, <3>1, <3>2, StationsKept, Zenon
  <2> QED BY <2>1, Zenon DEF StationsInv
<1>16. \A p \in Pipe : /\ now'[preceding_reservation_inst_in(p)] = now[preceding_reservation_inst_in(p)]
                       /\ later'[preceding_reservation_inst_in(p)] =
                            later[preceding_reservation_inst_in(p)] \o
                              Sent(out, preceding_reservation_inst_in(p))
  <2>1. ASSUME NEW d \in LinkPort, d \in OneDelayPort
        PROVE  now'[d] = now[d] /\ later'[d] = later[d] \o Sent(out, d)
    <3>1. d \in Source /\ d \notin ZeroDelayPort /\ d \notin soon /\ d # c
      BY <1>3, <2>1, PortsApart, LinkPortsAre, Zenon DEF Source, Port, Events
    <3> QED BY <1>1, <2>1, <3>1, Zenon DEF Fire
  <2> QED BY <2>1, LinkPortHas, Zenon DEF OneDelayPort
<1>17. ArrivingInv'
  <2>1. ASSUME NEW p \in Pipe, NEW i, ~Absent(i, Joined(now'[preceding_reservation_inst_in(p)]))
        PROVE  Supplied(inst', held', i, Instructions(forwarding_reservation_inst_in(p))')
    <3>1. ~Absent(i, Joined(now[preceding_reservation_inst_in(p)]))
      BY <1>16, <2>1, Zenon
    <3> QED BY <1>8, <1>14, <3>1, ArrivingKept, Zenon
  <2> QED BY <2>1, Zenon DEF ArrivingInv
<1>18. SentInv'
  <2>1. ASSUME NEW p \in Pipe, NEW i, ~Absent(i, Joined(later'[preceding_reservation_inst_in(p)]))
        PROVE  Supplied(inst', held', i, Told')
    <3>1. \/ ~Absent(i, Joined(later[preceding_reservation_inst_in(p)]))
          \/ ~Absent(i, dispatch_pending_queue[p])
      <4>1. PICK d, sent : d = preceding_reservation_inst_in(p) /\ sent = Sent(out, d)
        OBVIOUS
      <4> QED BY <1>1, <1>4, <1>16, <2>1, <4>1, IssueSends, Zenon
    <3>2. StaysAt(AtStationWire(p)) /\ StaysAt(AtPending(p))
      BY <1>14, Zenon
    <3>3. Supplied(inst', held', i, Told)
      BY <1>8, <1>12, <3>1, <3>2, SentKept, PendingKept, Zenon
    <3> QED BY <1>12, <3>3, Zenon
  <2> QED BY <2>1, Zenon DEF SentInv
<1>19. (\A p \in Pipe : dispatch_pending_queue'[p] = << >>) /\ PendingInv'
  <2>1. \A p \in Pipe : dispatch_pending_queue'[p] = << >>
    BY <1>1
  <2> QED BY <2>1, EmptyAbsent, Zenon DEF PendingInv
<1>20. TurnInv'
  BY <1>1, <1>3, <1>19, IssueTurns, Zenon DEF WakeInv, Ready
<1> QED BY <1>10, <1>12, <1>13, <1>15, <1>17, <1>18, <1>19, <1>20, Zenon DEF WakeInv

\* An instruction is at one place, at most.
LEMMA PlaceIsOne ==
  ASSUME NEW i, NEW un, NEW rw, NEW es, NEW h, HasFate(i, un, rw, es, h),
         NEW x \in Place, NEW y \in Place, ~Absent(i, h[x]), ~Absent(i, h[y])
  PROVE  x = y /\ Absent(i, un)
<1>1. ASSUME NEW z \in Place, IsAt(i, z, h) PROVE x = y
  BY <1>1, Zenon DEF IsAt
<1>2. ~Nowhere(i, h)
  BY Zenon DEF Nowhere
<1>3. EarlyPlace \subseteq Place
  BY Zenon DEF EarlyPlace, Place
<1>4. CASE IsRenamed(i, un, rw, es, h)
  BY <1>1, <1>3, <1>4, Zenon DEF IsRenamed
<1>5. CASE IsAwaited(i, un, rw, es, h)
  BY <1>1, <1>5, Zenon DEF IsAwaited
<1> QED BY <1>2, <1>4, <1>5, Zenon DEF HasFate, IsFetched, IsFinished

\* In this state, and after a step.
LEMMA OnePlace ==
  ASSUME FateInv, NEW i \in DOMAIN inst, NEW x \in Place, NEW y \in Place,
         ~Absent(i, held[x]), ~Absent(i, held[y])
  PROVE  x = y /\ Absent(i, Unrenamed)
<1>1. HasFate(i, Unrenamed, RobWire, Entries, held)
  BY Zenon DEF FateInv, Fates
<1> QED BY <1>1, PlaceIsOne, Zenon

LEMMA OnePlaceNext ==
  ASSUME FateInv', NEW i \in DOMAIN inst', NEW x \in Place, NEW y \in Place,
         ~Absent(i, held'[x]), ~Absent(i, held'[y])
  PROVE  x = y /\ Absent(i, Unrenamed')
<1>1. HasFate(i, Unrenamed', RobWire', Entries', held')
  BY Zenon DEF FateInv, Fates
<1> QED BY <1>1, PlaceIsOne, Zenon

\* The turns when the dispatch stage chooses.
LEMMA SelectTurns ==
  ASSUME TurnInv, NEW c, c = dispatch_select_events_, NEW soon, soon = {dispatch_issue_events_},
         NEW out, Pending(c), Fire(c, soon, {}, out)
  PROVE  TurnInv'
<1>1. PICK e : e = dispatch_issue_events_
  OBVIOUS
<1>2. e \in UniqueEvent /\ c \in UniqueEvent /\ e # c
  BY <1>1 DEF UniqueEvent, dispatch_select_events_, dispatch_issue_events_
<1>3. /\ e \in Source /\ e \notin ZeroDelayPort /\ e \notin OneDelayPort
      /\ c \in Source /\ c \notin ZeroDelayPort /\ c \notin OneDelayPort
  BY <1>2, PortsApart, Zenon DEF Source
<1>4. fired' = fired \cup {c}
  BY <1>2, Zenon DEF Fire
<1>5. /\ now[c] = <<Go>> /\ c \notin fired /\ e \notin fired
      /\ later[c] \in {<< >>, <<Go>>} /\ later[e] = << >>
  BY <1>1, Zenon DEF TurnInv, Pending
<1>6. e \in soon \ fired' /\ c \notin soon \ fired'
  BY <1>1, <1>2, <1>4, <1>5
<1>7. now'[e] = <<Go>> /\ now'[c] = Tail(now[c])
  BY <1>2, <1>3, <1>6, Zenon DEF Fire
<1>8. Tail(<<Go>>) = << >> /\ <<Go>> # << >>
  OBVIOUS
<1>9. later'[c] = later[c] /\ later'[e] = later[e]
  <2>1. c \notin {} /\ e \notin {}
    OBVIOUS
  <2> QED BY <1>3, <2>1, Zenon DEF Fire
<1>10. now'[c] = << >> /\ c \in fired' /\ now'[e] # << >>
  BY <1>4, <1>5, <1>7, <1>8
<1>11. \/ later'[c] = << >>
       \/ later'[c] = <<Go>>
  BY <1>5, <1>9
<1> QED BY <1>1, <1>5, <1>9, <1>10, <1>11, Zenon DEF TurnInv

\* The dispatch stage has heard what is due when it chooses.
LEMMA DispatchHasHeard ==
  ASSUME Ready(dispatch_select_events_) PROVE now[write_back_dispatch_port_in] = << >>
<1>1. PICK c, d : c = dispatch_select_events_ /\ d = write_back_dispatch_port_in
  OBVIOUS
<1>2. c \in Source /\ d \in Source
  BY <1>1 DEF Source, OneDelayPort, UniqueEvent
<1>3. <<d, c>> \in DeclaredOrder
  BY <1>1 DEF DeclaredOrder
<1>4. <<d, c>> \in Before
  BY <1>3, LinksAreBefore, Zenon DEF FirstLinks
<1>5. d \in Earlier[c]
  BY <1>2, <1>4, Zenon DEF Earlier
<1>6. ~Pending(d)
  BY <1>1, <1>5, Zenon DEF Ready
<1> QED BY <1>1, <1>6, Zenon DEF Pending

\* So what comes then is what is due in the next cycle.
LEMMA ComesLater ==
  ASSUME WakeInv, now[write_back_dispatch_port_in] = << >>
  PROVE  ComesOn(inst, held, Instructions(write_back_dispatch_port_in), inst, held, Told)
<1>1. PICK d : d = write_back_dispatch_port_in /\ d \in WakePort
  BY WakePortsAre, Zenon
<1>2. \A i : Absent(i, Instructions(d)) <=> Absent(i, Joined(now[d])) /\ Absent(i, Joined(later[d]))
  BY <1>1, WakeWireHas, Zenon DEF WakeInv
<1>3. \A i : Absent(i, Joined(now[d]))
  BY <1>1, JoinedEmpty, EmptyAbsent, Zenon
<1>4. \A i : ~Absent(i, Instructions(d)) => ~Absent(i, Told)
  BY <1>1, <1>2, <1>3, Zenon DEF Told
<1> QED BY <1>1, <1>4, ComesFrom, Zenon

\* What the dispatch stage chooses waits for registers that are busy.
LEMMA ChosenSupplied ==
  ASSUME WakeInv, NEW T, Selects(T), NEW i \in T, NEW h, NEW g,
         ComesOn(inst, held, Instructions(write_back_dispatch_port_in), inst', h, g)
  PROVE  Supplied(inst', h, i, g)
<1>1. i \in DOMAIN inst /\ ~Absent(i, held[AtDispatchQueue])
  BY Zenon DEF Selects
<1>2. ~inst[i].IsRs1Forward /\ ~inst[i].IsRs2Forward
  BY <1>1, Zenon DEF WakeInv, OpenInv, Unchosen
<1>3. /\ inst'[i].PhyRs1 = inst[i].PhyRs1 /\ inst'[i].PhyRs2 = inst[i].PhyRs2
      /\ inst'[i].IsRs1Forward => inst[i].PhyRs1 \in score_board
      /\ inst'[i].IsRs2Forward => inst[i].PhyRs2 \in score_board
  BY <1>1, <1>2, Zenon DEF Selects, Noted, SameRegs
<1>4. \A r \in score_board : Comes(inst', h, r, g)
  BY Zenon DEF WakeInv, BoardInv, ComesOn
<1> QED BY <1>3, <1>4, Zenon DEF Supplied

\* Nobody that the dispatch stage has not chosen has anything to wait for.
LEMMA SelectOpen ==
  ASSUME FateInv', WakeInv, NEW T, Selects(T), Unrenamed' = Unrenamed,
         held'[AtDispatchWire] = held[AtDispatchWire]
  PROVE  OpenInv'
<1>1. ASSUME NEW i \in DOMAIN inst', Unchosen(i, Unrenamed', held')
      PROVE  ~inst'[i].IsRs1Forward /\ ~inst'[i].IsRs2Forward
  <2>1. i \notin T
    <3>1. SUFFICES ASSUME i \in T PROVE FALSE
      OBVIOUS
    <3>2. PICK p \in Pipe : ~Absent(i, held'[AtPending(p)])
      BY <3>1, Zenon DEF Selects
    <3>3. /\ AtPending(p) \in Place /\ AtDispatchWire \in Place /\ AtDispatchQueue \in Place
          /\ AtPending(p) # AtDispatchWire /\ AtPending(p) # AtDispatchQueue
      BY PlacesDiffer DEF AtPending, AtDispatchWire
    <3> QED BY <1>1, <3>2, <3>3, OnePlaceNext, Zenon DEF Unchosen
  <2>2. i \in DOMAIN inst /\ SameFlags(inst, inst', i)
    BY <1>1, <2>1, Zenon DEF Selects, Noted
  <2>3. Unchosen(i, Unrenamed, held)
    BY <1>1, Zenon DEF Unchosen, Selects
  <2> QED BY <2>2, <2>3, Zenon DEF WakeInv, OpenInv, SameFlags
<1> QED BY <1>1, Zenon DEF OpenInv

\* Who is elsewhere is left alone.
LEMMA SelectStays ==
  ASSUME FateInv, NEW T, Selects(T), NEW z \in Place, z # AtDispatchQueue
  PROVE  StaysAt(z)
<1>1. ASSUME NEW i \in DOMAIN inst, ~Absent(i, held[z]) PROVE SameFlags(inst, inst', i)
  <2>1. AtDispatchQueue \in Place
    BY PlacesDiffer
  <2>2. i \notin T
    BY <1>1, <2>1, OnePlace, Zenon DEF Selects
  <2> QED BY <1>1, <2>2, Zenon DEF Selects, Noted
<1> QED BY <1>1, Zenon DEF StaysAt

\* The dispatch stage chooses instructions, and notes what they wait for.
LEMMA SelectInstWake ==
  ASSUME FateInv, WakeInv, SelectInst_, UNCHANGED <<fetch_credit, renamingVars, rob, rsVars, fuVars>>
  PROVE  WakeInv'
<1>1. PICK c, soon, out :
        /\ c = dispatch_select_events_ /\ soon = {dispatch_issue_events_}
        /\ Ready(c) /\ Fire(c, soon, {}, out)
        /\ \A mail \in out : mail[1] = following_renaming_credit_in
  BY SelectInstFate, Zenon DEF SelectFires
<1>2. PICK T : FateInv' /\ Selects(T)
  BY SelectInstFate, Zenon
<1>3. UNCHANGED <<rob, renaming_stage_queue, reservation_station, score_board>>
  BY Zenon DEF renamingVars, rsVars, SelectInst_
<1>4. c \in UniqueEvent /\ Events(soon, {})
  BY <1>1 DEF Events, UniqueEvent
<1>5. /\ \A d \in HeardPort : Quiet(d)
      /\ Quiet(preceding_renaming_inst_in) /\ Quiet(preceding_rob_inst_in)
      /\ Quiet(preceding_dispatch_inst_in) /\ Quiet(write_back_rob_finish_in)
  <2>1. following_renaming_credit_in \in CreditPort
    BY LinkPortHas
  <2>2. \A d \in KeyPort : Apart(c, out, d)
    BY <1>1, <1>4, <2>1, NotKey, Zenon DEF Apart
  <2>3. \A d \in HeardPort : d \in KeyPort /\ d \in WorkPort \cup WakePort
    BY WorkPortHas, Zenon DEF HeardPort, KeyPort
  <2>4. /\ preceding_renaming_inst_in \in KeyPort /\ preceding_rob_inst_in \in KeyPort
        /\ preceding_dispatch_inst_in \in KeyPort /\ write_back_rob_finish_in \in KeyPort
    BY Zenon DEF KeyPort
  <2> QED BY <1>1, <1>4, <2>2, <2>3, <2>4, QuietWire, WorkPortHas, Zenon
<1>6. (\A d \in WakePort : Quiet(d)) /\ \A p \in Pipe : Quiet(preceding_reservation_inst_in(p))
  BY <1>5, Zenon DEF HeardPort
<1>7. TakenAt(rename_event) /\ rename_event \notin WakePort
  <2>1. rename_event \notin WakePort
    BY DEF rename_event, WakePort, write_back_dispatch_port_in, forwarding_reservation_inst_in
  <2> QED BY <1>6, <2>1, Zenon DEF TakenAt, Quiet
<1>8. Onward(<< >>)
  BY <1>2, <1>3, <1>5, OnwardRegs, Zenon DEF Selects, Noted
<1>9. Unrenamed' = Unrenamed /\ held'[AtDispatchWire] = held[AtDispatchWire]
  BY <1>3, <1>5, QuietPortSame, HeldIs, HeldIsPrime, Zenon DEF Unrenamed
<1>10. OpenInv'
  BY <1>2, <1>9, SelectOpen, Zenon
<1>11. /\ WakeWires' /\ SameHeard' /\ HeardRenamed' /\ Told' = Told
       /\ ComesOn(inst, held, Told, inst', held', Told)
       /\ \A d \in WakePort : ComesOn(inst, held, Instructions(d), inst', held', Instructions(d)')
  BY <1>7, <1>8, <1>9, NothingTold, Zenon
<1>12. BoardInv'
  <2>1. PICK f : f = Instructions(write_back_dispatch_port_in)'
    OBVIOUS
  <2>2. ComesOn(inst, held, Instructions(write_back_dispatch_port_in), inst', held', f)
    BY <1>11, <2>1, WakePortsAre, Zenon
  <2> QED BY <1>3, <2>1, <2>2, BoardKept, Zenon DEF WakeInv
<1>13. ASSUME NEW p \in Pipe
       PROVE  \E f : /\ f = Instructions(forwarding_reservation_inst_in(p))'
                     /\ ComesOn(inst, held, Instructions(forwarding_reservation_inst_in(p)),
                                inst', held', f)
                     /\ StaysAt(AtStationWire(p)) /\ StaysAt(AtPending(p))
  <2>1. /\ AtStationWire(p) \in Place /\ AtStationWire(p) # AtDispatchQueue
        /\ AtPending(p) \in Place /\ AtPending(p) # AtDispatchQueue
    BY PlacesDiffer
  <2>2. StaysAt(AtStationWire(p)) /\ StaysAt(AtPending(p))
    BY <1>2, <2>1, SelectStays, Zenon
  <2> QED BY <1>11, <2>2, WakePortsAre, Zenon
<1>14. StationsInv'
  <2>1. ASSUME NEW p \in Pipe, NEW k \in DOMAIN reservation_station'[p]
        PROVE  EntrySupplied(inst', held', reservation_station'[p][k],
                             Instructions(forwarding_reservation_inst_in(p))')
    <3>1. Eased(reservation_station[p][k], reservation_station[p][k])
      BY Zenon DEF Eased
    <3>2. k \in DOMAIN reservation_station[p] /\ StationsInv
      BY <1>3, <2>1, Zenon DEF WakeInv
    <3> QED BY <1>3, <1>8, <1>13, <2>1, <3>1, <3>2, StationsKept, Zenon
  <2> QED BY <2>1, Zenon DEF StationsInv
<1>15. ArrivingInv'
  <2>1. ASSUME NEW p \in Pipe, NEW i, ~Absent(i, Joined(now'[preceding_reservation_inst_in(p)]))
        PROVE  Supplied(inst', held', i, Instructions(forwarding_reservation_inst_in(p))')
    <3>1. ~Absent(i, Joined(now[preceding_reservation_inst_in(p)]))
      BY <1>6, <2>1, Zenon DEF Quiet
    <3> QED BY <1>8, <1>13, <3>1, ArrivingKept, Zenon
  <2> QED BY <2>1, Zenon DEF ArrivingInv
<1>16. SentInv'
  <2>1. ASSUME NEW p \in Pipe, NEW i, ~Absent(i, Joined(later'[preceding_reservation_inst_in(p)]))
        PROVE  Supplied(inst', held', i, Told')
    <3>1. ~Absent(i, Joined(later[preceding_reservation_inst_in(p)]))
      BY <1>6, <2>1, Zenon DEF Quiet
    <3> QED BY <1>8, <1>11, <1>13, <3>1, SentKept, Zenon
  <2> QED BY <2>1, Zenon DEF SentInv
<1>17. ComesOn(inst, held, Instructions(write_back_dispatch_port_in), inst', held', Told')
  <2>1. ComesOn(inst, held, Instructions(write_back_dispatch_port_in), inst, held, Told)
    BY <1>1, DispatchHasHeard, ComesLater, Zenon
  <2> QED BY <1>11, <2>1, Zenon DEF ComesOn
<1>18. PendingInv'
  <2>1. ASSUME NEW p \in Pipe, NEW i, ~Absent(i, dispatch_pending_queue'[p])
        PROVE  Supplied(inst', held', i, Told')
    <3>1. ~Absent(i, dispatch_pending_queue[p]) \/ i \in T
      BY <1>2, <2>1, HeldIs, HeldIsPrime, Zenon DEF Selects
    <3>2. CASE ~Absent(i, dispatch_pending_queue[p])
      BY <1>8, <1>11, <1>13, <3>2, PendingKept, Zenon
    <3>3. CASE i \in T
      BY <1>2, <1>17, <3>3, ChosenSupplied, Zenon
    <3> QED BY <3>1, <3>2, <3>3
  <2> QED BY <2>1, Zenon DEF PendingInv
<1>19. TurnInv'
  BY <1>1, SelectTurns, Zenon DEF WakeInv, Ready
<1> QED BY <1>10, <1>11, <1>12, <1>14, <1>15, <1>16, <1>18, <1>19, Zenon DEF WakeInv

-----------------------------------------------------------------------------
(* What is broadcast is on its way to whoever waits.                       *)

\* Everybody is told of group.
Tells(group) ==
    /\ group \in Seq(DOMAIN inst)
    /\ \A d \in WakePort :
         /\ now'[d] = now[d]
         /\ \/ later'[d] = later[d] \o <<group>>
            \/ group = << >> /\ later'[d] = later[d]
    /\ \A p \in Pipe : later[forwarding_reservation_inst_in(p)] = later[write_back_dispatch_port_in] =>
         later'[forwarding_reservation_inst_in(p)] = later'[write_back_dispatch_port_in]

\* Then it is on each of the wires.
LEMMA ToldOn ==
  ASSUME WakeWires, NEW group, Tells(group), NEW d \in WakePort, DOMAIN inst' = DOMAIN inst
  PROVE  /\ Typed(d, Seq(DOMAIN inst))'
         /\ \A i : Absent(i, Joined(later'[d])) <=> Absent(i, Joined(later[d])) /\ Absent(i, group)
         /\ \A i : Absent(i, Instructions(d)') <=> Absent(i, Instructions(d)) /\ Absent(i, group)
<1>1. PICK a, w, v, I, Q : /\ a = now[d] /\ w = later[d] /\ v = later'[d] /\ I = DOMAIN inst /\ Q = Seq(I)
                           /\ a \in Seq(Q) /\ w \in Seq(Q)
  BY WakeWireHas, Zenon
<1>2. /\ now'[d] = a /\ group \in Seq(I) /\ group \in Q
      /\ v = w \o <<group>> \/ (group = << >> /\ v = w)
  BY <1>1, Zenon DEF Tells
<1>3. v \in Seq(Q)
  <2>1. w \in Seq(Q) /\ group \in Q
    BY <1>1, <1>2, Zenon
  <2>2. <<group>> \in Seq(Q)
    BY <2>1
  <2>3. w \o <<group>> \in Seq(Q)
    BY <2>1, <2>2, ConcatFacts, Zenon
  <2> QED BY <1>2, <2>1, <2>3, Zenon
<1>4. Typed(d, Seq(DOMAIN inst))'
  <2>1. d \notin ZeroDelayPort
    BY WakePortsAre, Zenon
  <2> QED BY <1>1, <1>2, <1>3, <2>1, Zenon DEF Typed
<1>5. \A i : Absent(i, Joined(v)) <=> Absent(i, Joined(w)) /\ Absent(i, group)
  <2>1. w \in Seq(Seq(I)) /\ group \in Seq(I)
    BY <1>1, <1>2, Zenon
  <2>2. Parts(Joined(v), Joined(w), group)
    BY <1>2, <2>1, SentOver, Zenon
  <2> QED BY <2>2, Zenon DEF Parts
<1>6. \A i : /\ Absent(i, Joined(a \o w)) <=> Absent(i, Joined(a)) /\ Absent(i, Joined(w))
             /\ Absent(i, Joined(a \o v)) <=> Absent(i, Joined(a)) /\ Absent(i, Joined(v))
  BY <1>1, <1>3, JoinedBoth, Zenon
<1>7. Instructions(d) = Joined(a \o w) /\ Instructions(d)' = Joined(a \o v)
  BY <1>1, <1>2, Zenon DEF Instructions, OnTheWay
<1> QED BY <1>1, <1>4, <1>5, <1>6, <1>7, Zenon

\* What came comes, and what is broadcast.
LEMMA GroupTold ==
  ASSUME FateInv, WakeInv, NEW group, Tells(group), Onward(group), DOMAIN inst' = DOMAIN inst,
         Unrenamed' = Unrenamed, \A i : ~Absent(i, group) => Absent(i, Unrenamed)
  PROVE  /\ WakeWires' /\ SameHeard' /\ HeardRenamed'
         /\ \A d \in WakePort :
              ComesOn(inst, held, Instructions(d), inst', held', Instructions(d)')
         /\ ComesOn(inst, held, Told, inst', held', Told')
<1>1. WakeWires /\ SameHeard /\ HeardRenamed
  BY Zenon DEF WakeInv
<1>2. ASSUME NEW d \in WakePort
      PROVE  /\ Typed(d, Seq(DOMAIN inst))'
             /\ \A i : Absent(i, Joined(later'[d])) <=> Absent(i, Joined(later[d])) /\ Absent(i, group)
             /\ \A i : Absent(i, Instructions(d)') <=> Absent(i, Instructions(d)) /\ Absent(i, group)
  BY <1>1, ToldOn, Zenon
<1>3. WakeWires'
  BY <1>2, Zenon DEF WakeWires
<1>4. SameHeard'
  BY <1>1, Zenon DEF SameHeard, Tells
<1>5. HeardRenamed'
  <2>1. ASSUME NEW d \in WakePort, NEW i \in DOMAIN inst', ~Absent(i, Instructions(d)')
        PROVE  Absent(i, Unrenamed')
    BY <1>1, <1>2, <2>1, Zenon DEF HeardRenamed
  <2> QED BY <2>1, Zenon DEF HeardRenamed
<1>6. ASSUME NEW d \in WakePort
      PROVE  ComesOn(inst, held, Instructions(d), inst', held', Instructions(d)')
  <2>1. \A i \in DOMAIN inst :
          ~Absent(i, Instructions(d)) => Absent(i, Unrenamed) /\ ~Absent(i, Instructions(d)')
    BY <1>1, <1>2, <1>6, Zenon DEF HeardRenamed
  <2>2. \A i \in DOMAIN inst : ~Absent(i, group) => ~Absent(i, Instructions(d)')
    BY <1>2, <1>6, Zenon
  <2> QED BY <2>1, <2>2, StillComes, Zenon
<1>7. ComesOn(inst, held, Told, inst', held', Told')
  <2>1. PICK d : d = write_back_dispatch_port_in /\ d \in WakePort
    BY WakePortsAre, Zenon
  <2>2. Told = Joined(later[d]) /\ Told' = Joined(later'[d])
    BY <2>1, Zenon DEF Told
  <2>3. \A i : Absent(i, Told') <=> Absent(i, Told) /\ Absent(i, group)
    BY <1>2, <2>1, <2>2, Zenon
  <2>4. \A i \in DOMAIN inst : ~Absent(i, Told) => Absent(i, Unrenamed) /\ ~Absent(i, Told')
    BY <1>1, <2>1, <2>2, <2>3, WakeWireHas, Zenon DEF HeardRenamed
  <2>5. \A i \in DOMAIN inst : ~Absent(i, group) => ~Absent(i, Told')
    BY <2>3, Zenon
  <2> QED BY <2>4, <2>5, StillComes, Zenon
<1> QED BY <1>3, <1>4, <1>5, <1>6, <1>7

\* The mails of a broadcast.
LEMMA BroadcastSent ==
  ASSUME NEW group, NEW out, out = BroadcastMail(group)
  PROVE  /\ \A mail \in out : mail[1] \in Hearing
         /\ \A d \in Hearing : Sent(out, d) = IF group = << >> THEN << >> ELSE <<group>>
<1>1. CASE group = << >>
  <2>1. \A mail \in out : FALSE
    BY <1>1 DEF BroadcastMail, Nothing
  <2>2. \A d \in Hearing : Sent(out, d) = << >>
    BY <2>1, Zenon DEF Sent
  <2> QED BY <1>1, <2>1, <2>2, Zenon
<1>2. CASE group # << >>
  <2>1. out = Hearing \X {<<group>>}
    BY <1>2, Zenon DEF BroadcastMail
  <2>2. \A mail \in out : mail[1] \in Hearing /\ mail[2] = <<group>>
    BY <2>1
  <2>3. ASSUME NEW d \in Hearing PROVE Sent(out, d) = <<group>>
    <3>1. \E mail \in out : mail[1] = d
      <4>1. <<d, <<group>>>> \in out /\ <<d, <<group>>>>[1] = d
        BY <2>1, <2>3
      <4> QED BY <4>1, Zenon
    <3>2. (CHOOSE mail \in out : mail[1] = d) \in out
      BY <3>1, Zenon
    <3> QED BY <2>2, <3>1, <3>2, Zenon DEF Sent
  <2> QED BY <1>2, <2>2, <2>3, Zenon
<1> QED BY <1>1, <1>2

\* So everybody who waits is told.
LEMMA BroadcastTells ==
  ASSUME WakeWires, NEW group, Broadcasts(group) PROVE Tells(group)
<1>1. PICK c, next, out :
        /\ c = arbitrate_inst_event /\ out = BroadcastMail(group) /\ Fire(c, {}, next, out)
  BY Zenon DEF Broadcasts
<1>2. c \notin WakePort
  BY <1>1, WakePortsAre, Zenon DEF UniqueEvent
<1>3. PICK sent : sent = IF group = << >> THEN << >> ELSE <<group>>
  OBVIOUS
<1>4. ASSUME NEW d \in WakePort PROVE now'[d] = now[d] /\ later'[d] = later[d] \o sent
  <2>1. d \in Source /\ d \notin ZeroDelayPort /\ d \in OneDelayPort /\ d # c
    BY <1>2, WakePortsAre, Zenon DEF Source
  <2>2. d \notin {} \ fired'
    OBVIOUS
  <2>3. d \in Hearing
    BY Zenon DEF WakePort, Hearing
  <2>4. Sent(out, d) = sent
    BY <1>1, <1>3, <2>3, BroadcastSent, Zenon
  <2>5. now'[d] = now[d]
    BY <1>1, <2>1, <2>2, Zenon DEF Fire
  <2>6. later'[d] = later[d] \o Sent(out, d)
    BY <1>1, <2>1, Zenon DEF Fire
  <2> QED BY <2>4, <2>5, <2>6, Zenon
<1>5. ASSUME NEW d \in WakePort
      PROVE  \/ later'[d] = later[d] \o <<group>>
             \/ group = << >> /\ later'[d] = later[d]
  <2>1. PICK w, Q : w = later[d] /\ w \in Seq(Q)
    BY WakeWireHas, Zenon
  <2>2. w \o << >> = w
    BY <2>1, EmptyConcat, Zenon
  <2> QED BY <1>3, <1>4, <2>1, <2>2, Zenon
<1>6. ASSUME NEW p \in Pipe, later[forwarding_reservation_inst_in(p)] = later[write_back_dispatch_port_in]
      PROVE  later'[forwarding_reservation_inst_in(p)] = later'[write_back_dispatch_port_in]
  BY <1>4, <1>6, WakePortsAre, Zenon
<1>7. group \in Seq(DOMAIN inst)
  BY Zenon DEF Broadcasts
<1> QED BY <1>4, <1>5, <1>6, <1>7, Zenon DEF Tells

\* Whatever had not been broadcast has not been, but for the group.
LEMMA BroadcastOnward ==
  ASSUME FateInv, FateInv', NEW group, Broadcasts(group), rob' = rob, Quiet(preceding_rob_inst_in)
  PROVE  Onward(group)
<1>1. More /\ (\A i \in DOMAIN inst : SameRegs(inst, inst', i)) /\ DOMAIN inst' = DOMAIN inst
  BY Zenon DEF More, SameRegs, Broadcasts
<1>2. RobWire' = RobWire /\ Entries' = Entries
  BY QuietPortSame, Zenon DEF RobWire, Entries
<1>3. \A i : Absent(i, held'[AtFinishWire]) <=> Absent(i, held[AtFinishWire]) /\ Absent(i, group)
  BY Zenon DEF Broadcasts, Parts
<1>4. ASSUME NEW i \in DOMAIN inst, Unsaid(i, held) PROVE Unsaid(i, held') \/ ~Absent(i, group)
  <2>1. Due(i, RobWire, Entries) /\ Absent(i, held[AtFinishWire])
    BY <1>4, UnsaidNow, Zenon
  <2> QED BY <1>1, <1>2, <1>3, <2>1, UnsaidNext, Zenon
<1> QED BY <1>1, <1>4, Zenon DEF Onward

\* The write back stage broadcasts.
LEMMA ArbitrateWake ==
  ASSUME FateInv, WakeInv, ArbitrateInst_,
         UNCHANGED <<fetch_credit, renamingVars, rob, dispatchVars, rsVars>>
  PROVE  WakeInv'
<1>1. PICK group : FateInv' /\ Broadcasts(group)
  BY ArbitrateFate, Zenon
<1>2. PICK c, next, out :
        /\ c = arbitrate_inst_event /\ out = BroadcastMail(group) /\ Fire(c, {}, next, out)
        /\ next \in SUBSET {c}
  BY <1>1, Zenon DEF Broadcasts
<1>3. /\ c \in UniqueEvent /\ Events({}, next)
      /\ c # dispatch_select_events_ /\ c # dispatch_issue_events_
      /\ dispatch_issue_events_ \notin {} /\ dispatch_issue_events_ \notin next
  BY <1>2 DEF Events, UniqueEvent, arbitrate_inst_event, dispatch_select_events_, dispatch_issue_events_
<1>4. UNCHANGED <<inst, rob, renaming_stage_queue, inst_queue, dispatch_pending_queue, score_board,
                  reservation_station>>
  BY <1>1, Zenon DEF renamingVars, dispatchVars, rsVars, Broadcasts
<1>5. /\ \A p \in Pipe : Quiet(preceding_reservation_inst_in(p))
      /\ Quiet(preceding_renaming_inst_in) /\ Quiet(preceding_rob_inst_in)
      /\ Quiet(preceding_dispatch_inst_in)
  <2>1. c \notin KeyPort
    BY <1>3, NotKey, Zenon
  <2>2. \A q \in LinkPort : q \notin Hearing
    BY WakePortsAre, LatePortsAre, LinkPortsDiffer, Zenon DEF Hearing, WakePort
  <2>3. /\ preceding_renaming_inst_in \in LinkPort /\ preceding_rob_inst_in \in LinkPort
        /\ preceding_dispatch_inst_in \in LinkPort
        /\ \A p \in Pipe : preceding_reservation_inst_in(p) \in LinkPort
    BY LinkPortHas, Zenon
  <2>4. \A mail \in out : mail[1] \in Hearing
    BY <1>2, BroadcastSent, Zenon
  <2>5. ASSUME NEW q \in LinkPort, q \in KeyPort, q \in WorkPort PROVE Quiet(q)
    <3>1. Apart(c, out, q)
      BY <2>1, <2>2, <2>4, <2>5, Zenon DEF Apart
    <3> QED BY <1>2, <1>3, <2>5, <3>1, QuietWire, Zenon
  <2>6. /\ preceding_renaming_inst_in \in KeyPort /\ preceding_rob_inst_in \in KeyPort
        /\ preceding_dispatch_inst_in \in KeyPort
        /\ \A p \in Pipe : preceding_reservation_inst_in(p) \in KeyPort
    BY Zenon DEF KeyPort, HeardPort
  <2> QED BY <2>3, <2>5, <2>6, WorkPortHas, Zenon
<1>6. Tells(group)
  BY <1>1, BroadcastTells, Zenon DEF WakeInv
<1>7. Onward(group)
  BY <1>1, <1>4, <1>5, BroadcastOnward, Zenon
<1>8. Unrenamed' = Unrenamed /\ held'[AtDispatchWire] = held[AtDispatchWire]
      /\ held'[AtDispatchQueue] = held[AtDispatchQueue]
  BY <1>4, <1>5, QuietPortSame, HeldIs, HeldIsPrime, Zenon DEF Unrenamed
<1>9. OpenInv'
  BY <1>4, <1>8, ProgramAlone, Zenon
<1>10. \A i : ~Absent(i, group) => Absent(i, Unrenamed)
  <2>1. ASSUME NEW i, ~Absent(i, group) PROVE Absent(i, Unrenamed)
    <3>1. i \in DOMAIN inst
      BY <1>1, <2>1, OutsideAbsent, Zenon DEF Broadcasts
    <3>2. PICK p \in Pipe : ~Absent(i, held[AtWriteBack(p)])
      BY <1>1, <2>1, Zenon DEF Broadcasts
    <3>3. AtWriteBack(p) \in Place
      BY PlacesDiffer, Zenon
    <3> QED BY <3>1, <3>2, <3>3, UnsaidNow, Zenon
  <2> QED BY <2>1, Zenon
<1>11. DOMAIN inst' = DOMAIN inst /\ \A z \in Place : StaysAt(z)
  BY <1>4, Zenon DEF StaysAt, SameFlags
<1>12. /\ WakeWires' /\ SameHeard' /\ HeardRenamed'
       /\ ComesOn(inst, held, Told, inst', held', Told')
       /\ \A d \in WakePort : ComesOn(inst, held, Instructions(d), inst', held', Instructions(d)')
  BY <1>6, <1>7, <1>8, <1>10, <1>11, GroupTold, Zenon
<1>13. BoardInv'
  <2>1. PICK f : f = Instructions(write_back_dispatch_port_in)'
    OBVIOUS
  <2>2. ComesOn(inst, held, Instructions(write_back_dispatch_port_in), inst', held', f)
    BY <1>12, <2>1, WakePortsAre, Zenon
  <2> QED BY <1>4, <2>1, <2>2, BoardKept, Zenon DEF WakeInv
<1>14. ASSUME NEW p \in Pipe
       PROVE  \E f : /\ f = Instructions(forwarding_reservation_inst_in(p))'
                     /\ ComesOn(inst, held, Instructions(forwarding_reservation_inst_in(p)),
                                inst', held', f)
                     /\ StaysAt(AtStationWire(p)) /\ StaysAt(AtPending(p))
  BY <1>11, <1>12, PlacesDiffer, WakePortsAre, Zenon
<1>15. StationsInv'
  <2>1. ASSUME NEW p \in Pipe, NEW k \in DOMAIN reservation_station'[p]
        PROVE  EntrySupplied(inst', held', reservation_station'[p][k],
                             Instructions(forwarding_reservation_inst_in(p))')
    <3>1. Eased(reservation_station[p][k], reservation_station[p][k])
      BY Zenon DEF Eased
    <3>2. k \in DOMAIN reservation_station[p] /\ StationsInv
      BY <1>4, <2>1, Zenon DEF WakeInv
    <3> QED BY <1>4, <1>7, <1>14, <2>1, <3>1, <3>2, StationsKept, Zenon
  <2> QED BY <2>1, Zenon DEF StationsInv
<1>16. ArrivingInv'
  <2>1. ASSUME NEW p \in Pipe, NEW i, ~Absent(i, Joined(now'[preceding_reservation_inst_in(p)]))
        PROVE  Supplied(inst', held', i, Instructions(forwarding_reservation_inst_in(p))')
    <3>1. ~Absent(i, Joined(now[preceding_reservation_inst_in(p)]))
      BY <1>5, <2>1, Zenon DEF Quiet
    <3> QED BY <1>7, <1>14, <3>1, ArrivingKept, Zenon
  <2> QED BY <2>1, Zenon DEF ArrivingInv
<1>17. SentInv'
  <2>1. ASSUME NEW p \in Pipe, NEW i, ~Absent(i, Joined(later'[preceding_reservation_inst_in(p)]))
        PROVE  Supplied(inst', held', i, Told')
    <3>1. ~Absent(i, Joined(later[preceding_reservation_inst_in(p)]))
      BY <1>5, <2>1, Zenon DEF Quiet
    <3> QED BY <1>7, <1>12, <1>14, <3>1, SentKept, Zenon
  <2> QED BY <2>1, Zenon DEF SentInv
<1>18. PendingInv'
  <2>1. ASSUME NEW p \in Pipe, NEW i, ~Absent(i, dispatch_pending_queue'[p])
        PROVE  Supplied(inst', held', i, Told')
    <3>1. ~Absent(i, dispatch_pending_queue[p])
      BY <1>4, <2>1, Zenon
    <3> QED BY <1>7, <1>12, <1>14, <3>1, PendingKept, Zenon
  <2> QED BY <2>1, Zenon DEF PendingInv
<1>19. TurnInv'
  BY <1>2, <1>3, <1>4, TurnsKept, Zenon DEF WakeInv
<1> QED BY <1>9, <1>12, <1>13, <1>15, <1>16, <1>17, <1>18, <1>19, Zenon DEF WakeInv

-----------------------------------------------------------------------------
(* A new cycle.                                                            *)

\* What was due in the next cycle is due in this one.
LEMMA TickTold ==
  ASSUME WakeWires, Tick, NEW d \in WakePort
  PROVE  /\ Typed(d, Seq(DOMAIN inst))' /\ later'[d] = << >>
         /\ Instructions(d)' = Instructions(d) /\ Instructions(d) = Joined(later[d])
<1>1. inst' = inst /\ now' = later /\ later' = [c \in Source |-> << >>]
      /\ \A c \in Source : now[c] = << >>
  BY Zenon DEF Tick, Pending
<1>2. d \in Source /\ d \notin ZeroDelayPort
  BY WakePortsAre, Zenon DEF Source
<1>3. PICK a, Q : a = later[d] /\ Q = Seq(DOMAIN inst) /\ a \in Seq(Q)
  BY WakeWireHas, Zenon
<1>4. now[d] = << >> /\ now'[d] = a /\ later'[d] = << >>
  BY <1>1, <1>2, <1>3, Zenon
<1>5. << >> \o a = a /\ a \o << >> = a /\ << >> \in Seq(Q)
  BY <1>3, EmptyConcat
<1>6. OnTheWay(d) = a /\ OnTheWay(d)' = a
  BY <1>3, <1>4, <1>5, Zenon DEF OnTheWay
<1>7. Typed(d, Seq(DOMAIN inst))'
  BY <1>1, <1>2, <1>3, <1>4, <1>5, Zenon DEF Typed
<1> QED BY <1>3, <1>4, <1>6, <1>7, Zenon DEF Instructions

\* Everything stays where it is.
LEMMA TickHeld ==
  ASSUME FateInv, Tick,
         UNCHANGED <<fetch_credit, renamingVars, rob, dispatchVars, rsVars, fuVars>>
  PROVE  /\ \A z \in Place : held'[z] = held[z]
         /\ Unrenamed' = Unrenamed /\ inst' = inst
<1>1. UNCHANGED <<inst_queue, dispatch_pending_queue, reservation_station, alu_queue, inst_queue_map>>
      /\ renaming_stage_queue' = renaming_stage_queue
  BY Zenon DEF renamingVars, dispatchVars, rsVars, fuVars
<1>2. \A d \in WorkPort : OnTheWay(d)' = OnTheWay(d)
  <2>1. \A d \in LinkPort : OnTheWay(d)' = OnTheWay(d)
    BY TickMoves, Zenon DEF FateInv
  <2>2. \A d \in LatePort : OnTheWay(d)' = OnTheWay(d)
    BY TickLate, Zenon DEF FateInv
  <2> QED BY <2>1, <2>2, LinkPortHas, Zenon DEF WorkPort
<1>3. \A z \in Place : held'[z] = held[z]
  <2>1. PICK X : X = {} /\ Kept(X)
    BY <1>1, <1>2, AllKept, Zenon
  <2>2. \A z \in Place : z \notin X
    BY <2>1
  <2> QED BY <2>1, <2>2, KeptHeld, Zenon
<1>4. Unrenamed' = Unrenamed
  BY <1>1, <1>2, WorkPortHas, Zenon DEF Unrenamed, Instructions
<1> QED BY <1>3, <1>4, Zenon DEF Tick

\* A new cycle.
LEMMA TickWake ==
  ASSUME FateInv, WakeInv, Tick,
         UNCHANGED <<fetch_credit, renamingVars, rob, dispatchVars, rsVars, fuVars>>
  PROVE  WakeInv'
<1>1. /\ \A z \in Place : held'[z] = held[z]
      /\ Unrenamed' = Unrenamed /\ inst' = inst
  BY TickHeld, Zenon
<1>2. UNCHANGED <<score_board, dispatch_pending_queue, reservation_station>>
  BY Zenon DEF dispatchVars, rsVars
<1>3. /\ WakeWires /\ SameHeard /\ HeardRenamed /\ BoardInv /\ StationsInv /\ SentInv /\ TurnInv
      /\ OpenInv
  BY Zenon DEF WakeInv
<1>4. ASSUME NEW d \in WakePort
      PROVE  /\ Typed(d, Seq(DOMAIN inst))' /\ later'[d] = << >>
             /\ Instructions(d)' = Instructions(d) /\ Instructions(d) = Joined(later[d])
  BY <1>3, TickTold, Zenon
<1>5. WakeWires' /\ SameHeard'
  BY <1>4, WakePortsAre, Zenon DEF WakeWires, SameHeard
<1>6. HeardRenamed'
  <2>1. ASSUME NEW d \in WakePort, NEW i \in DOMAIN inst', ~Absent(i, Instructions(d)')
        PROVE  Absent(i, Unrenamed')
    BY <1>1, <1>3, <1>4, <2>1, Zenon DEF HeardRenamed
  <2> QED BY <2>1, Zenon DEF HeardRenamed
<1>7. Onward(<< >>)
  BY <1>1, OnwardHeld, Zenon
<1>8. FateInv'
  BY TickFate, Zenon
<1>9. ASSUME NEW g PROVE ComesOn(inst, held, g, inst', held', g)
  <2>1. ASSUME NEW i \in DOMAIN inst, Unsaid(i, held) \/ ~Absent(i, g)
        PROVE  i \in DOMAIN inst' /\ inst'[i].PhyRd = inst[i].PhyRd /\ (Unsaid(i, held') \/ ~Absent(i, g))
    BY <1>1, <2>1, Zenon DEF Unsaid
  <2> QED BY <2>1, ComesFrom, Zenon
<1>10. BoardInv'
  <2>1. PICK f : f = Instructions(write_back_dispatch_port_in)'
                 /\ f = Instructions(write_back_dispatch_port_in)
    BY <1>4, WakePortsAre, Zenon
  <2> QED BY <1>2, <1>3, <1>9, <2>1, BoardKept, Zenon
<1>11. ASSUME NEW p \in Pipe
       PROVE  /\ Instructions(forwarding_reservation_inst_in(p))' = Instructions(forwarding_reservation_inst_in(p))
              /\ Instructions(forwarding_reservation_inst_in(p)) = Told
  <2>1. forwarding_reservation_inst_in(p) \in WakePort
    BY WakePortsAre, Zenon
  <2>2. later[forwarding_reservation_inst_in(p)] = later[write_back_dispatch_port_in]
    BY <1>3, Zenon DEF SameHeard
  <2> QED BY <1>4, <2>1, <2>2, Zenon DEF Told
<1>12. StationsInv'
  <2>1. ASSUME NEW p \in Pipe, NEW k \in DOMAIN reservation_station'[p]
        PROVE  EntrySupplied(inst', held', reservation_station'[p][k],
                             Instructions(forwarding_reservation_inst_in(p))')
    <3>1. Eased(reservation_station[p][k], reservation_station[p][k])
      BY Zenon DEF Eased
    <3>2. k \in DOMAIN reservation_station[p]
      BY <1>2, <2>1, Zenon
    <3>3. PICK f : /\ f = Instructions(forwarding_reservation_inst_in(p))'
                   /\ f = Instructions(forwarding_reservation_inst_in(p))
      BY <1>11, <2>1, Zenon
    <3> QED BY <1>2, <1>3, <1>7, <1>9, <2>1, <3>1, <3>2, <3>3, StationsKept, Zenon
  <2> QED BY <2>1, Zenon DEF StationsInv
<1>13. \A p \in Pipe : /\ now'[preceding_reservation_inst_in(p)] = later[preceding_reservation_inst_in(p)]
                       /\ later'[preceding_reservation_inst_in(p)] = << >>
  <2>1. \A p \in Pipe : preceding_reservation_inst_in(p) \in Source
    BY DEF Source, OneDelayPort
  <2> QED BY <2>1, Zenon DEF Tick
<1>14. ArrivingInv'
  <2>1. ASSUME NEW p \in Pipe, NEW i \in DOMAIN inst',
               ~Absent(i, Joined(now'[preceding_reservation_inst_in(p)]))
        PROVE  Supplied(inst', held', i, Instructions(forwarding_reservation_inst_in(p))')
    <3>1. Supplied(inst, held, i, Told)
      BY <1>1, <1>3, <1>13, <2>1, Zenon DEF SentInv
    <3>2. SameRegs(inst, inst', i) /\ SameFlags(inst, inst', i)
      BY <1>1, Zenon DEF SameRegs, SameFlags
    <3>3. Supplied(inst', held', i, Told)
      BY <1>9, <3>1, <3>2, SuppliedOn, Zenon
    <3> QED BY <1>11, <2>1, <3>3, Zenon
  <2> QED BY <2>1, Zenon DEF ArrivingInv
<1>15. SentInv'
  <2>1. \A p \in Pipe : \A i : Absent(i, Joined(later'[preceding_reservation_inst_in(p)]))
    BY <1>13, JoinedEmpty, EmptyAbsent, Zenon
  <2> QED BY <2>1, Zenon DEF SentInv
<1>16. PICK s, e : /\ s = dispatch_select_events_ /\ e = dispatch_issue_events_
                   /\ s \in Source /\ e \in Source
  BY Zenon DEF Source, UniqueEvent
<1>17. /\ now[e] = << >> /\ now'[e] = later[e] /\ now'[s] = later[s]
       /\ later'[e] = << >> /\ later'[s] = << >> /\ fired' = {}
  BY <1>16, Zenon DEF Tick, Pending
<1>18. \A p \in Pipe : dispatch_pending_queue'[p] = << >>
  BY <1>2, <1>3, <1>16, <1>17, Zenon DEF TurnInv
<1>19. PendingInv'
  BY <1>18, EmptyAbsent, Zenon DEF PendingInv
<1>20. TurnInv'
  <2>1. e \notin fired' /\ s \notin fired'
    BY <1>17
  <2>2. later[e] = << >> /\ later[s] \in {<< >>, <<Go>>}
    BY <1>3, <1>16, Zenon DEF TurnInv
  <2>3. now'[e] = << >> /\ now'[s] \in {<< >>, <<Go>>} /\ later'[s] \in {<< >>, <<Go>>}
    BY <1>17, <2>2
  <2> QED BY <1>16, <1>17, <1>18, <2>1, <2>3, Zenon DEF TurnInv
<1>21. OpenInv'
  <2>1. AtDispatchWire \in Place /\ AtDispatchQueue \in Place
    BY PlacesDiffer, Zenon
  <2> QED BY <1>1, <2>1, ProgramAlone, Zenon
<1> QED BY <1>5, <1>6, <1>10, <1>12, <1>14, <1>15, <1>19, <1>20, <1>21, Zenon DEF WakeInv

\* No step.
LEMMA StutterWake ==
  ASSUME FateInv, WakeInv, WellPredicted, UNCHANGED vars PROVE WakeInv'
<1>1. UNCHANGED <<now, later, fired, inst, renaming_stage_queue, inst_queue, dispatch_pending_queue,
                  score_board, reservation_station, alu_queue, inst_queue_map>>
  BY Zenon DEF vars, schedulerVars, renamingVars, dispatchVars, rsVars, fuVars
<1>2. FateInv'
  BY StutterFate, Zenon
<1>3. \A z \in Place : held'[z] = held[z]
  <2>1. \A d \in WorkPort : OnTheWay(d)' = OnTheWay(d)
    BY <1>1, Zenon DEF OnTheWay
  <2>2. PICK X : X = {} /\ Kept(X)
    BY <1>1, <2>1, AllKept, Zenon
  <2>3. \A z \in Place : z \notin X
    BY <2>2
  <2> QED BY <2>2, <2>3, KeptHeld, Zenon
<1>4. Unrenamed' = Unrenamed
  BY <1>1, Zenon DEF Unrenamed, Instructions, OnTheWay
<1>5. Onward(<< >>)
  BY <1>1, <1>3, OnwardHeld, Zenon
<1>6. /\ OpenInv'
      /\ \A i \in DOMAIN inst :
           Absent(i, Unrenamed) => SameFlags(inst, inst', i) /\ Absent(i, Unrenamed')
  <2>1. AtDispatchWire \in Place /\ AtDispatchQueue \in Place
    BY PlacesDiffer, Zenon
  <2> QED BY <1>1, <1>3, <1>4, <2>1, ProgramAlone, Zenon
<1>7. TurnInv'
  BY <1>1, Zenon DEF WakeInv, TurnInv
<1>8. PICK c : c = rename_event /\ c \notin WakePort
  BY WakePortsAre, Zenon DEF UniqueEvent
<1>9. TakenAt(c) /\ \A d \in WakePort : d # c
  BY <1>1, <1>8, Zenon DEF TakenAt
<1>10. /\ \A p \in Pipe : forwarding_reservation_inst_in(p) # c
       /\ write_back_dispatch_port_in # c
  BY <1>9, WakePortsAre, Zenon
<1>11. Mostly(c)
  BY <1>1, <1>2, <1>5, <1>6, <1>7, <1>9, <1>10, Zenon DEF Mostly
<1>12. StationsInv'
  BY <1>1, <1>10, <1>11, StationsAlone, EasedKept, Zenon
<1>13. score_board' \subseteq score_board
  BY <1>1, Zenon
<1>14. BoardInv'
  BY <1>10, <1>11, <1>13, BoardStays, Zenon
<1> QED BY <1>11, <1>12, <1>14, MostlyWake, Zenon

-----------------------------------------------------------------------------
(* Every step.                                                             *)

\* Every handler and every new cycle keeps the invariant.
LEMMA WakeStep ==
  ASSUME FateInv, WakeInv, WellPredicted, [Next]_vars PROVE WakeInv'
<1>1. CASE FrontendStep
  BY <1>1, AcceptCreditWake, ProduceWake, Zenon DEF FrontendStep
<1>2. CASE RenamingStep
  BY <1>2, AcceptRobCreditWake, AcceptDispatchCreditWake, RenamingAllocateWake, RenameWake,
     RobCommitWake, Zenon DEF RenamingStep
<1>3. CASE RobStep
  BY <1>3, AllocateRobWake, FinishWake, CommitWake, Zenon DEF RobStep
<1>4. CASE DispatchStep
  BY <1>4, DispatchAllocateWake, FuncUnitBackWake, DispatchAcceptCreditWake,
     PopIssueQueueWake, SelectInstWake, IssueInstWake, Zenon DEF DispatchStep
<1>5. CASE StationStep
  BY <1>5, RsAcceptCreditWake, AllocateReStationWake, GetForwardingWake, PopInstWake,
     PassingWake, Zenon DEF StationStep
<1>6. CASE FuStep
  BY <1>6, AllocateFuWake, WriteBackWake, AcceptFuncInstWake, ArbitrateWake, Zenon DEF FuStep
<1>7. CASE NextCycle
  BY <1>7, TickWake, Zenon DEF NextCycle
<1>8. CASE UNCHANGED vars
  BY <1>8, StutterWake, Zenon
<1> QED BY <1>1, <1>2, <1>3, <1>4, <1>5, <1>6, <1>7, <1>8, Zenon DEF Next

-----------------------------------------------------------------------------
(* The start.                                                              *)

\* At the start nobody waits, and nothing is on the wires to whoever would.
LEMMA InitWake == ASSUME Init PROVE WakeInv
<1>1. PICK C : /\ C = RenamingInitCredit_ \cup RobInitCredit_ \cup DispatchInitCredit_
                        \cup RsInitCredit_ \cup FuSendInitCredit_
               /\ now = [c \in Source |-> Sent(C, c)] /\ later = [c \in Source |-> << >>]
               /\ fired = {}
  BY Zenon DEF Init, SchedulerInit
<1>2. \A mail \in C : mail[1] \in CreditPort \cup {rs_dispatch_credit_in}
  BY <1>1 DEF RenamingInitCredit_, RobInitCredit_, DispatchInitCredit_, RsInitCredit_,
     FuSendInitCredit_, Post, CreditPort
<1>3. \A mail \in C : mail[1] \notin HeardPort /\ mail[1] \notin UniqueEvent
  <2>1. \A d \in CreditPort \cup {rs_dispatch_credit_in} : d \notin KeyPort /\ d \in Port
    BY NotKey, LinkPortHas, LinkPortsAre, Zenon
  <2>2. \A d \in Port : d \notin UniqueEvent
    BY PortsApart, Zenon DEF Port, Source, UniqueEvent, ZeroDelayPort
  <2> QED BY <1>2, <2>1, <2>2, Zenon DEF KeyPort
<1>4. ASSUME NEW d \in Source, d \in HeardPort \cup UniqueEvent PROVE now[d] = << >> /\ later[d] = << >>
  <2>1. \A mail \in C : mail[1] # d
    BY <1>3, <1>4, Zenon
  <2>2. Sent(C, d) = << >>
    BY <2>1, Zenon DEF Sent
  <2> QED BY <1>1, <1>4, <2>2
<1>5. /\ \A d \in WakePort : now[d] = << >> /\ later[d] = << >> /\ d \notin ZeroDelayPort
      /\ \A p \in Pipe : /\ now[preceding_reservation_inst_in(p)] = << >>
                         /\ later[preceding_reservation_inst_in(p)] = << >>
      /\ now[dispatch_select_events_] = << >> /\ later[dispatch_select_events_] = << >>
      /\ now[dispatch_issue_events_] = << >> /\ later[dispatch_issue_events_] = << >>
  <2>1. \A d \in WakePort : d \in Source /\ d \in HeardPort /\ d \notin ZeroDelayPort
    BY WakePortsAre, Zenon DEF HeardPort, Source
  <2>2. \A p \in Pipe : preceding_reservation_inst_in(p) \in Source /\ preceding_reservation_inst_in(p) \in HeardPort
    BY DEF HeardPort, Source, OneDelayPort
  <2>3. /\ dispatch_select_events_ \in Source /\ dispatch_select_events_ \in UniqueEvent
        /\ dispatch_issue_events_ \in Source /\ dispatch_issue_events_ \in UniqueEvent
    BY Zenon DEF Source, UniqueEvent
  <2> QED BY <1>4, <2>1, <2>2, <2>3, Zenon
<1>6. /\ inst = << >> /\ score_board = {}
      /\ reservation_station = [p \in Pipe |-> << >>]
      /\ dispatch_pending_queue = [p \in Pipe |-> << >>]
  BY Zenon DEF Init, DispatchInit, RsInit
<1>7. /\ DOMAIN inst = {}
      /\ \A p \in Pipe : DOMAIN reservation_station[p] = {} /\ dispatch_pending_queue[p] = << >>
  BY <1>6
<1>8. WakeWires
  <2>1. << >> \in Seq(Seq(DOMAIN inst))
    OBVIOUS
  <2> QED BY <1>5, <2>1, Zenon DEF WakeWires, Typed
<1>9. SameHeard
  BY <1>5, WakePortsAre, Zenon DEF SameHeard
<1>10. HeardRenamed /\ ArrivingInv /\ SentInv /\ PendingInv /\ OpenInv
  BY <1>7, Zenon DEF HeardRenamed, ArrivingInv, SentInv, PendingInv, OpenInv
<1>11. BoardInv /\ StationsInv
  BY <1>6, <1>7, Zenon DEF BoardInv, StationsInv
<1>12. TurnInv
  <2>1. dispatch_select_events_ \notin fired /\ dispatch_issue_events_ \notin fired
    BY <1>1
  <2>2. << >> \in {<< >>, <<Go>>}
    OBVIOUS
  <2> QED BY <1>5, <1>7, <2>1, <2>2, Zenon DEF TurnInv
<1> QED BY <1>8, <1>9, <1>10, <1>11, <1>12, Zenon DEF WakeInv

-----------------------------------------------------------------------------
(* What comes is in the queues and on the wires that NoLostWakeup names.   *)

\* The parts of the line are sequences of instructions.
LEMMA LineHalves ==
  ASSUME NEW S, NEW w \in [1 .. 10 -> Seq(S)]
  PROVE  EarlyLine(w) \in Seq(S) /\ UnitLine(w) \in Seq(S)
<1>1. \A s, t \in Seq(S) : s \o t \in Seq(S)
  OBVIOUS
<1>2. /\ w[1] \in Seq(S) /\ w[2] \in Seq(S) /\ w[3] \in Seq(S) /\ w[4] \in Seq(S)
      /\ w[5] \in Seq(S) /\ w[6] \in Seq(S) /\ w[7] \in Seq(S) /\ w[8] \in Seq(S)
      /\ w[9] \in Seq(S)
  OBVIOUS
<1>3. PICK a \in Seq(S) : a = w[1] \o w[2]
  BY <1>1, <1>2, Zenon
<1>4. PICK b \in Seq(S) : b = a \o w[3]
  BY <1>1, <1>2, Zenon
<1>5. PICK c \in Seq(S) : c = b \o w[4]
  BY <1>1, <1>2, Zenon
<1>6. PICK d \in Seq(S) : d = w[6] \o w[7]
  BY <1>1, <1>2, Zenon
<1>7. PICK e \in Seq(S) : e = d \o w[8]
  BY <1>1, <1>2, Zenon
<1> QED BY <1>1, <1>2, <1>3, <1>4, <1>5, <1>6, <1>7, Zenon DEF EarlyLine, UnitLine

\* An instruction that has not been broadcast waits or executes.
LEMMA UnsaidIsComing ==
  ASSUME FateInv, WakeWires, NEW p \in Pipe
  PROVE  \A i \in DOMAIN inst :
            Unsaid(i, held) \/ ~Absent(i, Instructions(forwarding_reservation_inst_in(p))) =>
               i \in Range(Waiting \o Executing \o Instructions(forwarding_reservation_inst_in(p)))
<1>1. PICK w \in [1 .. 10 -> Seq(DOMAIN inst)] : Lines(w)
  BY UnderWayIs, Zenon
<1>2. forwarding_reservation_inst_in(p) \in WakePort
  BY Zenon DEF WakePort
<1>3. PICK S, a, b, f, g, ab :
         /\ S = Seq(DOMAIN inst) /\ a = Waiting /\ b = Executing
         /\ f = Instructions(write_back_rob_finish_in)
         /\ g = Instructions(forwarding_reservation_inst_in(p)) /\ ab = a \o b
  OBVIOUS
<1>4. a \in S /\ b \in S /\ f \in S /\ g \in S
  <2>1. EarlyLine(w) \in Seq(DOMAIN inst) /\ UnitLine(w) \in Seq(DOMAIN inst)
    BY LineHalves, Zenon
  <2>2. a \in S /\ b \in S
    BY <1>1, <1>3, <2>1, Zenon DEF Lines
  <2>3. held[AtFinishWire] \in Seq(DOMAIN inst)
    BY HeldTyped, PlacesDiffer, Zenon
  <2>4. Instructions(forwarding_reservation_inst_in(p)) \in Seq(DOMAIN inst)
    BY <1>2, WakeWireHas, Zenon
  <2> QED BY <1>3, <2>2, <2>3, <2>4, HeldIs, Zenon
<1>5. ab \in S /\ Parts(ab, a, b)
  <2>1. ab \in S
    BY <1>3, <1>4
  <2> QED BY <1>3, <1>4, <2>1, ConcatParts, Zenon
<1>6. PICK u : u = ab \o f /\ u = UnderWay
  BY <1>3, Zenon DEF UnderWay
<1>7. Parts(u, ab, f)
  BY <1>3, <1>4, <1>5, <1>6, ConcatParts, Zenon
<1>8. PICK c : c = ab \o g /\ c = Waiting \o Executing \o Instructions(forwarding_reservation_inst_in(p))
  BY <1>3, Zenon
<1>9. Parts(c, ab, g)
  BY <1>3, <1>4, <1>5, <1>8, ConcatParts, Zenon
<1> SUFFICES ASSUME NEW i \in DOMAIN inst, Unsaid(i, held) \/ ~Absent(i, g) PROVE ~Absent(i, c)
  BY <1>3, <1>8, RangeHas, Zenon
<1>10. CASE Unsaid(i, held)
  <2>1. Absent(i, f)
    BY <1>3, <1>10, UnsaidNow, HeldIs, Zenon
  <2>2. HasFate(i, Unrenamed, RobWire, Entries, held)
    BY Zenon DEF FateInv, Fates
  <2>3. PICK z \in Place : ~Absent(i, held[z])
    BY <1>10, Zenon DEF Unsaid
  <2>4. \E x \in Place : IsAt(i, x, held)
    <3>1. EarlyPlace \subseteq Place
      BY DEF EarlyPlace, Place
    <3>2. ~Nowhere(i, held)
      BY <2>3, Zenon DEF Nowhere
    <3> QED BY <2>2, <3>1, <3>2, Zenon DEF HasFate, IsFetched, IsRenamed, IsAwaited, IsFinished
  <2>5. ~Absent(i, u)
    BY <1>6, <2>4, FateOnTheWay, SingleOccurs, Zenon
  <2> QED BY <1>7, <1>9, <2>1, <2>5, Zenon DEF Parts
<1>11. CASE ~Absent(i, g)
  BY <1>9, <1>11, Zenon DEF Parts
<1> QED BY <1>10, <1>11

\* So whatever a station's entry waits for will come.
LEMMA WakesAll == ASSUME FateInv, WakeInv PROVE NoLostWakeup
<1> SUFFICES ASSUME NEW p \in Pipe, NEW k \in DOMAIN reservation_station[p],
                    ~reservation_station[p][k].is_issued
             PROVE  LET coming == Range(Waiting \o Executing
                                          \o Instructions(forwarding_reservation_inst_in(p)))
                        willCome(r) == \E i \in coming : inst[i].PhyRd = r
                        entry == reservation_station[p][k]
                    IN /\ entry.rs1_valid \/ willCome(inst[entry.inst].PhyRs1)
                       /\ entry.rs2_valid \/ willCome(inst[entry.inst].PhyRs2)
  BY Zenon DEF NoLostWakeup
<1>1. PICK e, g, c : /\ e = reservation_station[p][k]
                     /\ g = Instructions(forwarding_reservation_inst_in(p))
                     /\ c = Range(Waiting \o Executing
                                    \o Instructions(forwarding_reservation_inst_in(p)))
  OBVIOUS
<1>2. \A i \in DOMAIN inst : Unsaid(i, held) \/ ~Absent(i, g) => i \in c
  BY <1>1, UnsaidIsComing, Zenon DEF WakeInv
<1>3. \A r : Comes(inst, held, r, g) => \E i \in c : inst[i].PhyRd = r
  BY <1>2, Zenon DEF Comes
<1>4. EntrySupplied(inst, held, e, g) /\ ~e.is_issued
  BY <1>1, Zenon DEF WakeInv, StationsInv
<1>5. /\ e.rs1_valid \/ \E i \in c : inst[i].PhyRd = inst[e.inst].PhyRs1
      /\ e.rs2_valid \/ \E i \in c : inst[i].PhyRd = inst[e.inst].PhyRs2
  BY <1>3, <1>4, Zenon DEF EntrySupplied
<1> QED BY <1>1, <1>5, Zenon

-----------------------------------------------------------------------------
(* The theorem.                                                            *)

\* NoLostWakeup, for every number of pipes, every width, every depth and every
\* program without mispredicted branches: the dispatch stage looks at its
\* scoreboard (SelectInst) a cycle before the reservation station hears of the
\* instruction (AllocateReservationStation), and the write back stage's broadcast
\* (Arbitrate) goes to both; whatever the order of the handlers within a cycle, no
\* entry waits for an operand whose broadcast the station has already dropped.
THEOREM CoreLosesNoWakeup ==
  ASSUME WellPredicted PROVE Spec => []NoLostWakeup
<1>1. Init => FateInv /\ WakeInv
  BY InitFates, InitWake
<1>2. FateInv /\ WakeInv /\ [Next]_vars => FateInv' /\ WakeInv'
  BY FateStep, WakeStep
<1>3. FateInv /\ WakeInv => NoLostWakeup
  BY WakesAll
<1> QED BY <1>1, <1>2, <1>3, PTL DEF Spec
=============================================================================
