------------------------- MODULE BackendProperties --------------------------
(***************************************************************************)
(* What makes the core of Backend correct.                                 *)
(***************************************************************************)
EXTENDS Backend

-----------------------------------------------------------------------------
(* Where the instructions and the credits are.                             *)

\* Everything on its way to port c, in the order in which it will arrive.
OnTheWay(c) == now[c] \o later[c]

Instructions(c) == Joined(OnTheWay(c))

CreditsOn(c) == SumOf(OnTheWay(c))

\* The stations' credits share a port, each with the name of the station.
StationCredits(p) ==
    LET pairs == OnTheWay(rs_dispatch_credit_in)
    IN SumOf([k \in DOMAIN pairs |-> IF pairs[k].name = p THEN pairs[k].credit ELSE 0])

\* The instructions of a queue's entries that have not been issued.
Unissued(entries) ==
    PickAt([k \in DOMAIN entries |-> entries[k].inst],
           {k \in DOMAIN entries : ~entries[k].is_issued})

Unrenamed == renaming_stage_queue \o Instructions(preceding_renaming_inst_in)

\* Renamed, and not yet given to a function unit.  What the pipes hold is a
\* sequence of sequences, one for each pipe.
Waiting ==
    Instructions(preceding_dispatch_inst_in) \o Unissued(inst_queue)
      \o Joined(dispatch_pending_queue)
      \o Joined([p \in Pipe |-> Instructions(preceding_reservation_inst_in(p))])
      \o Joined([p \in Pipe |-> Unissued(reservation_station[p])])

\* Given to a function unit, and not yet broadcast.
Executing ==
    Joined([p \in Pipe |-> Instructions(preceding_func_inst_in(p))])
      \o Joined(alu_queue)
      \o Joined([k \in DOMAIN OnTheWay(preceding_write_back_inst_in) |->
                   OnTheWay(preceding_write_back_inst_in)[k].inst_group])
      \o Joined(inst_queue_map)

\* Instructions retire from the front of the program.
Retired == Len(inst) - Len(Unrenamed) - Len(inflight)

-----------------------------------------------------------------------------
TypeOK ==
    /\ inst \in Seq([Fu : STRING, IsaRd : IsaReg, IsaRs1 : IsaReg, IsaRs2 : IsaReg,
                     IsMissPrediction : BOOLEAN, PhyRd : PhyReg, LPhyRd : PhyReg,
                     PhyRs1 : PhyReg, PhyRs2 : PhyReg, RobTag : 0 .. RobDepth - 1,
                     IsRs1Forward : BOOLEAN, IsRs2Forward : BOOLEAN])
    /\ {fetch_credit, dispatch_credit, rob_credit} \subseteq Nat
    /\ credit_map \in [Pipe -> Nat] /\ rs_credit \in [Pipe -> Nat]
    /\ free_list \in FreelistType
    /\ renaming_table \in [IsaReg -> PhyReg]
    /\ renaming_table_backup \in [IsaReg -> PhyReg]
    /\ rob \in RobQueue!LoopQueueType
    /\ score_board \subseteq PhyReg \ {0}
    /\ fired \subseteq UniqueEvent

\* Along every credit link (into the renaming queue, the reorder buffer, the
\* dispatch queue, and for each pipe the reservation station and the function
\* unit): the sender's counter, the credits on their way back, the instructions
\* on their way and the occupied places always add up to the depth.  The dispatch
\* stage gives up a place of a station before it sends the instruction.  So the
\* assertion in LoopQueue::push never fails, no queue outgrows its depth, and no
\* place is lost.
CreditsConserved ==
    /\ fetch_credit + CreditsOn(backend_fetch_credit_in) + Len(Unrenamed) = RenameDepth
    /\ rob_credit + CreditsOn(rob_renaming_credit_in)
         + Len(Instructions(preceding_rob_inst_in)) + RobQueue!size(rob) = RobDepth
    /\ dispatch_credit + CreditsOn(following_renaming_credit_in)
         + Len(Instructions(preceding_dispatch_inst_in)) + Len(Unissued(inst_queue))
         = DispatchDepth
    /\ \A p \in Pipe :
          /\ credit_map[p] + StationCredits(p) + Len(dispatch_pending_queue[p])
               + Len(Instructions(preceding_reservation_inst_in(p)))
               + Len(Unissued(reservation_station[p])) = RsDepth
          /\ rs_credit[p] + CreditsOn(following_reservation_credit_in(p))
               + Len(Instructions(preceding_func_inst_in(p))) + Len(alu_queue[p]) = FuDepth

\* The reorder buffer waits for exactly the instructions that are under way, and
\* each of those is in one place only: none is lost between two units, issued by
\* two stations, or sent twice.
RobAwaitsWhatIsUnderWay ==
    LET underWay == Waiting \o Executing \o Instructions(write_back_rob_finish_in)
        entries == RobQueue!Contents(rob)
        awaited == {entries[k].inst : k \in {j \in DOMAIN entries : ~entries[j].finish}}
    IN /\ Range(underWay) = awaited \cup Range(Instructions(preceding_rob_inst_in))
       /\ Cardinality(Range(underWay)) = Len(underWay)

\* The tag an instruction carries names its own entry from the moment it can be
\* executed until it is marked finished, however often the ring has wrapped.
RobTagIsOwn ==
    \A i \in Range(Executing \o Instructions(write_back_rob_finish_in)) :
        /\ inst[i].RobTag \in RobQueue!LiveSlots(rob)
        /\ rob.dataList[inst[i].RobTag] = [inst |-> i, finish |-> FALSE]

\* The register of an instruction that the dispatch stage has taken is busy until
\* its result is broadcast, although AllocateInst_ and FuncUnitBack_ set and clear
\* the bits in no fixed order and registers are handed out again: what clears a
\* bit is never the result of an earlier writer of the register.
BusyUntilBroadcast ==
    LET taken == Range(Waiting \o Executing) \ Range(Instructions(preceding_dispatch_inst_in))
    IN \A i \in taken : inst[i].PhyRd \in score_board \cup {0}

\* An entry that waits for an operand will be told: the writer of the register is
\* still to be broadcast, or its broadcast is on its way to this very station.
\* (The dispatch stage looks at its scoreboard a cycle before the station hears
\* of the instruction, and the broadcast goes to both.)
NoLostWakeup ==
    \A p \in Pipe :
        LET coming == Range(Waiting \o Executing
                              \o Instructions(forwarding_reservation_inst_in(p)))
            willCome(r) == \E i \in coming : inst[i].PhyRd = r
        IN \A k \in DOMAIN reservation_station[p] :
              LET entry == reservation_station[p][k] IN
              ~entry.is_issued =>
                 /\ entry.rs1_valid \/ willCome(inst[entry.inst].PhyRs1)
                 /\ entry.rs2_valid \/ willCome(inst[entry.inst].PhyRs2)

\* The registers as the proofs about RegisterRenaming see them.
WriterOf(i) ==
    [IsaRd |-> inst[i].IsaRd, PhyRd |-> inst[i].PhyRd, LPhyRd |-> inst[i].LPhyRd]

InflightWriters ==
    LET writers == PickAt(inflight, {k \in DOMAIN inflight : inst[inflight[k]].IsaRd # 0})
    IN [k \in DOMAIN writers |-> WriterOf(writers[k])]

Renaming ==
    INSTANCE RegisterRenaming WITH fl <- free_list, table <- renaming_table,
                                   backup <- renaming_table_backup,
                                   inflight <- InflightWriters

\* In the whole core, with groups of instructions renamed and committed at once,
\* free registers are nobody's and none leaks.
RegistersAreSafe ==
    /\ Renaming!NoTokenTwice
    /\ Renaming!BackupIsInflightThenFree
    /\ Renaming!FreeIsUnreachable
    /\ Renaming!NoRegisterLeaks

\* One instruction at a time the stage takes exactly the steps of
\* RegisterRenaming, so that what is proved of those holds here.
ImplementsRegisterRenaming == Renaming!Spec

\* The core implements the dataflow machine: with physical registers, scoreboard,
\* forwarding and out-of-order issue no instruction starts before the producers
\* of its operands in program order are done, and all retire in program order.
OperationOf(i) == [IsaRd |-> i.IsaRd, IsaRs1 |-> i.IsaRs1, IsaRs2 |-> i.IsaRs2]

NotStarted == Range(Unrenamed) \cup Range(Waiting)

Dataflow ==
    INSTANCE DataflowCore WITH
        Operation <- {OperationOf(k) : k \in UNION Range(InstKind)},
        MaxFetch <- FetchWidth,
        program <- [i \in DOMAIN inst |-> OperationOf(inst[i])],
        started <- DOMAIN inst \ NotStarted,
        done <- DOMAIN inst \ (NotStarted \cup Range(Executing)),
        retired <- Retired

ImplementsDataflowCore == Dataflow!Spec

\* The simulation ends (no event is left) only when the program has: no unit
\* goes to sleep with work in a queue and nobody to wake it.
StopsOnlyWhenDone == Stopped => Retired = InstNum

\* Every program is fetched, executed and retired to its end.  So the assertion
\* on stall_cycle_count_ never fails for good: a reorder buffer that holds
\* instructions goes on to commit them.
ProgramsEnd == <>[](Retired = InstNum)
=============================================================================
