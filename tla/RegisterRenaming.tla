------------------------- MODULE RegisterRenaming --------------------------
(***************************************************************************)
(* Register renaming as src/core/abstract_backend/RenamingStage.cpp does it*)
(* with its Freelist and its RenamingTable, closed by the little it needs  *)
(* of the reorder buffer: instructions commit in the order in which they   *)
(* were renamed, and a flush forgets the ones that have not.               *)
(*                                                                         *)
(* A step is one instruction: one turn of the loop in RenameInst_, one     *)
(* turn of the loop in RobCommit_.  The handlers run to completion, so     *)
(* what holds after every turn holds whenever a handler ends; the handlers *)
(* as wholes, with their credits, are in RenamingStage.                    *)
(*                                                                         *)
(*   fl        Freelist                                                    *)
(*   table     renaming_table_: where the youngest value of each           *)
(*             architectural register is or will be                        *)
(*   backup    renaming_table_backup_: the same as of the last commit      *)
(*   inflight  the renamed instructions that write a register and have not *)
(*             committed, oldest first                                     *)
(***************************************************************************)
EXTENDS RenamingTable, FiniteSets

VARIABLES fl, table, backup, inflight

vars == <<fl, table, backup, inflight>>

Writer == [IsaRd : IsaReg \ {0}, PhyRd : PhyReg, LPhyRd : PhyReg]

-----------------------------------------------------------------------------
Init ==
    /\ fl = FreelistInit
    /\ table = TableInit
    /\ backup = TableInit
    /\ inflight = << >>

\* Rename an instruction that writes isa_rd.  The loop stops at an empty list.
Rename(isa_rd) ==
    /\ ~IsEmpty(fl)
    /\ fl' = RenamedFreelist(fl, isa_rd)
    /\ table' = RenamedTable(fl, table, isa_rd)
    /\ inflight' = IF isa_rd = 0
                     THEN inflight
                     ELSE Append(inflight, [IsaRd |-> isa_rd,
                                            PhyRd |-> RenamedRd(fl, isa_rd),
                                            LPhyRd |-> table[isa_rd]])
    /\ UNCHANGED backup

\* Commit the oldest instruction that writes a register.
Commit ==
    /\ inflight # << >>
    /\ LET inst == Head(inflight) IN
         /\ fl' = CommittedFreelist(fl, inst.PhyRd, inst.LPhyRd)
         /\ backup' = CommittedTable(backup, inst.IsaRd, inst.PhyRd)
    /\ inflight' = Tail(inflight)
    /\ UNCHANGED table

\* Commit an instruction that writes x0: it was renamed to register 0 and took
\* as LPhyRd what the table maps x0 to.
CommitNonWriter ==
    /\ fl' = CommittedFreelist(fl, 0, table[0])
    /\ backup' = CommittedTable(backup, 0, 0)
    /\ UNCHANGED <<table, inflight>>

\* HandleFlush_: both structures return to their committed copies.
HandleFlush_ ==
    /\ fl' = RollBack(fl)
    /\ table' = TableRollBack(table, backup)
    /\ inflight' = << >>
    /\ UNCHANGED backup

Next ==
    \/ \E isa_rd \in IsaReg : Rename(isa_rd)
    \/ Commit
    \/ CommitNonWriter
    \/ HandleFlush_

Spec == Init /\ [][Next]_vars

-----------------------------------------------------------------------------
TypeOK ==
    /\ fl \in FreelistType
    /\ table \in [IsaReg -> PhyReg]
    /\ backup \in [IsaReg -> PhyReg]
    /\ inflight \in Seq(Writer)

\* The assertions in Push: no register is ever on a list twice, counted there
\* by the counters the code keeps beside the lists.
NoTokenTwice == \A p \in PhyReg : fl.idx[p] <= 1 /\ fl.idx_backup[p] <= 1

\* The counters count: a register is counted once when it is on the list, and
\* not at all when it is not.  Otherwise the assertions in Push would say
\* nothing about the lists.
CountersMatchLists ==
    \A p \in PhyReg :
        /\ fl.idx[p] = IF \E i \in 1 .. Len(fl.list) : fl.list[i] = p THEN 1 ELSE 0
        /\ fl.idx_backup[p] =
              IF \E i \in 1 .. Len(fl.backup) : fl.backup[i] = p THEN 1 ELSE 0

\* BackupPop() takes whatever is at the front of the committed list, and what
\* is there is always the register of the instruction being committed: the
\* committed list is the registers of the in-flight writers, oldest first,
\* followed by the speculative list.  So RollBack() gives back exactly the
\* registers of the flushed instructions.
BackupIsInflightThenFree ==
    /\ Len(fl.backup) = Len(inflight) + Len(fl.list)
    /\ \A i \in 1 .. Len(inflight) : fl.backup[i] = inflight[i].PhyRd
    /\ \A i \in 1 .. Len(fl.list) : fl.list[i] = fl.backup[Len(inflight) + i]

\* i is the youngest writer of r among the first n instructions of a sequence.
YoungestWriter(insts, r, n, i) ==
    /\ i \in 1 .. n
    /\ insts[i].IsaRd = r
    /\ \A j \in i + 1 .. n : insts[j].IsaRd # r

NoWriter(insts, r, n) == \A j \in 1 .. n : insts[j].IsaRd # r

\* The table maps each architectural register to the register of its youngest
\* in-flight writer, and to its committed one when it has none: the mapping
\* that the sources of the next instruction are read through.
TableIsYoungest ==
    \A r \in IsaReg :
        /\ NoWriter(inflight, r, Len(inflight)) => table[r] = backup[r]
        /\ \A i \in 1 .. Len(inflight) :
              YoungestWriter(inflight, r, Len(inflight), i) =>
                 table[r] = inflight[i].PhyRd

\* LPhyRd is the register of the previous writer of the same architectural
\* register, in flight or committed.
LPhyRdIsPrevious ==
    \A k \in 1 .. Len(inflight) :
        LET r == inflight[k].IsaRd IN
        /\ NoWriter(inflight, r, k - 1) => inflight[k].LPhyRd = backup[r]
        /\ \A i \in 1 .. k - 1 :
              YoungestWriter(inflight, r, k - 1, i) =>
                 inflight[k].LPhyRd = inflight[i].PhyRd

\* A register that may be handed out is nobody's: not mapped by the table an
\* instruction's sources are renamed with, not mapped by the committed table a
\* flush returns to, not the target of an instruction in flight, and not one
\* that an instruction in flight will release.
FreeIsUnreachable ==
    \A i \in 1 .. Len(fl.list) :
        LET p == fl.list[i] IN
        /\ p # 0
        /\ \A r \in IsaReg : table[r] # p /\ backup[r] # p
        /\ \A k \in 1 .. Len(inflight) :
              inflight[k].PhyRd # p /\ inflight[k].LPhyRd # p

\* No register is lost: each is on the committed list or is the committed
\* mapping of an architectural register.
NoRegisterLeaks ==
    \A p \in PhyReg \ {0} :
        \/ \E i \in 1 .. Len(fl.backup) : fl.backup[i] = p
        \/ \E r \in IsaReg : backup[r] = p

\* With more physical than architectural registers the stage never waits for
\* a register that nobody will release: when the list is empty there is a
\* writer in flight, and its commit, or a flush, refills the list.
EmptyListMeansWriterInFlight ==
    (PhyRegNum > IsaRegNum /\ IsEmpty(fl)) => inflight # << >>

-----------------------------------------------------------------------------
(* The inductive invariant.  The properties above speak of positions in the *)
(* lists; what makes them survive a step is that the committed list and the *)
(* committed table never share a register, and that of the in-flight        *)
(* instructions every register has a youngest writer or none.               *)

CommittedListDistinct ==
    /\ \A i \in 1 .. Len(fl.backup) : fl.backup[i] # 0
    /\ \A i, j \in 1 .. Len(fl.backup) : fl.backup[i] = fl.backup[j] => i = j

CommittedTableApart ==
    /\ backup[0] = 0
    /\ \A r \in IsaReg : \A i \in 1 .. Len(fl.backup) : fl.backup[i] # backup[r]
    /\ \A r, s \in IsaReg : (backup[r] = backup[s] /\ backup[r] # 0) => r = s

WriterIsDecided ==
    \A r \in IsaReg : \A n \in 0 .. Len(inflight) :
        \/ NoWriter(inflight, r, n)
        \/ \E i \in 1 .. n : YoungestWriter(inflight, r, n, i)

IInv ==
    /\ TypeOK
    /\ BackupIsInflightThenFree
    /\ CommittedListDistinct
    /\ CommittedTableApart
    /\ WriterIsDecided
    /\ TableIsYoungest
    /\ LPhyRdIsPrevious
    /\ NoRegisterLeaks
    /\ CountersMatchLists
=============================================================================
