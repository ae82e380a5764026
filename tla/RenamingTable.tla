--------------------------- MODULE RenamingTable ---------------------------
(***************************************************************************)
(* The mapping of architectural to physical registers                      *)
(* (src/core/abstract_backend/RenamingTable.cpp), and what renaming and    *)
(* committing one instruction does to it and to the free list.             *)
(***************************************************************************)
EXTENDS Freelist

CONSTANT IsaRegNum

ASSUME IsaRegNumAssumption == IsaRegNum \in Nat \ {0}

IsaReg == 0 .. IsaRegNum - 1

TableInit == [r \in IsaReg |-> 0]

(* What renaming and committing one instruction does to the lists and to   *)
(* the tables, given the instruction's register fields.                    *)

\* RenameInstImp_: the register the instruction will write, and the lists and
\* the table afterwards.
RenamedRd(f, isa_rd) == IF isa_rd # 0 THEN Front(f) ELSE 0

RenamedFreelist(f, isa_rd) == IF isa_rd # 0 THEN Pop(f) ELSE f

RenamedTable(f, t, isa_rd) ==
    IF isa_rd # 0 THEN [t EXCEPT ![isa_rd] = Front(f)] ELSE t

\* Faulty: the committed list keeps the register that was handed out.
KeepingCommittedFreelist(f, phy_rd, l_phy_rd) ==
    IF l_phy_rd # 0 THEN Push(f, l_phy_rd) ELSE f

\* Faulty: releases the register just written instead of the one it replaces.
ReleasingNewFreelist(f, phy_rd, l_phy_rd) ==
    LET popped == IF phy_rd # 0 THEN BackupPop(f) ELSE f
    IN IF l_phy_rd # 0 THEN Push(popped, phy_rd) ELSE popped

\* Faulty: releases nothing.
LeakingFreelist(f, phy_rd, l_phy_rd) == IF phy_rd # 0 THEN BackupPop(f) ELSE f

\* RobCommit_: the committed list gives up the front for the register written
\* and both lists take back the register that the write made unreachable.
CommittedFreelist(f, phy_rd, l_phy_rd) ==
    LET popped == IF phy_rd # 0 THEN BackupPop(f) ELSE f
    IN IF l_phy_rd # 0 THEN Push(popped, l_phy_rd) ELSE popped

CommittedTable(b, isa_rd, phy_rd) == [b EXCEPT ![isa_rd] = phy_rd]

\* Faulty: keeps the speculative mapping.
FaultyTableRollBack(t, b) == t

\* RenamingTable::RollBack copies the committed table entry by entry.
TableRollBack(t, b) == [r \in DOMAIN t |-> b[r]]
=============================================================================
