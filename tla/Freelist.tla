----------------------------- MODULE Freelist ------------------------------
(***************************************************************************)
(* The list of free physical registers of                                  *)
(* src/core/abstract_backend/Freelist.cpp, as operators on a record.       *)
(*                                                                         *)
(*   list, idx                  the speculative list, and how often each   *)
(*                              register is counted to be on it            *)
(*   backup, idx_backup         the list as of the last committed          *)
(*                              instruction, and its counts                *)
(***************************************************************************)
EXTENDS Naturals, Sequences

CONSTANT PhyRegNum

ASSUME PhyRegNumAssumption == PhyRegNum \in Nat \ {0}

\* Register 0 is never on the list: it is the mapping of x0, and of every
\* architectural register before its first write.
PhyReg == 0 .. PhyRegNum - 1

FreelistType ==
    [list : Seq(PhyReg), backup : Seq(PhyReg),
     idx : [PhyReg -> Nat], idx_backup : [PhyReg -> Nat]]

FreelistInit ==
    LET all == [i \in 1 .. PhyRegNum - 1 |-> i]
        counts == [p \in PhyReg |-> IF p = 0 THEN 0 ELSE 1]
    IN [list |-> all, backup |-> all, idx |-> counts, idx_backup |-> counts]

IsEmpty(fl) == fl.list = << >>

Front(fl) == Head(fl.list)

\* Faulty: forgets the committed list.
FaultyPush(fl, token) ==
    [fl EXCEPT !.list = Append(@, token), !.idx[token] = @ + 1]

\* A register released by a committed instruction joins both lists.
Push(fl, token) ==
    [list |-> Append(fl.list, token),
     backup |-> Append(fl.backup, token),
     idx |-> [fl.idx EXCEPT ![token] = @ + 1],
     idx_backup |-> [fl.idx_backup EXCEPT ![token] = @ + 1]]

\* The assertions that end Push.
PushAssertions(fl, token) == fl.idx[token] <= 1 /\ fl.idx_backup[token] <= 1

\* Faulty: counts the register out of the committed list too.
FaultyPop(fl) ==
    [fl EXCEPT !.idx[Head(fl.list)] = @ - 1,
               !.idx_backup[Head(fl.list)] = @ - 1,
               !.list = Tail(@)]

Pop(fl) ==
    [fl EXCEPT !.idx[Head(fl.list)] = @ - 1,
               !.list = Tail(@)]

\* The committed list gives up its own front, not a register it is told.
BackupPop(fl) ==
    [fl EXCEPT !.idx_backup[Head(fl.backup)] = @ - 1,
               !.backup = Tail(@)]

RollBack(fl) == [fl EXCEPT !.list = fl.backup, !.idx = fl.idx_backup]
=============================================================================
