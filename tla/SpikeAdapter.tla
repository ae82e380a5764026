---------------------------- MODULE SpikeAdapter ----------------------------
(***************************************************************************)
(* The part of src/utils/spikeInterface/src/spikeInterface.cpp that lets   *)
(* Spike run down a mispredicted path and come back.  Two simulators run   *)
(* the program: spike_sim, which the frontend steers, and spike_sim_fast,  *)
(* which only ever takes the steps of the right path and is what spike_sim *)
(* is compared with.                                                       *)
(*                                                                         *)
(* A simulator is its pc, its registers (one value for all of RegEqual_)   *)
(* and its memory, byte by byte.  CSRs are left out: getCsrHook keeps a    *)
(* mispredicted path from writing them, and the two counters CsrRollBack_  *)
(* sets are never compared.                                                *)
(***************************************************************************)
EXTENDS DataBackup

CONSTANTS
    PcNum,      \* addresses of instructions
    Value,      \* what a byte, and the registers, may hold: 0 .. n
    WordNum,    \* words of memory
    WordBytes   \* bytes per word (8)

ASSUME SpikeAssumption ==
    /\ PcNum \in Nat \ {0}
    /\ Value \subseteq Nat /\ 0 \in Value
    /\ WordNum \in Nat \ {0}
    /\ WordBytes \in {1, 2, 4, 8}

VARIABLES
    spike_sim, spike_sim_fast,
    npc,                  \* npc_
    is_prediction_miss,
    memory_backup, reg_backup

adapterVars == <<spike_sim, spike_sim_fast, npc, is_prediction_miss, memory_backup,
                 reg_backup>>

Pc == 0 .. PcNum - 1

\* Memory does not begin at 0, which marks an entry that is none.
Addr == WordBytes .. WordBytes * (WordNum + 1) - 1

\* The widths of an access: powers of two up to a word.
Access == {al \in Addr \X (1 .. WordBytes) :
             al[2] \in {1, 2, 4, 8} /\ al[1] % al[2] = 0}

Bytes(addr, len) == addr .. addr + len - 1

AdapterInit ==
    /\ spike_sim = [pc |-> 0, reg |-> 0, mem |-> [a \in Addr |-> 0]]
    /\ spike_sim_fast = spike_sim
    /\ npc = 0
    /\ is_prediction_miss = FALSE
    /\ memory_backup = EmptyBackup
    /\ reg_backup = << >>

-----------------------------------------------------------------------------
(* One instruction: spikeStep.                                             *)

\* What an instruction does to a simulator, whatever it is.
Effect ==
    [kind : {"reg"}, value : Value]
      \cup {[kind |-> "store", addr |-> al[1], len |-> al[2], value |-> v] :
              al \in Access, v \in Value}

Executed(s, effect, next) ==
    IF effect.kind = "reg"
      THEN [s EXCEPT !.pc = next, !.reg = effect.value]
      ELSE [s EXCEPT !.pc = next,
                     !.mem = [a \in Addr |-> IF a \in Bytes(effect.addr, effect.len)
                                               THEN effect.value ELSE @[a]]]

MemoryEntry(addr, len) ==
    [addr |-> addr, len |-> len, data |-> [i \in 0 .. len - 1 |-> spike_sim.mem[addr + i]]]

\* A store on a mispredicted path leaves what it overwrites in the log, if the
\* log has a checkpoint.
catchDataBeforeWriteHook(effect) ==
    IF effect.kind = "store" /\ is_prediction_miss /\ ~BackupIsEmpty(memory_backup)
      THEN BackupPush(memory_backup, MemoryEntry(effect.addr, effect.len))
      ELSE memory_backup

\* The fast simulator steps along only while the path is right.
spikeStep(effect, next) ==
    /\ memory_backup' = catchDataBeforeWriteHook(effect)
    /\ spike_sim' = Executed(spike_sim, effect, next)
    /\ spike_sim_fast' = IF is_prediction_miss THEN spike_sim_fast
                         ELSE Executed(spike_sim_fast, effect, next)
    /\ UNCHANGED <<npc, is_prediction_miss, reg_backup>>

-----------------------------------------------------------------------------
(* MemoryRollBack_.  The log is unwound newest first into a map from       *)
(* aligned addresses to one word each, with a mask of the bytes in it.     *)

NoMemoryEntry == [addr |-> 0, len |-> 0, data |-> << >>]

\* Faulty: where two entries overlap the newer one stays.
FaultyMerged(map, entry) ==
    LET offset == entry.addr % WordBytes
        align == entry.addr - offset
        mask == Bytes(offset, entry.len)
        old == IF align \in DOMAIN map THEN map[align]
               ELSE [mask |-> {}, data |-> [i \in 0 .. WordBytes - 1 |-> 0]]
        word == [mask |-> old.mask \cup mask,
                 data |-> [i \in 0 .. WordBytes - 1 |->
                             IF i \in mask \ old.mask THEN entry.data[i - offset] ELSE old.data[i]]]
    IN [a \in DOMAIN map \cup {align} |-> IF a = align THEN word ELSE map[a]]

\* The bytes of an older entry replace those of the newer ones it overlaps.
Merged(map, entry) ==
    LET offset == entry.addr % WordBytes
        align == entry.addr - offset
        mask == Bytes(offset, entry.len)
        old == IF align \in DOMAIN map THEN map[align]
               ELSE [mask |-> {}, data |-> [i \in 0 .. WordBytes - 1 |-> 0]]
        word == [mask |-> old.mask \cup mask,
                 data |-> [i \in 0 .. WordBytes - 1 |->
                             IF i \in mask THEN entry.data[i - offset] ELSE old.data[i]]]
    IN [a \in DOMAIN map \cup {align} |-> IF a = align THEN word ELSE map[a]]

\* A turn of the loop over GetBackupEntry.
UnwindTurn(s) ==
    IF BackupIsEmpty(s.backup) THEN s
    ELSE LET got == GetBackupEntry(s.backup, NoMemoryEntry) IN
         [backup |-> got.backup,
          map |-> IF got.entry.addr = 0 THEN s.map ELSE Merged(s.map, got.entry)]

Unwound(b, turns) ==
    LET after[n \in 0 .. turns] ==
          IF n = 0 THEN [backup |-> b, map |-> [a \in {} |-> 0]] ELSE UnwindTurn(after[n - 1])
    IN after[turns]

\* Every turn takes an entry or an empty checkpoint.
Turns(b) ==
    LET upTo[n \in 0 .. Len(b.data)] ==
          IF n = 0 THEN 0 ELSE upTo[n - 1] + 1 + Len(b.data[n])
    IN upTo[Len(b.data)]

memory_clean_backup_map(b) == Unwound(b, Turns(b)).map

BackupAfterRollBack(b) == Unwound(b, Turns(b)).backup

\* The stores at the end, byte by byte.
MemoryRollBack_(b) ==
    LET map == memory_clean_backup_map(b) IN
    [a \in Addr |->
       LET offset == a % WordBytes
           align == a - offset
       IN IF align \in DOMAIN map /\ offset \in map[align].mask
            THEN map[align].data[offset] ELSE spike_sim.mem[a]]

-----------------------------------------------------------------------------
setNpc(n) ==
    /\ npc' = n
    /\ spike_sim' = [spike_sim EXCEPT !.pc = n]

\* MakeRegBackup_ copies the registers and not the pc.
MakeBackup ==
    /\ memory_backup' = MakeBackupEntry(memory_backup)
    /\ reg_backup' = Append(reg_backup, spike_sim.reg)

\* The log after n branches that were predicted right have committed.
Dropped(n) ==
    LET drop[i \in 0 .. n] == IF i = 0 THEN memory_backup ELSE BackupPop(drop[i - 1])
    IN drop[n]

DroppedRegs(n) == SubSeq(reg_backup, n + 1, Len(reg_backup))

\* Faulty: the registers come back from the newest checkpoint.
FaultyRegRollBack_(regs) == IF regs = << >> THEN Value ELSE {regs[Len(regs)]}

\* RegRollBack_: the registers of the oldest checkpoint.  An empty queue has no
\* front, and what is read there may be anything.
RegRollBack_(regs) == IF regs = << >> THEN Value ELSE {regs[1]}

\* The assertion at its end.
RegAssertion(regs) == RegRollBack_(regs) = {spike_sim_fast.reg}

\* BranchResolve for the branches of a group: n that were predicted right, and
\* after them one that was not, if missed.  RollBack restores the memory, then
\* the pc and the registers, and no checkpoint is left.
BranchResolve(n, missed) ==
    /\ IF missed
         THEN \E reg \in RegRollBack_(DroppedRegs(n)) :
                /\ spike_sim' = [pc |-> npc, reg |-> reg, mem |-> MemoryRollBack_(Dropped(n))]
                /\ memory_backup' = BackupAfterRollBack(Dropped(n))
                /\ reg_backup' = << >>
         ELSE /\ memory_backup' = Dropped(n)
              /\ reg_backup' = DroppedRegs(n)
              /\ UNCHANGED spike_sim
    /\ UNCHANGED <<spike_sim_fast, npc, is_prediction_miss>>
=============================================================================
