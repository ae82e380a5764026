-------------------------- MODULE SpeculativeFetch --------------------------
(***************************************************************************)
(* PerfectFrontend with is_speculation set and Spike behind it: the        *)
(* frontend predicts that no branch is taken, lets Spike run on, and takes *)
(* it back when the branch commits.  Of the backend only the branches      *)
(* matter: it commits them in order, and a flush forgets the rest.         *)
(*                                                                         *)
(*   fetch_nop_inst   SpikeInstGenerator gives out nops                    *)
(*   branches         the branches fetched and not committed, oldest first *)
(*   committing       the group of branches that Rob has just sent         *)
(*   ports            which of backend_bpu_inst_in and                     *)
(*                    backend_redirect_pc_inst_in are still to be handled  *)
(*   flushing         a flush is on its way through the backend            *)
(*   fetched          instructions fetched, at most InstNum                *)
(***************************************************************************)
EXTENDS SpikeAdapter, FiniteSets

CONSTANTS InstNum, RobWidth

ASSUME FetchAssumption == InstNum \in Nat /\ RobWidth \in Nat \ {0}

VARIABLES fetch_nop_inst, branches, committing, ports, flushing, fetched

fetchVars == <<fetch_nop_inst, branches, committing, ports, flushing, fetched>>

vars == <<adapterVars, fetchVars>>

Init ==
    /\ AdapterInit
    /\ fetch_nop_inst = FALSE
    /\ branches = << >>
    /\ committing = << >>
    /\ ports = {}
    /\ flushing = FALSE
    /\ fetched = 0

\* The ports go before the event that produces: both messages of a commit are
\* handled before the next instruction is fetched.
CanFetch ==
    /\ ports = {}
    /\ fetched < InstNum
    /\ fetched' = fetched + 1

FallThrough(pc) == (pc + 1) % PcNum

-----------------------------------------------------------------------------
(* ProduceInst, an instruction at a time, with getNextInst of the generator*)

FetchPlain(effect) ==
    /\ CanFetch
    /\ ~fetch_nop_inst
    /\ spikeStep(effect, FallThrough(spike_sim.pc))
    /\ UNCHANGED <<fetch_nop_inst, branches, committing, ports, flushing>>

\* A CSR instruction on a wrong path is the last that Spike gives: nops from
\* now on.  It writes no CSR, but it may write a register.
FetchCsrOnWrongPath(effect) ==
    /\ CanFetch
    /\ is_prediction_miss /\ ~fetch_nop_inst
    /\ effect.kind = "reg"
    /\ spikeStep(effect, FallThrough(spike_sim.pc))
    /\ fetch_nop_inst' = TRUE
    /\ UNCHANGED <<branches, committing, ports, flushing>>

\* Spike has had nothing to give for ten turns on a wrong path: nops from now
\* on.
FetchNopOnWrongPath ==
    /\ CanFetch
    /\ is_prediction_miss \/ fetch_nop_inst
    /\ fetch_nop_inst' = TRUE
    /\ UNCHANGED <<adapterVars, branches, committing, ports, flushing>>

\* excptionHook: an instruction that traps on a wrong path gives nothing and is
\* stepped over, for the spike adapter and not only for Spike.
SkipTrapOnWrongPath ==
    /\ ports = {}
    /\ is_prediction_miss /\ ~fetch_nop_inst
    /\ setNpc(FallThrough(spike_sim.pc))
    /\ UNCHANGED <<spike_sim_fast, is_prediction_miss, memory_backup, reg_backup, fetchVars>>

\* Faulty: no checkpoint for a branch that is predicted right.
FaultyFetchBranch(target) ==
    /\ CanFetch
    /\ ~fetch_nop_inst
    /\ LET predict_npc == FallThrough(spike_sim.pc)
           missed == predict_npc # target
       IN /\ IF missed THEN MakeBackup ELSE UNCHANGED <<memory_backup, reg_backup>>
          /\ setNpc(predict_npc)
          /\ spike_sim_fast' = IF is_prediction_miss THEN spike_sim_fast
                               ELSE [spike_sim_fast EXCEPT !.pc = target]
          /\ is_prediction_miss' = (is_prediction_miss \/ missed)
          /\ branches' = Append(branches, [SpikeNpc |-> target, missed |-> missed])
    /\ UNCHANGED <<fetch_nop_inst, committing, ports, flushing>>

\* A branch to target.  Spike takes it; then the frontend makes a backup and
\* sends Spike down the other way if the prediction says so.
FetchBranch(target) ==
    /\ CanFetch
    /\ ~fetch_nop_inst
    /\ LET predict_npc == FallThrough(spike_sim.pc)
           missed == predict_npc # target
       IN /\ MakeBackup
          /\ setNpc(predict_npc)
          /\ spike_sim_fast' = IF is_prediction_miss THEN spike_sim_fast
                               ELSE [spike_sim_fast EXCEPT !.pc = target]
          /\ is_prediction_miss' = (is_prediction_miss \/ missed)
          /\ branches' = Append(branches, [SpikeNpc |-> target, missed |-> missed])
    /\ UNCHANGED <<fetch_nop_inst, committing, ports, flushing>>

-----------------------------------------------------------------------------
(* Rob::Commit_, as far as it is about branches.                           *)

\* Up to RobWidth branches, none after a mispredicted one.
CommitGroups ==
    {n \in 1 .. Len(branches) : n <= RobWidth /\ \A i \in 1 .. n - 1 : ~branches[i].missed}

\* The branches predicted right leave the buffer, a mispredicted one stays until
\* the flush.
CommitBranches(n) ==
    /\ ports = {}
    /\ n \in CommitGroups
    /\ committing' = SubSeq(branches, 1, n)
    /\ IF branches[n].missed
         THEN /\ ports' = {"bpu", "redirect"}
              /\ flushing' = TRUE
              /\ branches' = SubSeq(branches, n, Len(branches))
         ELSE /\ ports' = {"bpu"}
              /\ branches' = SubSeq(branches, n + 1, Len(branches))
              /\ UNCHANGED flushing
    /\ UNCHANGED <<adapterVars, fetch_nop_inst, fetched>>

LastMissed == committing[Len(committing)].missed

RightlyPredicted == IF LastMissed THEN Len(committing) - 1 ELSE Len(committing)

BranchCommit ==
    /\ "bpu" \in ports
    /\ BranchResolve(RightlyPredicted, LastMissed)
    /\ ports' = ports \ {"bpu"}
    /\ UNCHANGED <<fetch_nop_inst, branches, committing, flushing, fetched>>

\* Faulty: the generator is not told to stop giving nops.
FaultyRedirectPc ==
    /\ "redirect" \in ports
    /\ setNpc(committing[Len(committing)].SpikeNpc)
    /\ is_prediction_miss' = FALSE
    /\ ports' = ports \ {"redirect"}
    /\ UNCHANGED <<spike_sim_fast, memory_backup, reg_backup, fetch_nop_inst, branches,
                   committing, flushing, fetched>>

RedirectPc ==
    /\ "redirect" \in ports
    /\ setNpc(committing[Len(committing)].SpikeNpc)
    /\ is_prediction_miss' = FALSE
    /\ fetch_nop_inst' = FALSE
    /\ ports' = ports \ {"redirect"}
    /\ UNCHANGED <<spike_sim_fast, memory_backup, reg_backup, branches, committing, flushing,
                   fetched>>

\* The flush reaches the backend.
Flush ==
    /\ flushing
    /\ ports = {}
    /\ flushing' = FALSE
    /\ branches' = << >>
    /\ UNCHANGED <<adapterVars, fetch_nop_inst, committing, ports, fetched>>

-----------------------------------------------------------------------------
Step ==
    \/ \E effect \in Effect : FetchPlain(effect)
    \/ \E effect \in Effect : FetchCsrOnWrongPath(effect)
    \/ FetchNopOnWrongPath
    \/ SkipTrapOnWrongPath
    \/ \E target \in Pc : FetchBranch(target)
    \/ \E n \in CommitGroups : CommitBranches(n)

Handle == BranchCommit \/ RedirectPc \/ Flush

\* What the rollback is made for: the flush comes before anything else is
\* fetched or committed.
Next == (~flushing /\ Step) \/ Handle

Spec == Init /\ [][Next]_vars

\* What the backend does: the flush comes two cycles later, and in between the
\* frontend fetches and the mispredicted branch commits again.
LateFlushSpec == Init /\ [][Step \/ Handle]_vars

-----------------------------------------------------------------------------
Branch == [SpikeNpc : Pc, missed : BOOLEAN]

\* The assertion at the end of RegRollBack_, where a mispredicted branch is
\* about to be taken back: the registers of the checkpoint it finds are those
\* of the simulator that never left the right path.
RegRollBackAssertion ==
    ("bpu" \in ports /\ LastMissed /\ reg_backup # << >>) =>
        RegAssertion(DroppedRegs(RightlyPredicted))

\* On the right path the two simulators agree: in the pc, the registers and
\* every byte of memory.  So a rollback undoes all that the wrong path did,
\* in whichever order the two messages of its commit are handled.
SimulatorsAgree == (~is_prediction_miss /\ ports = {}) => spike_sim = spike_sim_fast

\* Unwinding the log always leads back to the memory of the right path, at
\* any depth of wrong branches and after any number of commits: what
\* MemoryRollBack_ asserts, and that it misses no byte.  Between two calls the
\* log is stable, which each of MakeBackupEntry, Push and Pop asserts.
LogLeadsBack ==
    /\ memory_backup.stable
    /\ MemoryRollBack_(memory_backup) = spike_sim_fast.mem

\* The checkpoints are those of the branches that have not been resolved, in
\* the same order in both queues.  On a wrong path there is one, so that no
\* store goes unlogged.
Unresolved ==
    (IF "bpu" \in ports THEN RightlyPredicted ELSE 0)
      + (IF flushing /\ "bpu" \notin ports THEN 0 ELSE Len(branches))

CheckpointPerBranch ==
    /\ Len(memory_backup.data) = Unresolved
    /\ Len(reg_backup) = Unresolved
    /\ (is_prediction_miss /\ ports = {}) => ~BackupIsEmpty(memory_backup)

\* Nops are given out on a wrong path only: otherwise instructions of the
\* program would be replaced by nops and never run.
NopsOnlyOnWrongPath == fetch_nop_inst => is_prediction_miss

-----------------------------------------------------------------------------
(* The inductive invariant behind RegRollBackAssertion.  The checkpoint of *)
(* the oldest mispredicted branch holds the registers of the simulator     *)
(* that stopped there, and it stays in its place in the queue while        *)
(* younger checkpoints join and older ones leave.                          *)

IsRecord(s) == s = [pc |-> s.pc, reg |-> s.reg, mem |-> s.mem] /\ s.reg \in Value

FetchTypeOK ==
    /\ IsRecord(spike_sim) /\ IsRecord(spike_sim_fast)
    /\ reg_backup \in Seq(Value)
    /\ branches \in Seq(Branch)
    /\ committing \in Seq(Branch)
    /\ ports \subseteq {"bpu", "redirect"}

\* The first off checkpoints are those of branches on their way to BranchCommit.
WrongPathFrom(off) ==
    \E k \in 1 .. Len(branches) :
        /\ branches[k].missed
        /\ \A i \in 1 .. k - 1 : ~branches[i].missed
        /\ reg_backup[off + k] = spike_sim_fast.reg

OnRightPath ==
    /\ \A k \in 1 .. Len(branches) : ~branches[k].missed
    /\ spike_sim.reg = spike_sim_fast.reg

Settled(off) ==
    /\ Len(reg_backup) = off + Len(branches)
    /\ is_prediction_miss => WrongPathFrom(off)
    /\ ~is_prediction_miss => OnRightPath

Quiet == (~flushing /\ ports = {}) => Settled(0)

CommittingRight ==
    (~flushing /\ ports # {}) =>
        /\ ports = {"bpu"}
        /\ committing # << >>
        /\ \A i \in 1 .. Len(committing) : ~committing[i].missed
        /\ Settled(Len(committing))

CommittingMissed ==
    (flushing /\ "bpu" \in ports) =>
        /\ committing # << >>
        /\ LastMissed
        /\ branches # << >>
        /\ Len(reg_backup) = Len(committing) - 1 + Len(branches)
        /\ reg_backup[Len(committing)] = spike_sim_fast.reg

RolledBack ==
    (flushing /\ "bpu" \notin ports) =>
        /\ reg_backup = << >>
        /\ spike_sim.reg = spike_sim_fast.reg

RedirectIsAwaited == flushing => ("redirect" \in ports <=> is_prediction_miss)

RollBackInv ==
    /\ FetchTypeOK
    /\ Quiet /\ CommittingRight /\ CommittingMissed /\ RolledBack
    /\ RedirectIsAwaited
    /\ NopsOnlyOnWrongPath
=============================================================================
