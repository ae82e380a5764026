----------------------- MODULE SpeculativeFetchProofs ------------------------
(***************************************************************************)
(* A rollback restores the right path, for any number of unresolved        *)
(* branches, any width of commit and any program: the registers            *)
(* (RollBackInv, of SpeculativeFetch), and the memory and the pc (LogInv,  *)
(* below, with RollBackInv).  What unwinding the memory log computes is    *)
(* shown by induction over the turns of the loop of MemoryRollBack_.       *)
(***************************************************************************)
EXTENDS SpeculativeFetch, DataLemmas

-----------------------------------------------------------------------------
(* Sequences and simulators, piece by piece.                               *)

\* A sequence without its first n elements.
LEMMA DropPlaces ==
  ASSUME NEW S, NEW s \in Seq(S), NEW n \in 0 .. Len(s)
  PROVE  /\ SubSeq(s, n + 1, Len(s)) \in Seq(S)
         /\ Len(SubSeq(s, n + 1, Len(s))) = Len(s) - n
         /\ \A i \in 1 .. Len(s) - n : SubSeq(s, n + 1, Len(s))[i] = s[n + i]
OBVIOUS

\* The first n elements of a sequence.
LEMMA KeepPlaces ==
  ASSUME NEW S, NEW s \in Seq(S), NEW n \in 0 .. Len(s)
  PROVE  /\ SubSeq(s, 1, n) \in Seq(S)
         /\ Len(SubSeq(s, 1, n)) = n
         /\ \A i \in 1 .. n : SubSeq(s, 1, n)[i] = s[i]
OBVIOUS

LEMMA AppendPlaces ==
  ASSUME NEW S, NEW s \in Seq(S), NEW e \in S
  PROVE  /\ Append(s, e) \in Seq(S)
         /\ Len(Append(s, e)) = Len(s) + 1
         /\ \A i \in 1 .. Len(s) : Append(s, e)[i] = s[i]
         /\ Append(s, e)[Len(s) + 1] = e
OBVIOUS

\* Setting the pc leaves the registers alone.
LEMMA SetPc ==
  ASSUME NEW s, IsRecord(s), NEW p
  PROVE  IsRecord([s EXCEPT !.pc = p]) /\ [s EXCEPT !.pc = p].reg = s.reg
BY DEF IsRecord

\* Two simulators whose registers agree still do after the same instruction.
LEMMA ExecutedRegs ==
  ASSUME NEW s, IsRecord(s), NEW effect \in Effect, NEW p
  PROVE  /\ IsRecord(Executed(s, effect, p))
         /\ Executed(s, effect, p).reg =
              IF effect.kind = "reg" THEN effect.value ELSE s.reg
         /\ effect.kind = "reg" => effect.value \in Value
<1>1. effect.kind = "reg" => effect.value \in Value
  BY DEF Effect
<1>2. PICK x, y, z : s = [pc |-> x, reg |-> y, mem |-> z] /\ y \in Value
  BY DEF IsRecord
<1>3. CASE effect.kind = "reg"
  BY <1>1, <1>2, <1>3 DEF IsRecord, Executed
<1>4. CASE effect.kind # "reg"
  BY <1>2, <1>4 DEF IsRecord, Executed
<1> QED BY <1>1, <1>3, <1>4

-----------------------------------------------------------------------------
LEMMA InitInv == Init => RollBackInv
<1> SUFFICES ASSUME Init PROVE RollBackInv
  OBVIOUS
<1>1. IsRecord(spike_sim) /\ IsRecord(spike_sim_fast) /\ spike_sim.reg = spike_sim_fast.reg
  BY SpikeAssumption DEF Init, AdapterInit, IsRecord
<1>2. FetchTypeOK
  BY <1>1 DEF Init, AdapterInit, FetchTypeOK
<1>3. Len(branches) = 0 /\ Len(reg_backup) = 0 /\ ports = {} /\ ~flushing
  BY DEF Init, AdapterInit
<1>4. ~is_prediction_miss /\ ~fetch_nop_inst
  BY DEF Init, AdapterInit
<1>5. Settled(0)
  BY <1>1, <1>3, <1>4 DEF Settled, OnRightPath
<1> QED
  BY <1>2, <1>3, <1>4, <1>5
  DEF RollBackInv, Quiet, CommittingRight, CommittingMissed, RolledBack, RedirectIsAwaited,
      NopsOnlyOnWrongPath

LEMMA StutterInv == ASSUME RollBackInv, UNCHANGED vars PROVE RollBackInv'
BY DEF RollBackInv, vars, adapterVars, fetchVars, FetchTypeOK, IsRecord, Quiet,
       CommittingRight, CommittingMissed, RolledBack, RedirectIsAwaited, NopsOnlyOnWrongPath,
       Settled, WrongPathFrom, OnRightPath, LastMissed

\* A step between two commits: nothing is in the ports, before or after, and
\* what is left to show is that the queue and the path still agree.
LEMMA QuietStep ==
  ASSUME ~flushing, ports = {}, UNCHANGED <<committing, ports, flushing>>,
         FetchTypeOK', Settled(0)', NopsOnlyOnWrongPath'
  PROVE  RollBackInv'
BY DEF RollBackInv, Quiet, CommittingRight, CommittingMissed, RolledBack, RedirectIsAwaited

LEMMA PlainInv ==
  ASSUME RollBackInv, ~flushing, NEW effect \in Effect, FetchPlain(effect)
  PROVE  RollBackInv'
<1>1. PICK p : p = FallThrough(spike_sim.pc)
  OBVIOUS
<1>2. /\ ports = {} /\ UNCHANGED <<committing, ports, flushing, branches, reg_backup>>
      /\ UNCHANGED <<is_prediction_miss, fetch_nop_inst>>
      /\ spike_sim' = Executed(spike_sim, effect, p)
      /\ spike_sim_fast' = IF is_prediction_miss THEN spike_sim_fast
                           ELSE Executed(spike_sim_fast, effect, p)
  BY <1>1 DEF FetchPlain, CanFetch, spikeStep
<1>3. FetchTypeOK /\ IsRecord(spike_sim) /\ IsRecord(spike_sim_fast)
  BY DEF RollBackInv, FetchTypeOK
<1>4. Settled(0)
  BY <1>2 DEF RollBackInv, Quiet
<1>5. IsRecord(spike_sim') /\ IsRecord(spike_sim_fast')
  BY <1>2, <1>3, ExecutedRegs
<1>6. FetchTypeOK'
  BY <1>2, <1>3, <1>5 DEF FetchTypeOK
<1>7. ASSUME is_prediction_miss PROVE Settled(0)'
  BY <1>2, <1>4, <1>7 DEF Settled, WrongPathFrom
<1>8. ASSUME ~is_prediction_miss PROVE Settled(0)'
  <2>1. spike_sim.reg = spike_sim_fast.reg
    BY <1>4, <1>8 DEF Settled, OnRightPath
  <2>2. spike_sim'.reg = spike_sim_fast'.reg
    BY <1>2, <1>3, <1>8, <2>1, ExecutedRegs
  <2> QED BY <1>2, <1>4, <1>8, <2>2 DEF Settled, OnRightPath
<1>9. NopsOnlyOnWrongPath'
  BY <1>2 DEF RollBackInv, NopsOnlyOnWrongPath
<1> QED BY <1>2, <1>6, <1>7, <1>8, <1>9, QuietStep

LEMMA CsrInv ==
  ASSUME RollBackInv, ~flushing, NEW effect \in Effect, FetchCsrOnWrongPath(effect)
  PROVE  RollBackInv'
<1>1. PICK p : p = FallThrough(spike_sim.pc)
  OBVIOUS
<1>2. /\ ports = {} /\ UNCHANGED <<committing, ports, flushing, branches, reg_backup>>
      /\ is_prediction_miss /\ UNCHANGED is_prediction_miss
      /\ spike_sim' = Executed(spike_sim, effect, p)
      /\ UNCHANGED spike_sim_fast
  BY <1>1 DEF FetchCsrOnWrongPath, CanFetch, spikeStep
<1>3. FetchTypeOK /\ IsRecord(spike_sim) /\ IsRecord(spike_sim_fast)
  BY DEF RollBackInv, FetchTypeOK
<1>4. IsRecord(spike_sim') /\ IsRecord(spike_sim_fast')
  BY <1>2, <1>3, ExecutedRegs
<1>5. FetchTypeOK'
  BY <1>2, <1>3, <1>4 DEF FetchTypeOK
<1>6. Settled(0)
  BY <1>2 DEF RollBackInv, Quiet
<1>7. Settled(0)'
  BY <1>2, <1>6 DEF Settled, WrongPathFrom
<1>8. NopsOnlyOnWrongPath'
  BY <1>2 DEF NopsOnlyOnWrongPath
<1> QED BY <1>2, <1>5, <1>7, <1>8, QuietStep

LEMMA NopInv ==
  ASSUME RollBackInv, ~flushing, FetchNopOnWrongPath PROVE RollBackInv'
<1>1. /\ ports = {} /\ UNCHANGED <<committing, ports, flushing, branches>>
      /\ UNCHANGED <<reg_backup, spike_sim, spike_sim_fast, is_prediction_miss>>
      /\ is_prediction_miss \/ fetch_nop_inst
  BY DEF FetchNopOnWrongPath, CanFetch, adapterVars
<1>2. FetchTypeOK' /\ Settled(0)'
  BY <1>1 DEF RollBackInv, Quiet, FetchTypeOK, Settled, WrongPathFrom, OnRightPath, IsRecord
<1>3. NopsOnlyOnWrongPath'
  BY <1>1 DEF RollBackInv, NopsOnlyOnWrongPath
<1> QED BY <1>1, <1>2, <1>3, QuietStep

LEMMA TrapInv ==
  ASSUME RollBackInv, ~flushing, SkipTrapOnWrongPath PROVE RollBackInv'
<1>1. PICK p : spike_sim' = [spike_sim EXCEPT !.pc = p]
  BY DEF SkipTrapOnWrongPath, setNpc
<1>2. /\ ports = {} /\ UNCHANGED <<committing, ports, flushing, branches, fetch_nop_inst>>
      /\ UNCHANGED <<reg_backup, spike_sim_fast, is_prediction_miss>>
  BY DEF SkipTrapOnWrongPath, fetchVars
<1>3. IsRecord(spike_sim') /\ spike_sim'.reg = spike_sim.reg
  BY <1>1, SetPc DEF RollBackInv, FetchTypeOK
<1>4. FetchTypeOK' /\ Settled(0)'
  BY <1>2, <1>3 DEF RollBackInv, Quiet, FetchTypeOK, Settled, WrongPathFrom, OnRightPath,
                    IsRecord
<1>5. NopsOnlyOnWrongPath'
  BY <1>2 DEF RollBackInv, NopsOnlyOnWrongPath
<1> QED BY <1>2, <1>4, <1>5, QuietStep

LEMMA BranchInv ==
  ASSUME RollBackInv, ~flushing, NEW target \in Pc, FetchBranch(target)
  PROVE  RollBackInv'
<1>1. PICK p : p = FallThrough(spike_sim.pc)
  OBVIOUS
<1>2. PICK b : b = [SpikeNpc |-> target, missed |-> p # target]
  OBVIOUS
<1>3. /\ ports = {} /\ UNCHANGED <<committing, ports, flushing, fetch_nop_inst>>
      /\ reg_backup' = Append(reg_backup, spike_sim.reg)
      /\ branches' = Append(branches, b)
      /\ spike_sim' = [spike_sim EXCEPT !.pc = p]
      /\ spike_sim_fast' = IF is_prediction_miss THEN spike_sim_fast
                           ELSE [spike_sim_fast EXCEPT !.pc = target]
      /\ is_prediction_miss' = (is_prediction_miss \/ p # target)
  BY <1>1, <1>2 DEF FetchBranch, CanFetch, MakeBackup, setNpc
<1>4. /\ IsRecord(spike_sim) /\ IsRecord(spike_sim_fast)
      /\ reg_backup \in Seq(Value) /\ branches \in Seq(Branch) /\ spike_sim.reg \in Value
      /\ Settled(0)
  BY <1>3 DEF RollBackInv, FetchTypeOK, Quiet, IsRecord
<1>5. b \in Branch /\ (b.missed <=> p # target)
  BY <1>2 DEF Branch
<1>6. /\ IsRecord(spike_sim') /\ spike_sim'.reg = spike_sim.reg
      /\ IsRecord(spike_sim_fast') /\ spike_sim_fast'.reg = spike_sim_fast.reg
  BY <1>3, <1>4, SetPc
<1>7. PICK n \in Nat : n = Len(branches) /\ n = Len(reg_backup)
  BY <1>4 DEF Settled
<1>8. /\ branches' \in Seq(Branch) /\ Len(branches') = n + 1
      /\ \A i \in 1 .. n : branches'[i] = branches[i]
      /\ branches'[n + 1] = b
  <2>1. /\ Append(branches, b) \in Seq(Branch)
        /\ Len(Append(branches, b)) = Len(branches) + 1
        /\ \A i \in 1 .. Len(branches) : Append(branches, b)[i] = branches[i]
        /\ Append(branches, b)[Len(branches) + 1] = b
    BY <1>4, <1>5, AppendPlaces
  <2>2. branches' = Append(branches, b) /\ Len(branches) = n
    BY <1>3, <1>7
  <2> QED BY <2>1, <2>2
<1>9. /\ reg_backup' \in Seq(Value) /\ Len(reg_backup') = n + 1
      /\ \A i \in 1 .. n : reg_backup'[i] = reg_backup[i]
      /\ reg_backup'[n + 1] = spike_sim.reg
  BY <1>3, <1>4, <1>7, AppendPlaces
<1>10. FetchTypeOK'
  BY <1>3, <1>6, <1>8, <1>9 DEF RollBackInv, FetchTypeOK
<1>11. ASSUME is_prediction_miss PROVE Settled(0)'
  <2>1. PICK k \in 1 .. n : /\ branches[k].missed
                            /\ \A i \in 1 .. k - 1 : ~branches[i].missed
                            /\ reg_backup[0 + k] = spike_sim_fast.reg
    BY <1>4, <1>7, <1>11 DEF Settled, WrongPathFrom
  <2>2. k \in 1 .. n + 1 /\ 0 + k = k /\ \A i \in 1 .. k - 1 : i \in 1 .. n
    OBVIOUS
  <2>3. /\ branches'[k].missed /\ \A i \in 1 .. k - 1 : ~branches'[i].missed
        /\ reg_backup'[0 + k] = spike_sim_fast'.reg
    BY <1>6, <1>8, <1>9, <2>1, <2>2
  <2>4. WrongPathFrom(0)'
    BY <1>8, <2>2, <2>3 DEF WrongPathFrom
  <2>5. Len(reg_backup') = 0 + Len(branches')
    BY <1>8, <1>9
  <2>6. is_prediction_miss'
    BY <1>3, <1>11
  <2> QED BY <2>4, <2>5, <2>6 DEF Settled
<1>12. ASSUME ~is_prediction_miss PROVE Settled(0)'
  <2>1. spike_sim.reg = spike_sim_fast.reg /\ \A i \in 1 .. n : ~branches[i].missed
    BY <1>4, <1>7, <1>12 DEF Settled, OnRightPath
  <2>2. ASSUME p # target PROVE WrongPathFrom(0)'
    <3>1. /\ n + 1 \in 1 .. n + 1 /\ 0 + (n + 1) = n + 1
          /\ \A i \in 1 .. (n + 1) - 1 : i \in 1 .. n
      OBVIOUS
    <3>2. /\ branches'[n + 1].missed /\ \A i \in 1 .. (n + 1) - 1 : ~branches'[i].missed
          /\ reg_backup'[0 + (n + 1)] = spike_sim_fast'.reg
      BY <1>5, <1>6, <1>8, <1>9, <2>1, <2>2, <3>1
    <3> QED BY <1>8, <3>1, <3>2 DEF WrongPathFrom
  <2>3. ASSUME p = target PROVE OnRightPath'
    <3>1. \A i \in 1 .. n + 1 : i \in 1 .. n \/ i = n + 1
      OBVIOUS
    <3>2. \A i \in 1 .. n + 1 : ~branches'[i].missed
      BY <1>5, <1>8, <2>1, <2>3, <3>1
    <3> QED BY <1>6, <1>8, <2>1, <3>2 DEF OnRightPath
  <2>4. Len(reg_backup') = 0 + Len(branches')
    BY <1>8, <1>9
  <2>5. (is_prediction_miss' => p # target) /\ (~is_prediction_miss' => p = target)
    BY <1>3, <1>12
  <2> QED BY <2>2, <2>3, <2>4, <2>5 DEF Settled
<1>13. NopsOnlyOnWrongPath'
  BY <1>3 DEF RollBackInv, NopsOnlyOnWrongPath
<1> QED BY <1>3, <1>10, <1>11, <1>12, <1>13, QuietStep

LEMMA CommitInv ==
  ASSUME RollBackInv, ~flushing, NEW n \in CommitGroups, CommitBranches(n)
  PROVE  RollBackInv'
<1>1. /\ ports = {} /\ committing' = SubSeq(branches, 1, n)
      /\ UNCHANGED <<spike_sim, spike_sim_fast, is_prediction_miss, reg_backup, fetch_nop_inst>>
  BY DEF CommitBranches, adapterVars
<1>2. /\ reg_backup \in Seq(Value) /\ branches \in Seq(Branch) /\ Settled(0)
      /\ IsRecord(spike_sim) /\ IsRecord(spike_sim_fast)
  BY <1>1 DEF RollBackInv, FetchTypeOK, Quiet
<1>3. PICK m \in Nat : m = Len(branches) /\ m = Len(reg_backup)
  BY <1>2 DEF Settled
<1>4. n \in 1 .. m /\ \A i \in 1 .. n - 1 : ~branches[i].missed
  BY <1>3 DEF CommitGroups
<1>5. /\ committing' \in Seq(Branch) /\ Len(committing') = n
      /\ \A i \in 1 .. n : committing'[i] = branches[i]
  <2>1. n \in 0 .. Len(branches)
    BY <1>3, <1>4
  <2>2. /\ SubSeq(branches, 1, n) \in Seq(Branch)
        /\ Len(SubSeq(branches, 1, n)) = n
        /\ \A i \in 1 .. n : SubSeq(branches, 1, n)[i] = branches[i]
    BY <1>2, <2>1, KeepPlaces
  <2> QED BY <1>1, <2>2
<1>6. committing' # << >>
  BY <1>4, <1>5
<1>7. NopsOnlyOnWrongPath'
  BY <1>1 DEF RollBackInv, NopsOnlyOnWrongPath
<1>8. ASSUME is_prediction_miss
      PROVE  \E k \in 1 .. m : /\ branches[k].missed
                               /\ \A i \in 1 .. k - 1 : ~branches[i].missed
                               /\ reg_backup[k] = spike_sim_fast.reg
  BY <1>2, <1>3, <1>8 DEF Settled, WrongPathFrom
<1>9. CASE branches[n].missed
  <2>1. /\ ports' = {"bpu", "redirect"} /\ flushing'
        /\ branches' = SubSeq(branches, n, Len(branches))
    BY <1>9 DEF CommitBranches
  <2>2. n - 1 \in 0 .. m /\ (n - 1) + 1 = n
    BY <1>4
  <2>3. branches' \in Seq(Branch) /\ Len(branches') = m - (n - 1)
    BY <1>2, <1>3, <2>1, <2>2, DropPlaces
  <2>4. is_prediction_miss
    BY <1>2, <1>3, <1>4, <1>9 DEF Settled, OnRightPath
  <2>5. PICK k \in 1 .. m : /\ branches[k].missed
                            /\ \A i \in 1 .. k - 1 : ~branches[i].missed
                            /\ reg_backup[k] = spike_sim_fast.reg
    BY <1>8, <2>4
  <2>6. (k < n => k \in 1 .. n - 1) /\ (n < k => n \in 1 .. k - 1) /\ (k = n \/ k < n \/ n < k)
    BY <1>4
  <2>7. k = n
    BY <1>4, <1>9, <2>5, <2>6
  <2>8. branches' # << >> /\ m = n - 1 + (m - (n - 1))
    BY <1>4, <2>3
  <2>9. LastMissed'
    BY <1>4, <1>5, <1>9 DEF LastMissed
  <2>10. CommittingMissed'
    BY <1>1, <1>3, <1>5, <1>6, <2>3, <2>5, <2>7, <2>8, <2>9 DEF CommittingMissed
  <2>11. FetchTypeOK'
    BY <1>1, <1>2, <1>5, <2>1, <2>3 DEF FetchTypeOK
  <2> QED
    BY <1>1, <1>7, <2>1, <2>4, <2>10, <2>11
    DEF RollBackInv, Quiet, CommittingRight, RolledBack, RedirectIsAwaited
<1>10. CASE ~branches[n].missed
  <2>1. /\ ports' = {"bpu"} /\ ~flushing'
        /\ branches' = SubSeq(branches, n + 1, Len(branches))
    BY <1>10 DEF CommitBranches
  <2>2. n \in 0 .. m /\ m = n + (m - n)
    BY <1>4
  <2>3. /\ branches' \in Seq(Branch) /\ Len(branches') = m - n
        /\ \A i \in 1 .. m - n : branches'[i] = branches[n + i]
    BY <1>2, <1>3, <2>1, <2>2, DropPlaces
  <2>4. \A i \in 1 .. n : ~branches[i].missed
    <3>1. \A i \in 1 .. n : i \in 1 .. n - 1 \/ i = n
      BY <1>4
    <3> QED BY <1>4, <1>10, <3>1
  <2>5. ASSUME is_prediction_miss PROVE WrongPathFrom(n)'
    <3>1. PICK k \in 1 .. m : /\ branches[k].missed
                              /\ \A i \in 1 .. k - 1 : ~branches[i].missed
                              /\ reg_backup[k] = spike_sim_fast.reg
      BY <1>8, <2>5
    <3>2. ~(k \in 1 .. n)
      BY <2>4, <3>1
    <3>3. /\ k - n \in 1 .. m - n /\ n + (k - n) = k
          /\ \A i \in 1 .. (k - n) - 1 : i \in 1 .. m - n /\ n + i \in 1 .. k - 1
      BY <1>4, <3>2
    <3>4. /\ branches'[k - n].missed
          /\ \A i \in 1 .. (k - n) - 1 : ~branches'[i].missed
          /\ reg_backup'[n + (k - n)] = spike_sim_fast'.reg
      BY <1>1, <2>3, <3>1, <3>3
    <3> QED BY <2>3, <3>3, <3>4 DEF WrongPathFrom
  <2>6. ASSUME ~is_prediction_miss PROVE OnRightPath'
    <3>1. spike_sim.reg = spike_sim_fast.reg /\ \A i \in 1 .. m : ~branches[i].missed
      BY <1>2, <1>3, <2>6 DEF Settled, OnRightPath
    <3>2. \A i \in 1 .. m - n : n + i \in 1 .. m
      BY <1>4
    <3> QED BY <1>1, <2>3, <3>1, <3>2 DEF OnRightPath
  <2>7. Settled(n)'
    BY <1>1, <1>3, <2>2, <2>3, <2>5, <2>6 DEF Settled
  <2>8. CommittingRight'
    BY <1>5, <1>6, <2>1, <2>4, <2>7 DEF CommittingRight
  <2>9. FetchTypeOK'
    BY <1>1, <1>2, <1>5, <2>1, <2>3 DEF FetchTypeOK
  <2> QED
    BY <1>7, <2>1, <2>8, <2>9
    DEF RollBackInv, Quiet, CommittingMissed, RolledBack, RedirectIsAwaited
<1> QED BY <1>9, <1>10

LEMMA BranchCommitInv ==
  ASSUME RollBackInv, BranchCommit PROVE RollBackInv'
<1>1. /\ "bpu" \in ports /\ ports' = ports \ {"bpu"}
      /\ UNCHANGED <<fetch_nop_inst, branches, committing, flushing>>
      /\ UNCHANGED <<spike_sim_fast, is_prediction_miss>>
      /\ BranchResolve(RightlyPredicted, LastMissed)
  BY DEF BranchCommit, BranchResolve
<1>2. FetchTypeOK
  BY DEF RollBackInv
<1>3. NopsOnlyOnWrongPath'
  BY <1>1 DEF RollBackInv, NopsOnlyOnWrongPath
<1>4. CASE flushing
  <2>1. /\ LastMissed /\ branches # << >> /\ committing # << >>
        /\ Len(reg_backup) = Len(committing) - 1 + Len(branches)
        /\ reg_backup[Len(committing)] = spike_sim_fast.reg
    BY <1>1, <1>4 DEF RollBackInv, CommittingMissed
  <2>2. PICK c \in Nat \ {0}, m \in Nat \ {0} : c = Len(committing) /\ m = Len(branches)
    BY <1>2, <2>1 DEF FetchTypeOK
  <2>3. RightlyPredicted = c - 1
    BY <2>1, <2>2 DEF RightlyPredicted
  <2>4. c - 1 \in 0 .. Len(reg_backup) /\ 1 \in 1 .. Len(reg_backup) - (c - 1)
        /\ (c - 1) + 1 = c /\ Len(reg_backup) - (c - 1) # 0
    BY <2>1, <2>2
  <2>5. /\ DroppedRegs(c - 1) \in Seq(Value) /\ DroppedRegs(c - 1) # << >>
        /\ DroppedRegs(c - 1)[1] = reg_backup[c]
    <3>1. /\ SubSeq(reg_backup, (c - 1) + 1, Len(reg_backup)) \in Seq(Value)
          /\ Len(SubSeq(reg_backup, (c - 1) + 1, Len(reg_backup))) = Len(reg_backup) - (c - 1)
          /\ \A i \in 1 .. Len(reg_backup) - (c - 1) :
                SubSeq(reg_backup, (c - 1) + 1, Len(reg_backup))[i] = reg_backup[(c - 1) + i]
      BY <1>2, <2>4, DropPlaces DEF FetchTypeOK
    <3> QED BY <2>4, <3>1 DEF DroppedRegs
  <2>6. RegRollBack_(DroppedRegs(c - 1)) = {spike_sim_fast.reg}
    BY <2>1, <2>2, <2>5 DEF RegRollBack_
  <2>7. PICK reg \in {spike_sim_fast.reg} :
          /\ spike_sim' = [pc |-> npc, reg |-> reg, mem |-> MemoryRollBack_(Dropped(c - 1))]
          /\ reg_backup' = << >>
    BY <1>1, <2>1, <2>3, <2>6 DEF BranchResolve
  <2>8. IsRecord(spike_sim') /\ spike_sim'.reg = spike_sim_fast'.reg
    BY <1>1, <1>2, <2>7 DEF FetchTypeOK, IsRecord
  <2>9. FetchTypeOK'
    BY <1>1, <1>2, <2>7, <2>8 DEF FetchTypeOK, IsRecord
  <2>10. RolledBack' /\ "bpu" \notin ports'
    BY <1>1, <2>7, <2>8 DEF RolledBack
  <2>11. flushing' /\ RedirectIsAwaited'
    BY <1>1, <1>4 DEF RollBackInv, RedirectIsAwaited
  <2> QED
    BY <1>3, <2>9, <2>10, <2>11 DEF RollBackInv, Quiet, CommittingRight, CommittingMissed
<1>5. CASE ~flushing
  <2>1. /\ ports = {"bpu"} /\ committing # << >>
        /\ \A i \in 1 .. Len(committing) : ~committing[i].missed
        /\ Settled(Len(committing))
    BY <1>1, <1>5 DEF RollBackInv, CommittingRight
  <2>2. PICK c \in Nat \ {0}, m \in Nat : c = Len(committing) /\ m = Len(branches)
    BY <1>2, <2>1 DEF FetchTypeOK
  <2>3. ~LastMissed /\ RightlyPredicted = c
    BY <2>1, <2>2 DEF LastMissed, RightlyPredicted
  <2>4. Len(reg_backup) = c + m /\ c \in 0 .. Len(reg_backup) /\ Len(reg_backup) - c = m
    BY <2>1, <2>2 DEF Settled
  <2>5. spike_sim' = spike_sim /\ reg_backup' = DroppedRegs(c)
    BY <1>1, <2>3 DEF BranchResolve
  <2>6. /\ reg_backup' \in Seq(Value) /\ Len(reg_backup') = m
        /\ \A i \in 1 .. m : reg_backup'[i] = reg_backup[c + i]
    <3>1. /\ SubSeq(reg_backup, c + 1, Len(reg_backup)) \in Seq(Value)
          /\ Len(SubSeq(reg_backup, c + 1, Len(reg_backup))) = Len(reg_backup) - c
          /\ \A i \in 1 .. Len(reg_backup) - c :
                SubSeq(reg_backup, c + 1, Len(reg_backup))[i] = reg_backup[c + i]
      BY <1>2, <2>4, DropPlaces DEF FetchTypeOK
    <3> QED BY <2>4, <2>5, <3>1 DEF DroppedRegs
  <2>7. FetchTypeOK'
    BY <1>1, <1>2, <2>5, <2>6 DEF FetchTypeOK, IsRecord
  <2>8. ASSUME is_prediction_miss PROVE WrongPathFrom(0)'
    <3>1. PICK k \in 1 .. m : /\ branches[k].missed
                              /\ \A i \in 1 .. k - 1 : ~branches[i].missed
                              /\ reg_backup[c + k] = spike_sim_fast.reg
      BY <2>1, <2>2, <2>8 DEF Settled, WrongPathFrom
    <3>2. reg_backup'[0 + k] = spike_sim_fast'.reg
      BY <1>1, <2>6, <3>1
    <3> QED BY <1>1, <2>2, <3>1, <3>2 DEF WrongPathFrom
  <2>9. ASSUME ~is_prediction_miss PROVE OnRightPath'
    BY <1>1, <2>1, <2>5, <2>9 DEF Settled, OnRightPath
  <2>10. Settled(0)'
    BY <1>1, <2>2, <2>6, <2>8, <2>9 DEF Settled
  <2>11. ~flushing' /\ ports' = {}
    BY <1>1, <1>5, <2>1
  <2> QED
    BY <1>3, <2>7, <2>10, <2>11
    DEF RollBackInv, Quiet, CommittingRight, CommittingMissed, RolledBack, RedirectIsAwaited
<1> QED BY <1>4, <1>5

LEMMA RedirectInv ==
  ASSUME RollBackInv, RedirectPc PROVE RollBackInv'
<1>1. PICK p : spike_sim' = [spike_sim EXCEPT !.pc = p]
  BY DEF RedirectPc, setNpc
<1>2. /\ "redirect" \in ports /\ ports' = ports \ {"redirect"}
      /\ ~is_prediction_miss' /\ ~fetch_nop_inst'
      /\ UNCHANGED <<spike_sim_fast, reg_backup, branches, committing, flushing>>
  BY DEF RedirectPc
<1>3. FetchTypeOK
  BY DEF RollBackInv
<1>4. IsRecord(spike_sim') /\ spike_sim'.reg = spike_sim.reg
  BY <1>1, <1>3, SetPc DEF FetchTypeOK
<1>5. flushing
  BY <1>2 DEF RollBackInv, CommittingRight
<1>6. FetchTypeOK'
  BY <1>2, <1>3, <1>4 DEF FetchTypeOK, IsRecord
<1>7. CommittingMissed' /\ RolledBack'
  BY <1>2, <1>4, <1>5 DEF RollBackInv, CommittingMissed, RolledBack, LastMissed
<1>8. RedirectIsAwaited' /\ NopsOnlyOnWrongPath'
  BY <1>2 DEF RedirectIsAwaited, NopsOnlyOnWrongPath
<1>9. flushing'
  BY <1>2, <1>5
<1> QED
  BY <1>6, <1>7, <1>8, <1>9 DEF RollBackInv, Quiet, CommittingRight

LEMMA FlushInv ==
  ASSUME RollBackInv, Flush PROVE RollBackInv'
<1>1. /\ flushing /\ ports = {} /\ ~flushing' /\ branches' = << >>
      /\ UNCHANGED <<spike_sim, spike_sim_fast, is_prediction_miss, reg_backup>>
      /\ UNCHANGED <<fetch_nop_inst, committing, ports>>
  BY DEF Flush, adapterVars
<1>2. reg_backup = << >> /\ spike_sim.reg = spike_sim_fast.reg
  BY <1>1 DEF RollBackInv, RolledBack
<1>3. ~is_prediction_miss
  BY <1>1 DEF RollBackInv, RedirectIsAwaited
<1>4. Len(branches') = 0 /\ Len(reg_backup') = 0
  BY <1>1, <1>2
<1>5. Settled(0)'
  BY <1>1, <1>2, <1>3, <1>4 DEF Settled, OnRightPath
<1>6. FetchTypeOK' /\ NopsOnlyOnWrongPath'
  BY <1>1 DEF RollBackInv, FetchTypeOK, IsRecord, NopsOnlyOnWrongPath
<1> QED
  BY <1>1, <1>5, <1>6
  DEF RollBackInv, Quiet, CommittingRight, CommittingMissed, RolledBack, RedirectIsAwaited

LEMMA NextInv == RollBackInv /\ [Next]_vars => RollBackInv'
<1> SUFFICES ASSUME RollBackInv, [Next]_vars PROVE RollBackInv'
  OBVIOUS
<1>1. CASE ~flushing /\ Step
  BY <1>1, PlainInv, CsrInv, NopInv, TrapInv, BranchInv, CommitInv DEF Step
<1>2. CASE Handle
  BY <1>2, BranchCommitInv, RedirectInv, FlushInv DEF Handle
<1>3. CASE UNCHANGED vars
  BY <1>3, StutterInv
<1> QED BY <1>1, <1>2, <1>3 DEF Next

LEMMA RollBackInvHolds == Spec => []RollBackInv
  BY InitInv, NextInv, PTL DEF Spec

-----------------------------------------------------------------------------
LEMMA InvRegAssertion == ASSUME RollBackInv PROVE RegRollBackAssertion
<1> SUFFICES ASSUME "bpu" \in ports, LastMissed
             PROVE  RegAssertion(DroppedRegs(RightlyPredicted))
  BY DEF RegRollBackAssertion
<1>1. FetchTypeOK
  BY DEF RollBackInv
<1>2. flushing
  <2> SUFFICES ASSUME ~flushing PROVE FALSE
    OBVIOUS
  <2>1. committing # << >> /\ \A i \in 1 .. Len(committing) : ~committing[i].missed
    BY DEF RollBackInv, CommittingRight
  <2>2. Len(committing) \in 1 .. Len(committing)
    BY <1>1, <2>1 DEF FetchTypeOK
  <2> QED BY <2>1, <2>2 DEF LastMissed
<1>3. /\ branches # << >> /\ committing # << >>
      /\ Len(reg_backup) = Len(committing) - 1 + Len(branches)
      /\ reg_backup[Len(committing)] = spike_sim_fast.reg
  BY <1>2 DEF RollBackInv, CommittingMissed
<1>4. PICK c \in Nat \ {0}, m \in Nat \ {0} : c = Len(committing) /\ m = Len(branches)
  BY <1>1, <1>3 DEF FetchTypeOK
<1>5. RightlyPredicted = c - 1
  BY <1>4 DEF RightlyPredicted
<1>6. /\ c - 1 \in 0 .. Len(reg_backup) /\ 1 \in 1 .. Len(reg_backup) - (c - 1)
      /\ (c - 1) + 1 = c /\ Len(reg_backup) - (c - 1) # 0
  BY <1>3, <1>4
<1>7. /\ Len(SubSeq(reg_backup, (c - 1) + 1, Len(reg_backup))) = Len(reg_backup) - (c - 1)
      /\ \A i \in 1 .. Len(reg_backup) - (c - 1) :
            SubSeq(reg_backup, (c - 1) + 1, Len(reg_backup))[i] = reg_backup[(c - 1) + i]
  BY <1>1, <1>6, DropPlaces DEF FetchTypeOK
<1>8. DroppedRegs(c - 1) # << >> /\ DroppedRegs(c - 1)[1] = reg_backup[c]
  BY <1>6, <1>7 DEF DroppedRegs
<1>9. RegRollBack_(DroppedRegs(c - 1)) = {spike_sim_fast.reg}
  BY <1>3, <1>4, <1>8 DEF RegRollBack_
<1> QED BY <1>5, <1>9 DEF RegAssertion

\* The assertion of RegRollBack_ holds: however many branches are unresolved,
\* right or wrong, and however many commit together, the checkpoint at the
\* front is that of the branch being taken back, and its registers are those
\* of the right path.
THEOREM RollBackRestoresRegisters == Spec => []RegRollBackAssertion
<1>1. RollBackInv => RegRollBackAssertion
  BY InvRegAssertion
<1> QED BY <1>1, RollBackInvHolds, PTL

\* The generator gives out nops only while a mispredicted branch is unresolved:
\* no instruction of the right path is replaced by a nop.
THEOREM NoNopOnRightPath == Spec => []NopsOnlyOnWrongPath
<1>1. RollBackInv => NopsOnlyOnWrongPath
  BY DEF RollBackInv
<1> QED BY <1>1, RollBackInvHolds, PTL

-----------------------------------------------------------------------------
(* The memory.  What the log says of a byte is what its oldest entry for   *)
(* it says, or the byte itself when it has none: that is the byte of the   *)
(* right path.                                                             *)

LogEntry ==
    UNION {[addr : {al[1]}, len : {al[2]}, data : [0 .. al[2] - 1 -> Value]] : al \in Access}

Log == Seq(Seq(LogEntry))

Covers(e, a) == a \in Bytes(e.addr, e.len)

\* The log d has an entry j in its checkpoint i.
InLog(d, i, j) == i \in 1 .. Len(d) /\ j \in 1 .. Len(d[i])

NoneCovers(d, a) == \A i, j \in Nat : InLog(d, i, j) => ~Covers(d[i][j], a)

\* No entry before entry j of checkpoint i has the byte.
FirstFor(d, a, i, j) ==
    \A m, n \in Nat : (InLog(d, m, n) /\ (m < i \/ (m = i /\ n < j))) => ~Covers(d[m][n], a)

OldestHas(d, a, i, j, byte) ==
    /\ InLog(d, i, j) /\ Covers(d[i][j], a) /\ FirstFor(d, a, i, j)
    /\ d[i][j].data[a - d[i][j].addr] = byte

\* The log, unwound into mem, gives target.
Restores(d, mem, target) ==
    \A a \in Addr :
        \/ mem[a] = target[a] /\ NoneCovers(d, a)
        \/ \E i, j \in Nat : OldestHas(d, a, i, j, target[a])

-----------------------------------------------------------------------------
(* One turn of the unwinding.                                              *)

\* What GetBackupEntry leaves of a log.
Left(d) ==
    IF Len(d[Len(d)]) <= 1 THEN SubSeq(d, 1, Len(d) - 1)
    ELSE [d EXCEPT ![Len(d)] = SubSeq(@, 1, Len(d[Len(d)]) - 1)]

LEMMA LeftShape ==
  ASSUME NEW d \in Log, NEW n \in Nat \ {0}, n = Len(d), NEW k \in Nat, k = Len(d[n])
  PROVE  /\ Left(d) \in Log
         /\ k <= 1 => /\ Len(Left(d)) = n - 1
                      /\ \A i \in 1 .. n - 1 : Left(d)[i] = d[i]
         /\ k > 1 => /\ Len(Left(d)) = n /\ Len(Left(d)[n]) = k - 1
                     /\ \A i \in 1 .. n : i # n => Left(d)[i] = d[i]
                     /\ \A j \in 1 .. k - 1 : Left(d)[n][j] = d[n][j]
<1>1. d[n] \in Seq(LogEntry)
  BY DEF Log
<1>2. CASE k <= 1
  <2>1. Left(d) = SubSeq(d, 1, n - 1)
    BY <1>2 DEF Left
  <2>2. n - 1 \in 0 .. Len(d)
    OBVIOUS
  <2>3. /\ Left(d) \in Seq(Seq(LogEntry)) /\ Len(Left(d)) = n - 1
        /\ \A i \in 1 .. n - 1 : Left(d)[i] = d[i]
    BY <2>1, <2>2, KeepPlaces DEF Log
  <2> QED BY <1>2, <2>3 DEF Log
<1>3. CASE k > 1
  <2>1. PICK s : s = SubSeq(d[n], 1, k - 1)
    OBVIOUS
  <2>2. Left(d) = [d EXCEPT ![n] = s]
    BY <1>3, <2>1 DEF Left
  <2>3. k - 1 \in 0 .. Len(d[n])
    BY <1>3
  <2>4. s \in Seq(LogEntry) /\ Len(s) = k - 1 /\ \A j \in 1 .. k - 1 : s[j] = d[n][j]
    BY <1>1, <2>1, <2>3, KeepPlaces
  <2>5. /\ Left(d) \in Log /\ Len(Left(d)) = n /\ Left(d)[n] = s
        /\ \A i \in 1 .. n : i # n => Left(d)[i] = d[i]
    BY <2>2, <2>4 DEF Log
  <2> QED BY <1>3, <2>4, <2>5
<1> QED BY <1>2, <1>3

\* All the entries but the newest.
LEMMA LeftPlaces ==
  ASSUME NEW d \in Log, NEW n \in Nat \ {0}, n = Len(d), NEW k \in Nat, k = Len(d[n])
  PROVE  \A i, j \in Nat :
           /\ InLog(Left(d), i, j) <=> (InLog(d, i, j) /\ ~(i = n /\ j = k))
           /\ InLog(Left(d), i, j) => Left(d)[i][j] = d[i][j]
<1>1. PICK r : r = Left(d)
  OBVIOUS
<1> SUFFICES ASSUME NEW i \in Nat, NEW j \in Nat
             PROVE  /\ InLog(r, i, j) <=> (InLog(d, i, j) /\ ~(i = n /\ j = k))
                    /\ InLog(r, i, j) => r[i][j] = d[i][j]
  BY <1>1
<1>2. CASE k <= 1
  <2>1. Len(r) = n - 1 /\ \A m \in 1 .. n - 1 : r[m] = d[m]
    BY <1>1, <1>2, LeftShape
  <2>2. CASE i \in 1 .. n - 1
    <3>1. r[i] = d[i] /\ i \in 1 .. n /\ i # n
      BY <2>1, <2>2
    <3> QED BY <2>1, <2>2, <3>1 DEF InLog
  <2>3. CASE i = n
    <3>1. Len(d[i]) = k /\ i \notin 1 .. n - 1
      BY <2>3
    <3> QED BY <1>2, <2>1, <2>3, <3>1 DEF InLog
  <2>4. CASE i \notin 1 .. n
    BY <2>1, <2>4 DEF InLog
  <2> QED BY <2>2, <2>3, <2>4
<1>3. CASE k > 1
  <2>1. /\ Len(r) = n /\ Len(r[n]) = k - 1 /\ \A m \in 1 .. n : m # n => r[m] = d[m]
        /\ \A m \in 1 .. k - 1 : r[n][m] = d[n][m]
    BY <1>1, <1>3, LeftShape
  <2>2. CASE i = n
    <3>1. InLog(r, i, j) <=> j \in 1 .. k - 1
      BY <2>1, <2>2 DEF InLog
    <3>2. InLog(d, i, j) <=> j \in 1 .. k
      BY <2>2 DEF InLog
    <3>3. j \in 1 .. k - 1 <=> (j \in 1 .. k /\ j # k)
      BY <1>3
    <3>4. j \in 1 .. k - 1 => r[i][j] = d[i][j]
      BY <2>1, <2>2
    <3> QED BY <2>2, <3>1, <3>2, <3>3, <3>4
  <2>3. CASE i # n
    <3>1. i \in 1 .. n => r[i] = d[i]
      BY <2>1, <2>3
    <3> QED BY <2>1, <2>3, <3>1 DEF InLog
  <2> QED BY <2>2, <2>3
<1> QED BY <1>2, <1>3

LEMMA EntryType ==
  ASSUME NEW e \in LogEntry
  PROVE  /\ e.addr \in Nat \ {0} /\ e.len \in {1, 2, 4, 8} /\ e.len <= WordBytes
         /\ e.addr % e.len = 0 /\ e.data \in [0 .. e.len - 1 -> Value]
<1>1. PICK al \in Access : e \in [addr : {al[1]}, len : {al[2]}, data : [0 .. al[2] - 1 -> Value]]
  BY DEF LogEntry
<1>2. e.addr = al[1] /\ e.len = al[2] /\ e.data \in [0 .. al[2] - 1 -> Value]
  BY <1>1
<1>3. al[1] \in Addr /\ al[2] \in 1 .. WordBytes /\ al[2] \in {1, 2, 4, 8} /\ al[1] % al[2] = 0
  BY DEF Access
<1>4. WordBytes \in Nat \ {0} /\ WordNum \in Nat
  BY SpikeAssumption
<1>5. al[1] \in Nat \ {0} /\ al[2] <= WordBytes
  BY <1>3, <1>4 DEF Addr
<1> QED BY <1>2, <1>3, <1>5

\* Byte a at offset q of its word, and l bytes from x at offset o of theirs.
InWord(w, l, x, o, a, q) ==
    /\ o \in 0 .. w - 1 /\ q \in 0 .. w - 1
    /\ (a - q = x - o /\ q \in o .. o + l - 1) <=> (a \in x .. x + l - 1)
    /\ a - q = x - o => q - o = a - x

Width == {1, 2, 4, 8}

\* An aligned access is within one word.
LEMMA WithinWord ==
  ASSUME NEW w \in Width, NEW l \in Width, l <= w, NEW x \in Nat, x % l = 0, NEW a \in Nat
  PROVE  InWord(w, l, x, x % w, a, a % w)
<1> USE DEF Width, InWord
<1>1. CASE w = 1
  BY <1>1
<1>2. CASE w = 2 /\ l = 1
  BY <1>2
<1>3. CASE w = 2 /\ l = 2
  BY <1>3
<1>4. CASE w = 4 /\ l = 1
  BY <1>4
<1>5. CASE w = 4 /\ l = 2
  BY <1>5
<1>6. CASE w = 4 /\ l = 4
  BY <1>6
<1>7. CASE w = 8 /\ l = 1
  BY <1>7
<1>8. CASE w = 8 /\ l = 2
  BY <1>8
<1>9. CASE w = 8 /\ l = 4
  BY <1>9
<1>10. CASE w = 8 /\ l = 8
  BY <1>10
<1> QED BY <1>1, <1>2, <1>3, <1>4, <1>5, <1>6, <1>7, <1>8, <1>9, <1>10

\* A byte of memory after the stores of the map.
Overlaid(map, mem, a) ==
    LET offset == a % WordBytes
        align == a - offset
    IN IF align \in DOMAIN map /\ offset \in map[align].mask
         THEN map[align].data[offset] ELSE mem[a]

\* The entry that is merged last has its bytes, and no others.
LEMMA MergedByte ==
  ASSUME NEW map, NEW mem, NEW e \in LogEntry, NEW a \in Addr
  PROVE  Overlaid(Merged(map, e), mem, a) =
           IF Covers(e, a) THEN e.data[a - e.addr] ELSE Overlaid(map, mem, a)
<1>1. PICK x \in Nat, l \in Width : x = e.addr /\ l = e.len /\ l <= WordBytes /\ x % l = 0
  BY EntryType DEF Width
<1>2. WordBytes \in Width /\ a \in Nat
  BY SpikeAssumption DEF Addr, Width
<1>3. PICK o, q : o = x % WordBytes /\ q = a % WordBytes
  OBVIOUS
<1>4. /\ o \in 0 .. WordBytes - 1 /\ q \in 0 .. WordBytes - 1
      /\ (a - q = x - o /\ q \in o .. o + l - 1) <=> (a \in x .. x + l - 1)
      /\ a - q = x - o => q - o = a - x
  <2>1. InWord(WordBytes, l, x, o, a, q)
    BY <1>1, <1>2, <1>3, WithinWord
  <2> QED BY <2>1 DEF InWord
<1>5. PICK old : old = IF x - o \in DOMAIN map THEN map[x - o]
                       ELSE [mask |-> {}, data |-> [i \in 0 .. WordBytes - 1 |-> 0]]
  OBVIOUS
<1>6. PICK mask : mask = o .. o + l - 1
  OBVIOUS
<1>7. PICK word : word = [mask |-> old.mask \cup mask,
                          data |-> [i \in 0 .. WordBytes - 1 |->
                                      IF i \in mask THEN e.data[i - o] ELSE old.data[i]]]
  OBVIOUS
<1>8. Merged(map, e) = [b \in DOMAIN map \cup {x - o} |-> IF b = x - o THEN word ELSE map[b]]
  BY <1>1, <1>3, <1>5, <1>6, <1>7 DEF Merged, Bytes
<1>9. Covers(e, a) <=> (a - q = x - o /\ q \in mask)
  BY <1>1, <1>4, <1>6 DEF Covers, Bytes
<1>10. CASE Covers(e, a)
  <2>1. a - q = x - o /\ q \in mask /\ q - o = a - x
    BY <1>4, <1>9, <1>10
  <2>2. Merged(map, e)[a - q] = word /\ a - q \in DOMAIN Merged(map, e)
    BY <1>8, <2>1
  <2>3. q \in word.mask /\ word.data[q] = e.data[a - x]
    BY <1>4, <1>7, <2>1
  <2> QED BY <1>1, <1>3, <1>10, <2>2, <2>3 DEF Overlaid
<1>11. CASE ~Covers(e, a) /\ a - q = x - o
  <2>1. q \notin mask
    BY <1>9, <1>11
  <2>2. Merged(map, e)[a - q] = word /\ a - q \in DOMAIN Merged(map, e)
    BY <1>8, <1>11
  <2>3. (q \in word.mask <=> q \in old.mask) /\ word.data[q] = old.data[q]
    BY <1>4, <1>7, <2>1
  <2>4. (q \in old.mask <=> (a - q \in DOMAIN map /\ q \in map[a - q].mask))
        /\ (a - q \in DOMAIN map => old = map[a - q])
    BY <1>5, <1>11
  <2>5. Overlaid(Merged(map, e), mem, a) = IF q \in old.mask THEN old.data[q] ELSE mem[a]
    BY <1>3, <2>2, <2>3 DEF Overlaid
  <2>6. Overlaid(map, mem, a) = IF q \in old.mask THEN old.data[q] ELSE mem[a]
    BY <1>3, <2>4 DEF Overlaid
  <2> QED BY <1>11, <2>5, <2>6
<1>12. CASE ~Covers(e, a) /\ a - q # x - o
  <2>1. (a - q \in DOMAIN Merged(map, e) <=> a - q \in DOMAIN map)
        /\ (a - q \in DOMAIN map => Merged(map, e)[a - q] = map[a - q])
    BY <1>8, <1>12
  <2> QED BY <1>3, <1>12, <2>1 DEF Overlaid
<1> QED BY <1>10, <1>11, <1>12

\* Storing the newest entry and forgetting it leaves what the log restores.
LEMMA RestoresLeft ==
  ASSUME NEW d \in Log, NEW n \in Nat \ {0}, n = Len(d), NEW k \in Nat, k = Len(d[n]),
         NEW mem, NEW next, NEW target, Restores(d, mem, target),
         \A a \in Addr : next[a] = IF k # 0 /\ Covers(d[n][k], a)
                                     THEN d[n][k].data[a - d[n][k].addr] ELSE mem[a]
  PROVE  Restores(Left(d), next, target)
<1>1. PICK r : r = Left(d)
  OBVIOUS
<1> SUFFICES ASSUME NEW a \in Addr
             PROVE  \/ next[a] = target[a] /\ NoneCovers(r, a)
                    \/ \E i, j \in Nat : OldestHas(r, a, i, j, target[a])
  BY <1>1 DEF Restores
<1>2. \A i, j \in Nat : /\ InLog(r, i, j) <=> (InLog(d, i, j) /\ ~(i = n /\ j = k))
                        /\ InLog(r, i, j) => r[i][j] = d[i][j]
  BY <1>1, LeftPlaces
<1>3. k # 0 => InLog(d, n, k)
  BY DEF InLog
<1>4. \A i, j \in Nat : (InLog(d, i, j) /\ ~(i = n /\ j = k)) => (i < n \/ (i = n /\ j < k))
  BY DEF InLog
<1>5. CASE mem[a] = target[a] /\ NoneCovers(d, a)
  <2>1. k # 0 => ~Covers(d[n][k], a)
    BY <1>3, <1>5 DEF NoneCovers
  <2>2. next[a] = target[a]
    BY <1>5, <2>1
  <2>3. NoneCovers(r, a)
    BY <1>2, <1>5 DEF NoneCovers
  <2> QED BY <2>2, <2>3
<1>6. ASSUME NEW i \in Nat, NEW j \in Nat, OldestHas(d, a, i, j, target[a])
      PROVE  \/ next[a] = target[a] /\ NoneCovers(r, a)
             \/ \E x, y \in Nat : OldestHas(r, a, x, y, target[a])
  <2>1. /\ InLog(d, i, j) /\ Covers(d[i][j], a) /\ FirstFor(d, a, i, j)
        /\ d[i][j].data[a - d[i][j].addr] = target[a]
    BY <1>6 DEF OldestHas
  <2>2. CASE i = n /\ j = k
    <3>1. k # 0 /\ next[a] = target[a]
      BY <2>1, <2>2 DEF InLog
    <3>2. NoneCovers(r, a)
      BY <1>2, <1>4, <2>1, <2>2 DEF NoneCovers, FirstFor
    <3> QED BY <3>1, <3>2
  <2>3. CASE ~(i = n /\ j = k)
    <3>1. InLog(r, i, j) /\ r[i][j] = d[i][j]
      BY <1>2, <2>1, <2>3
    <3>2. FirstFor(r, a, i, j)
      BY <1>2, <2>1 DEF FirstFor
    <3>3. OldestHas(r, a, i, j, target[a])
      BY <2>1, <3>1, <3>2 DEF OldestHas
    <3> QED BY <3>3
  <2> QED BY <2>2, <2>3
<1> QED BY <1>5, <1>6 DEF Restores

\* The simulator's memory with the map stored into it.
WithMap(map, mem) == [a \in Addr |-> Overlaid(map, mem, a)]

\* The loop of MemoryRollBack_ on its way: what is left of the log leads from
\* the memory with the map to target.
OnTheWay(s, mem, target) ==
    /\ s.backup.data \in Log
    /\ s.backup.data = << >> => s.backup = EmptyBackup
    /\ Restores(s.backup.data, WithMap(s.map, mem), target)

LEMMA TurnIs ==
  ASSUME NEW s, s.backup.data # << >>,
         NEW n, n = Len(s.backup.data), NEW k, k = Len(s.backup.data[n])
  PROVE  /\ UnwindTurn(s).backup.data = Left(s.backup.data)
         /\ Left(s.backup.data) = << >> => UnwindTurn(s).backup = EmptyBackup
         /\ k = 0 => UnwindTurn(s).map = s.map
         /\ (k # 0 /\ s.backup.data[n][k].addr # 0) =>
               UnwindTurn(s).map = Merged(s.map, s.backup.data[n][k])
<1>1. PICK got : got = GetBackupEntry(s.backup, NoMemoryEntry)
  OBVIOUS
<1>2. UnwindTurn(s) = [backup |-> got.backup,
                       map |-> IF got.entry.addr = 0 THEN s.map ELSE Merged(s.map, got.entry)]
  BY <1>1 DEF UnwindTurn, BackupIsEmpty
<1>3. got = [entry |-> IF k = 0 THEN NoMemoryEntry ELSE s.backup.data[n][k],
             backup |-> [stable |-> Left(s.backup.data) = << >>, data |-> Left(s.backup.data)]]
  BY <1>1 DEF GetBackupEntry, Left
<1>4. /\ got.backup = [stable |-> Left(s.backup.data) = << >>, data |-> Left(s.backup.data)]
      /\ got.entry = IF k = 0 THEN NoMemoryEntry ELSE s.backup.data[n][k]
  BY <1>3
<1>5. Left(s.backup.data) = << >> => got.backup = EmptyBackup
  BY <1>4 DEF EmptyBackup
<1>6. NoMemoryEntry.addr = 0
  BY DEF NoMemoryEntry
<1> QED BY SMTT(60), <1>2, <1>4, <1>5, <1>6

LEMMA TurnKeepsOn ==
  ASSUME NEW s, NEW mem, NEW target, OnTheWay(s, mem, target)
  PROVE  OnTheWay(UnwindTurn(s), mem, target)
<1>1. PICK d : d = s.backup.data
  OBVIOUS
<1>2. d \in Log /\ Restores(d, WithMap(s.map, mem), target)
  BY <1>1 DEF OnTheWay
<1>3. CASE d = << >>
  BY <1>1, <1>3 DEF UnwindTurn, BackupIsEmpty
<1>4. CASE d # << >>
  <2>1. PICK n \in Nat \ {0} : n = Len(d)
    BY <1>2, <1>4 DEF Log
  <2>2. d[n] \in Seq(LogEntry)
    BY <1>2, <2>1 DEF Log
  <2>3. PICK k \in Nat : k = Len(d[n])
    BY <2>2
  <2>4. k # 0 => d[n][k] \in LogEntry /\ d[n][k].addr # 0
    <3>1. k # 0 => d[n][k] \in LogEntry
      BY <2>2, <2>3
    <3> QED BY <3>1, EntryType
  <2>5. PICK t : t = UnwindTurn(s)
    OBVIOUS
  <2>6. /\ t.backup.data = Left(d) /\ (Left(d) = << >> => t.backup = EmptyBackup)
        /\ t.map = IF k = 0 THEN s.map ELSE Merged(s.map, d[n][k])
    BY <1>1, <1>4, <2>1, <2>3, <2>4, <2>5, TurnIs
  <2>7. Left(d) \in Log
    BY <1>2, <2>1, <2>3, LeftShape
  <2>8. \A a \in Addr : WithMap(t.map, mem)[a] =
             IF k # 0 /\ Covers(d[n][k], a) THEN d[n][k].data[a - d[n][k].addr]
             ELSE WithMap(s.map, mem)[a]
    BY <2>4, <2>6, MergedByte DEF WithMap
  <2>9. Restores(Left(d), WithMap(t.map, mem), target)
    BY <1>2, <2>1, <2>3, <2>8, RestoresLeft
  <2> QED BY <2>5, <2>6, <2>7, <2>9 DEF OnTheWay
<1> QED BY <1>3, <1>4

-----------------------------------------------------------------------------
(* The loop ends: there are as many turns as the log has entries and       *)
(* checkpoints, and each takes at least one of them.                       *)

IsSize(d, f) ==
    /\ f \in [0 .. Len(d) -> Nat] /\ f[0] = 0
    /\ \A i \in 1 .. Len(d) : f[i] = f[i - 1] + 1 + Len(d[i])

SizeAtMost(d, m) == \E f : IsSize(d, f) /\ f[Len(d)] <= m

LEMMA SizeExists == ASSUME NEW d \in Log PROVE \E f : IsSize(d, f)
<1>1. PICK n \in Nat : n = Len(d)
  BY DEF Log
<1>2. \A i \in 1 .. n : Len(d[i]) \in Nat
  BY <1>1 DEF Log
<1>3. PICK w : w = [i \in 1 .. n |-> 1 + Len(d[i])]
  OBVIOUS
<1>4. w \in [1 .. n -> Nat]
  BY <1>2, <1>3
<1>5. PICK f : PartialSums(n, w, f)
  BY <1>4, PartialSumsExist
<1>6. ASSUME NEW i \in 1 .. n PROVE f[i] = f[i - 1] + 1 + Len(d[i])
  <2>1. f[i] = f[i - 1] + w[i] /\ f[i - 1] \in Nat
    BY <1>5 DEF PartialSums
  <2>2. PICK x \in Nat, y \in Nat : x = Len(d[i]) /\ y = f[i - 1]
    BY <1>2, <2>1
  <2>3. f[i] = y + (1 + x)
    BY <1>3, <2>1, <2>2
  <2>4. f[i] = y + 1 + x
    BY <2>3
  <2> QED BY <2>2, <2>4
<1>7. IsSize(d, f)
  BY <1>1, <1>5, <1>6 DEF PartialSums, IsSize
<1> QED BY <1>7

LEMMA TurnsIs == ASSUME NEW b, b.data \in Log PROVE Turns(b) \in Nat /\ SizeAtMost(b.data, Turns(b))
<1>1. PICK d \in Log : d = b.data
  OBVIOUS
<1>2. PICK n \in Nat : n = Len(d)
  BY DEF Log
<1>3. PICK f : IsSize(d, f)
  BY SizeExists
<1>4. f = [i \in 0 .. Len(b.data) |-> IF i = 0 THEN 0 ELSE f[i - 1] + 1 + Len(b.data[i])]
  <2>1. f \in [0 .. n -> Nat] /\ \A i \in 0 .. n : f[i] = IF i = 0 THEN 0 ELSE f[i - 1] + 1 + Len(d[i])
    BY <1>2, <1>3 DEF IsSize
  <2> QED BY <1>1, <1>2, <2>1
<1> DEFINE upTo == CHOOSE upTo : upTo = [i \in 0 .. Len(b.data) |->
                                   IF i = 0 THEN 0 ELSE upTo[i - 1] + 1 + Len(b.data[i])]
<1>5. upTo = [i \in 0 .. Len(b.data) |-> IF i = 0 THEN 0 ELSE upTo[i - 1] + 1 + Len(b.data[i])]
  BY <1>4
<1>6. Turns(b) = upTo[n]
  BY <1>1, <1>2 DEF Turns
<1> HIDE DEF upTo
<1>7. \A i \in 0 .. n : upTo[i] = IF i = 0 THEN 0 ELSE upTo[i - 1] + 1 + Len(d[i])
  BY <1>1, <1>2, <1>5
<1> DEFINE S == {i \in Nat : i <= n => upTo[i] = f[i]}
<1>8. 0 \in S
  BY <1>2, <1>3, <1>7 DEF IsSize
<1>9. ASSUME NEW i \in Nat, i \in S PROVE i + 1 \in S
  <2>1. CASE i + 1 <= n
    <3>1. upTo[i + 1] = upTo[i] + 1 + Len(d[i + 1])
      BY <1>7, <2>1
    <3>2. f[i + 1] = f[i] + 1 + Len(d[i + 1])
      BY <1>2, <1>3, <2>1 DEF IsSize
    <3>3. upTo[i] = f[i]
      BY <1>9, <2>1
    <3>4. upTo[i + 1] = f[i + 1]
      BY <3>1, <3>2, <3>3
    <3> QED BY <3>4
  <2> QED BY <2>1
<1> HIDE DEF S
<1>10. n \in S
  BY <1>8, <1>9, NatSetInduction
<1>11. Turns(b) = f[n] /\ f[n] \in Nat
  BY <1>2, <1>3, <1>6, <1>10 DEF S, IsSize
<1> QED BY <1>1, <1>2, <1>3, <1>11 DEF SizeAtMost

LEMMA SizeLeft ==
  ASSUME NEW d \in Log, d # << >>, NEW m \in Int, SizeAtMost(d, m)
  PROVE  SizeAtMost(Left(d), m - 1)
<1>1. PICK n \in Nat \ {0} : n = Len(d)
  BY DEF Log
<1>2. d[n] \in Seq(LogEntry)
  BY <1>1 DEF Log
<1>3. PICK k \in Nat : k = Len(d[n])
  BY <1>2
<1>4. PICK f : IsSize(d, f) /\ f[n] <= m
  BY <1>1 DEF SizeAtMost
<1>5. /\ f \in [0 .. n -> Nat] /\ f[0] = 0
      /\ \A i \in 1 .. n : f[i] = f[i - 1] + 1 + Len(d[i])
  BY <1>1, <1>4 DEF IsSize
<1>6. f[n - 1] \in Nat /\ f[n] = f[n - 1] + 1 + k
  BY <1>1, <1>3, <1>5
<1>7. PICK r : r = Left(d)
  OBVIOUS
<1>8. CASE k <= 1
  <2>1. Len(r) = n - 1 /\ \A i \in 1 .. n - 1 : r[i] = d[i]
    BY <1>1, <1>3, <1>7, <1>8, LeftShape
  <2>2. PICK g : g = [i \in 0 .. n - 1 |-> f[i]]
    OBVIOUS
  <2>3. g \in [0 .. n - 1 -> Nat] /\ g[0] = 0
    BY <1>5, <2>2
  <2>4. ASSUME NEW i \in 1 .. n - 1 PROVE g[i] = g[i - 1] + 1 + Len(r[i])
    <3>1. g[i] = f[i] /\ g[i - 1] = f[i - 1] /\ r[i] = d[i] /\ i \in 1 .. n
      BY <2>1, <2>2
    <3> QED BY <1>5, <3>1
  <2>5. IsSize(r, g)
    BY <2>1, <2>3, <2>4 DEF IsSize
  <2>6. g[n - 1] <= m - 1
    BY <1>4, <1>6, <2>2
  <2> QED BY <1>7, <2>1, <2>5, <2>6 DEF SizeAtMost
<1>9. CASE k > 1
  <2>1. Len(r) = n /\ Len(r[n]) = k - 1 /\ \A i \in 1 .. n : i # n => r[i] = d[i]
    BY <1>1, <1>3, <1>7, <1>9, LeftShape
  <2>2. PICK g : g = [i \in 0 .. n |-> IF i = n THEN f[n] - 1 ELSE f[i]]
    OBVIOUS
  <2>3. f[n] - 1 \in Nat /\ f[n] - 1 <= m - 1
    BY <1>4, <1>6
  <2>4. g \in [0 .. n -> Nat] /\ g[0] = 0
    BY <1>5, <2>2, <2>3
  <2>5. ASSUME NEW i \in 1 .. n PROVE g[i] = g[i - 1] + 1 + Len(r[i])
    <3>1. CASE i = n
      <4>1. g[i - 1] = f[n - 1] /\ g[i] = f[n] - 1 /\ Len(r[i]) = k - 1
        BY <2>1, <2>2, <3>1
      <4> QED BY <1>6, <4>1
    <3>2. CASE i # n
      <4>1. g[i] = f[i] /\ g[i - 1] = f[i - 1] /\ r[i] = d[i]
        BY <2>1, <2>2, <3>2
      <4> QED BY <1>5, <4>1
    <3> QED BY <3>1, <3>2
  <2>6. IsSize(r, g)
    BY <2>1, <2>4, <2>5 DEF IsSize
  <2>7. g[n] <= m - 1
    BY <2>2, <2>3
  <2> QED BY <1>7, <2>1, <2>6, <2>7 DEF SizeAtMost
<1> QED BY <1>8, <1>9

LEMMA SizeZero == ASSUME NEW d \in Log, SizeAtMost(d, 0) PROVE d = << >>
<1> SUFFICES ASSUME d # << >> PROVE FALSE
  OBVIOUS
<1>1. PICK n \in Nat \ {0} : n = Len(d)
  BY DEF Log
<1>2. Len(d[n]) \in Nat
  BY <1>1 DEF Log
<1>3. PICK f : IsSize(d, f) /\ f[n] <= 0
  BY <1>1 DEF SizeAtMost
<1>4. f[n - 1] \in Nat /\ f[n] = f[n - 1] + 1 + Len(d[n])
  BY <1>1, <1>3 DEF IsSize
<1> QED BY <1>2, <1>3, <1>4

\* The states of the loop, one after each turn.
Unwinds(b, t, f) ==
    f = [n \in 0 .. t |-> IF n = 0 THEN [backup |-> b, map |-> [a \in {} |-> 0]]
                          ELSE UnwindTurn(f[n - 1])]

LEMMA UnwindsExists == ASSUME NEW b, NEW t \in Nat PROVE \E f : Unwinds(b, t, f)
<1>1. PICK start : start = [backup |-> b, map |-> [a \in {} |-> 0]]
  OBVIOUS
<1> DEFINE S == {m \in Nat : \E f : Unwinds(b, m, f)}
<1>2. 0 \in S
  <2>1. PICK f : f = [n \in 0 .. 0 |-> start]
    OBVIOUS
  <2>2. f = [n \in 0 .. 0 |-> IF n = 0 THEN start ELSE UnwindTurn(f[n - 1])]
    BY <2>1
  <2>3. Unwinds(b, 0, f)
    BY <1>1, <2>2 DEF Unwinds
  <2> QED BY <2>3
<1>3. ASSUME NEW m \in Nat, m \in S PROVE m + 1 \in S
  <2>1. PICK f : Unwinds(b, m, f)
    BY <1>3
  <2>2. f = [n \in 0 .. m |-> IF n = 0 THEN start ELSE UnwindTurn(f[n - 1])]
    BY <1>1, <2>1 DEF Unwinds
  <2>3. PICK g : g = [n \in 0 .. m + 1 |-> IF n = m + 1 THEN UnwindTurn(f[m]) ELSE f[n]]
    OBVIOUS
  <2>4. ASSUME NEW n \in 0 .. m + 1
        PROVE  g[n] = IF n = 0 THEN start ELSE UnwindTurn(g[n - 1])
    <3>1. CASE n = m + 1
      <4>1. g[n] = UnwindTurn(f[m]) /\ g[n - 1] = f[m] /\ n # 0
        BY <2>3, <3>1
      <4> QED BY <4>1
    <3>2. CASE n = 0
      BY <2>2, <2>3, <3>2
    <3>3. CASE n # 0 /\ n # m + 1
      <4>1. g[n] = f[n] /\ g[n - 1] = f[n - 1]
        BY <2>3, <3>3
      <4>2. f[n] = UnwindTurn(f[n - 1])
        BY <2>2, <3>3
      <4> QED BY <3>3, <4>1, <4>2
    <3> QED BY <3>1, <3>2, <3>3
  <2>5. g = [n \in 0 .. m + 1 |-> IF n = 0 THEN start ELSE UnwindTurn(g[n - 1])]
    BY <2>3, <2>4
  <2>6. Unwinds(b, m + 1, g)
    BY <1>1, <2>5 DEF Unwinds
  <2> QED BY <2>6
<1> HIDE DEF S
<1>4. t \in S
  BY <1>2, <1>3, NatSetInduction
<1> QED BY <1>4 DEF S

\* After all the turns the log is empty and the memory with the map is what the
\* log restores.
LEMMA UnwoundIs ==
  ASSUME NEW b, NEW mem, NEW target,
         b.data \in Log, b.data = << >> => b = EmptyBackup, Restores(b.data, mem, target)
  PROVE  /\ Unwound(b, Turns(b)).backup = EmptyBackup
         /\ \A a \in Addr : Overlaid(Unwound(b, Turns(b)).map, mem, a) = target[a]
<1>1. PICK t \in Nat : t = Turns(b) /\ SizeAtMost(b.data, t)
  BY TurnsIs
<1>2. PICK start : start = [backup |-> b, map |-> [a \in {} |-> 0]]
  OBVIOUS
<1> DEFINE after == CHOOSE after : after =
              [n \in 0 .. t |-> IF n = 0 THEN [backup |-> b, map |-> [a \in {} |-> 0]]
                                ELSE UnwindTurn(after[n - 1])]
<1>3. after = [n \in 0 .. t |-> IF n = 0 THEN [backup |-> b, map |-> [a \in {} |-> 0]]
                                ELSE UnwindTurn(after[n - 1])]
  BY SMTT(60), UnwindsExists DEF Unwinds
<1>4. Unwound(b, t) = after[t]
  BY DEF Unwound
<1> HIDE DEF after
<1>5. after[0] = start /\ \A n \in 1 .. t : after[n] = UnwindTurn(after[n - 1])
  BY <1>2, <1>3
<1> DEFINE S == {n \in Nat : n <= t => /\ OnTheWay(after[n], mem, target)
                                       /\ \/ after[n].backup.data = << >>
                                          \/ SizeAtMost(after[n].backup.data, t - n)}
<1>6. 0 \in S
  <2>1. start.backup = b /\ start.map = [a \in {} |-> 0]
    BY <1>2
  <2>2. \A a \in Addr : Overlaid(start.map, mem, a) = mem[a]
    BY <2>1 DEF Overlaid
  <2>3. Restores(b.data, WithMap(start.map, mem), target)
    BY <2>2 DEF Restores, WithMap
  <2>4. OnTheWay(start, mem, target)
    BY <2>1, <2>3 DEF OnTheWay
  <2>5. t - 0 = t
    OBVIOUS
  <2> QED BY <1>1, <1>5, <2>1, <2>4, <2>5
<1>7. ASSUME NEW n \in Nat, n \in S PROVE n + 1 \in S
  <2> SUFFICES ASSUME n + 1 <= t
               PROVE  /\ OnTheWay(after[n + 1], mem, target)
                      /\ \/ after[n + 1].backup.data = << >>
                         \/ SizeAtMost(after[n + 1].backup.data, t - (n + 1))
    OBVIOUS
  <2>1. /\ OnTheWay(after[n], mem, target)
        /\ after[n].backup.data = << >> \/ SizeAtMost(after[n].backup.data, t - n)
    BY <1>7
  <2>2. after[n + 1] = UnwindTurn(after[n])
    BY <1>5
  <2>3. OnTheWay(after[n + 1], mem, target)
    BY <2>1, <2>2, TurnKeepsOn
  <2>4. PICK d : d = after[n].backup.data
    OBVIOUS
  <2>5. CASE d = << >>
    BY <2>2, <2>3, <2>4, <2>5 DEF UnwindTurn, BackupIsEmpty
  <2>6. CASE d # << >>
    <3>1. d \in Log /\ SizeAtMost(d, t - n) /\ t - n \in Int /\ t - n - 1 = t - (n + 1)
      BY <2>1, <2>4, <2>6 DEF OnTheWay
    <3>2. SizeAtMost(Left(d), t - (n + 1))
      BY <2>6, <3>1, SizeLeft
    <3>3. after[n + 1].backup.data = Left(d)
      BY <2>2, <2>4, <2>6, TurnIs
    <3> QED BY <2>3, <3>2, <3>3
  <2> QED BY <2>5, <2>6
<1> HIDE DEF S
<1>8. t \in S
  BY <1>6, <1>7, NatSetInduction
<1>9. /\ OnTheWay(after[t], mem, target)
      /\ after[t].backup.data = << >> \/ SizeAtMost(after[t].backup.data, t - t)
  BY <1>8 DEF S
<1>10. after[t].backup.data = << >>
  <2>1. t - t = 0 /\ after[t].backup.data \in Log
    BY <1>9 DEF OnTheWay
  <2> QED BY <1>9, <2>1, SizeZero
<1>11. /\ after[t].backup = EmptyBackup
       /\ Restores(<< >>, WithMap(after[t].map, mem), target)
  BY <1>9, <1>10 DEF OnTheWay
<1>12. \A i, j \in Nat : ~InLog(<< >>, i, j)
  BY DEF InLog
<1>13. \A a \in Addr : WithMap(after[t].map, mem)[a] = target[a]
  BY <1>11, <1>12 DEF Restores, OldestHas
<1> QED BY <1>1, <1>4, <1>11, <1>13 DEF WithMap

\* RollBack: the memory becomes what the log restores, and the log is empty.
LEMMA RollBackIs ==
  ASSUME NEW b, NEW target \in [Addr -> Value],
         b.data \in Log, b.data = << >> => b = EmptyBackup,
         Restores(b.data, spike_sim.mem, target)
  PROVE  MemoryRollBack_(b) = target /\ BackupAfterRollBack(b) = EmptyBackup
<1>1. /\ Unwound(b, Turns(b)).backup = EmptyBackup
      /\ \A a \in Addr : Overlaid(Unwound(b, Turns(b)).map, spike_sim.mem, a) = target[a]
  BY ZenonT(60), UnwoundIs
<1>2. MemoryRollBack_(b) = [a \in Addr |-> Overlaid(Unwound(b, Turns(b)).map, spike_sim.mem, a)]
  BY DEF MemoryRollBack_, memory_clean_backup_map, Overlaid
<1> QED BY <1>1, <1>2 DEF BackupAfterRollBack

-----------------------------------------------------------------------------
(* What the operations on the log do to what it restores.                  *)

\* A log without its first c checkpoints, which have no entries.
LEMMA RestoresMoved ==
  ASSUME NEW d, NEW r, NEW c \in Nat, NEW mem, NEW target, Restores(d, mem, target),
         \A i, j \in Nat : /\ InLog(r, i, j) <=> InLog(d, i + c, j)
                           /\ InLog(r, i, j) => r[i][j] = d[i + c][j],
         \A i, j \in Nat : InLog(d, i, j) => i >= c
  PROVE  Restores(r, mem, target)
<1> SUFFICES ASSUME NEW a \in Addr
             PROVE  \/ mem[a] = target[a] /\ NoneCovers(r, a)
                    \/ \E i, j \in Nat : OldestHas(r, a, i, j, target[a])
  BY DEF Restores
<1>1. CASE mem[a] = target[a] /\ NoneCovers(d, a)
  <2>1. \A i \in Nat : i + c \in Nat
    OBVIOUS
  <2>2. NoneCovers(r, a)
    BY <1>1, <2>1 DEF NoneCovers
  <2> QED BY <1>1, <2>2
<1>2. ASSUME NEW i \in Nat, NEW j \in Nat, OldestHas(d, a, i, j, target[a])
      PROVE  \E x, y \in Nat : OldestHas(r, a, x, y, target[a])
  <2>1. /\ InLog(d, i, j) /\ Covers(d[i][j], a) /\ FirstFor(d, a, i, j)
        /\ d[i][j].data[a - d[i][j].addr] = target[a]
    BY <1>2 DEF OldestHas
  <2>2. PICK x \in Nat : x + c = i
    <3>1. i - c \in Nat /\ (i - c) + c = i
      BY <2>1
    <3> QED BY <3>1
  <2>3. InLog(r, x, j) /\ r[x][j] = d[i][j]
    BY <2>1, <2>2
  <2>4. FirstFor(r, a, x, j)
    <3> SUFFICES ASSUME NEW m \in Nat, NEW n \in Nat, InLog(r, m, n), m < x \/ (m = x /\ n < j)
                 PROVE  ~Covers(r[m][n], a)
      BY DEF FirstFor
    <3>1. m + c \in Nat /\ (m + c < i \/ (m + c = i /\ n < j))
      BY <2>2
    <3>2. InLog(d, m + c, n) /\ r[m][n] = d[m + c][n]
      OBVIOUS
    <3> QED BY <2>1, <3>1, <3>2 DEF FirstFor
  <2>5. OldestHas(r, a, x, j, target[a])
    BY <2>1, <2>3, <2>4 DEF OldestHas
  <2> QED BY <2>5
<1> QED BY <1>1, <1>2 DEF Restores

\* MakeBackupEntry: a checkpoint with no entries.
LEMMA RestoresNewCheckpoint ==
  ASSUME NEW d \in Log, NEW mem, NEW target, Restores(d, mem, target)
  PROVE  Append(d, << >>) \in Log /\ Restores(Append(d, << >>), mem, target)
<1>1. PICK n \in Nat : n = Len(d)
  BY DEF Log
<1>2. PICK r : r = Append(d, << >>)
  OBVIOUS
<1>3. << >> \in Seq(LogEntry) /\ d \in Seq(Seq(LogEntry))
  BY DEF Log
<1>4. /\ r \in Seq(Seq(LogEntry)) /\ Len(r) = n + 1 /\ r[n + 1] = << >>
      /\ \A i \in 1 .. n : r[i] = d[i]
  BY <1>1, <1>2, <1>3, AppendPlaces
<1>5. ASSUME NEW i \in Nat, NEW j \in Nat
      PROVE  /\ InLog(r, i, j) <=> InLog(d, i + 0, j)
             /\ InLog(r, i, j) => r[i][j] = d[i + 0][j]
  <2>1. i + 0 = i
    OBVIOUS
  <2>2. CASE i = n + 1
    <3>1. Len(r[i]) = 0 /\ i \notin 1 .. n
      BY <1>4, <2>2
    <3> QED BY <1>1, <2>1, <3>1 DEF InLog
  <2>3. CASE i # n + 1
    <3>1. (i \in 1 .. n + 1 <=> i \in 1 .. n) /\ (i \in 1 .. n => r[i] = d[i])
      BY <1>4, <2>3
    <3> QED BY <1>1, <1>4, <2>1, <3>1 DEF InLog
  <2> QED BY <2>2, <2>3
<1>6. \A i, j \in Nat : InLog(d, i, j) => i >= 0
  OBVIOUS
<1>7. Restores(r, mem, target)
  <2>1. 0 \in Nat
    OBVIOUS
  <2> QED BY <1>5, <1>6, <2>1, RestoresMoved
<1> QED BY <1>2, <1>4, <1>7 DEF Log

\* BackupPop: the oldest checkpoints go.
LEMMA RestoresDropped ==
  ASSUME NEW d \in Log, NEW mem, NEW target, Restores(d, mem, target),
         NEW c \in 0 .. Len(d), \A i \in 1 .. c : d[i] = << >>
  PROVE  /\ SubSeq(d, c + 1, Len(d)) \in Log
         /\ Restores(SubSeq(d, c + 1, Len(d)), mem, target)
<1>1. PICK n \in Nat : n = Len(d)
  BY DEF Log
<1>2. PICK r : r = SubSeq(d, c + 1, Len(d))
  OBVIOUS
<1>3. d \in Seq(Seq(LogEntry)) /\ c \in Nat /\ c <= n
  BY <1>1 DEF Log
<1>4. r \in Seq(Seq(LogEntry)) /\ Len(r) = n - c /\ \A i \in 1 .. n - c : r[i] = d[c + i]
  BY <1>1, <1>2, <1>3, DropPlaces
<1>5. ASSUME NEW i \in Nat, NEW j \in Nat
      PROVE  /\ InLog(r, i, j) <=> InLog(d, i + c, j)
             /\ InLog(r, i, j) => r[i][j] = d[i + c][j]
  <2>1. CASE i = 0
    <3>1. i + c = c /\ i \notin 1 .. n - c
      BY <1>3, <2>1
    <3>2. ~InLog(d, c, j)
      <4>1. c \in 1 .. Len(d) => Len(d[c]) = 0
        BY <1>3
      <4> QED BY <4>1 DEF InLog
    <3> QED BY <1>4, <3>1, <3>2 DEF InLog
  <2>2. CASE i # 0
    <3>1. /\ i \in 1 .. n - c <=> i + c \in 1 .. n
          /\ i + c = c + i
      BY <1>3, <2>2
    <3>2. i \in 1 .. n - c => r[i] = d[i + c]
      BY <1>4, <3>1
    <3> QED BY <1>1, <1>4, <3>1, <3>2 DEF InLog
  <2> QED BY <2>1, <2>2
<1>6. ASSUME NEW i \in Nat, NEW j \in Nat, InLog(d, i, j) PROVE i >= c
  <2>1. i \in 1 .. c => Len(d[i]) = 0
    OBVIOUS
  <2> QED BY <1>3, <1>6, <2>1 DEF InLog
<1>7. Restores(r, mem, target)
  BY <1>3, <1>5, <1>6, RestoresMoved
<1> QED BY <1>2, <1>4, <1>7 DEF Log

\* BackupPush with the bytes that a store overwrites.
LEMMA RestoresPushed ==
  ASSUME NEW d \in Log, NEW n \in Nat \ {0}, n = Len(d), NEW e \in LogEntry,
         NEW mem, NEW next, NEW target, Restores(d, mem, target),
         \A a \in Addr : IF Covers(e, a) THEN e.data[a - e.addr] = mem[a] ELSE next[a] = mem[a]
  PROVE  /\ [d EXCEPT ![n] = Append(@, e)] \in Log
         /\ Restores([d EXCEPT ![n] = Append(@, e)], next, target)
<1>1. PICK r : r = [d EXCEPT ![n] = Append(@, e)]
  OBVIOUS
<1>2. d \in Seq(Seq(LogEntry)) /\ d[n] \in Seq(LogEntry)
  BY DEF Log
<1>3. PICK k \in Nat : k = Len(d[n])
  BY <1>2
<1>4. PICK s : s = Append(d[n], e)
  OBVIOUS
<1>5. /\ s \in Seq(LogEntry) /\ Len(s) = k + 1 /\ s[k + 1] = e
      /\ \A j \in 1 .. k : s[j] = d[n][j]
  BY <1>2, <1>3, <1>4, AppendPlaces
<1>6. r = [d EXCEPT ![n] = s]
  BY <1>1, <1>4
<1>7. /\ r \in Seq(Seq(LogEntry)) /\ Len(r) = n /\ r[n] = s
      /\ \A i \in 1 .. n : i # n => r[i] = d[i]
  BY <1>2, <1>5, <1>6
<1>8. InLog(r, n, k + 1) /\ r[n][k + 1] = e
  BY <1>5, <1>7 DEF InLog
<1>9. ASSUME NEW i \in Nat, NEW j \in Nat
      PROVE  /\ InLog(r, i, j) <=> (InLog(d, i, j) \/ (i = n /\ j = k + 1))
             /\ InLog(d, i, j) => r[i][j] = d[i][j]
  <2>1. CASE i = n
    <3>1. (InLog(r, i, j) <=> j \in 1 .. k + 1) /\ (InLog(d, i, j) <=> j \in 1 .. k)
      BY <1>3, <1>5, <1>7, <2>1 DEF InLog
    <3>2. j \in 1 .. k + 1 <=> (j \in 1 .. k \/ j = k + 1)
      OBVIOUS
    <3>3. j \in 1 .. k => r[i][j] = d[i][j]
      BY <1>5, <1>7, <2>1
    <3> QED BY <2>1, <3>1, <3>2, <3>3
  <2>2. CASE i # n
    <3>1. i \in 1 .. n => r[i] = d[i]
      BY <1>7, <2>2
    <3> QED BY <1>7, <2>2, <3>1 DEF InLog
  <2> QED BY <2>1, <2>2
<1>10. \A i, j \in Nat : InLog(d, i, j) => (i < n \/ (i = n /\ j < k + 1))
  BY <1>3 DEF InLog
<1>11. ASSUME NEW a \in Addr
       PROVE  \/ next[a] = target[a] /\ NoneCovers(r, a)
              \/ \E i, j \in Nat : OldestHas(r, a, i, j, target[a])
  <2>1. CASE mem[a] = target[a] /\ NoneCovers(d, a) /\ ~Covers(e, a)
    <3>1. NoneCovers(r, a)
      BY <1>8, <1>9, <2>1 DEF NoneCovers
    <3> QED BY <2>1, <3>1
  <2>2. CASE mem[a] = target[a] /\ NoneCovers(d, a) /\ Covers(e, a)
    <3>1. FirstFor(r, a, n, k + 1)
      BY <1>9, <2>2 DEF FirstFor, NoneCovers
    <3>2. OldestHas(r, a, n, k + 1, target[a])
      BY <1>8, <2>2, <3>1 DEF OldestHas
    <3> QED BY <3>2
  <2>3. ASSUME NEW i \in Nat, NEW j \in Nat, OldestHas(d, a, i, j, target[a])
        PROVE  OldestHas(r, a, i, j, target[a])
    <3>1. /\ InLog(d, i, j) /\ Covers(d[i][j], a) /\ FirstFor(d, a, i, j)
          /\ d[i][j].data[a - d[i][j].addr] = target[a]
      BY <2>3 DEF OldestHas
    <3>2. FirstFor(r, a, i, j)
      <4> SUFFICES ASSUME NEW x \in Nat, NEW y \in Nat, InLog(r, x, y), x < i \/ (x = i /\ y < j)
                   PROVE  ~Covers(r[x][y], a)
        BY DEF FirstFor
      <4>1. i < n \/ (i = n /\ j < k + 1)
        BY <1>10, <3>1
      <4>2. ~(x = n /\ y = k + 1)
        BY <4>1
      <4>3. InLog(d, x, y) /\ r[x][y] = d[x][y]
        BY <1>9, <4>2
      <4> QED BY <3>1, <4>3 DEF FirstFor
    <3> QED BY <1>9, <3>1, <3>2 DEF OldestHas
  <2> QED BY <2>1, <2>2, <2>3 DEF Restores
<1>12. Restores(r, next, target)
  BY <1>11 DEF Restores
<1> QED BY <1>1, <1>7, <1>12 DEF Log

LEMMA TailOfDrop ==
  ASSUME NEW S, NEW s \in Seq(S), NEW i \in 1 .. Len(s)
  PROVE  Tail(SubSeq(s, i, Len(s))) = SubSeq(s, i + 1, Len(s))
<1>1. PICK n \in Nat : n = Len(s)
  OBVIOUS
<1>2. PICK t, u : t = SubSeq(s, i, n) /\ u = SubSeq(s, i + 1, n)
  OBVIOUS
<1>3. i \in 0 .. Len(s) /\ i - 1 \in 0 .. Len(s) /\ (i - 1) + 1 = i /\ i \in 1 .. n
  BY <1>1
<1>4. t \in Seq(S) /\ Len(t) = n - (i - 1) /\ \A j \in 1 .. n - (i - 1) : t[j] = s[(i - 1) + j]
  BY <1>1, <1>2, <1>3, DropPlaces
<1>5. u \in Seq(S) /\ Len(u) = n - i /\ \A j \in 1 .. n - i : u[j] = s[i + j]
  BY <1>1, <1>2, <1>3, DropPlaces
<1>6. t # << >>
  BY <1>3, <1>4
<1>7. Tail(t) \in Seq(S) /\ Len(Tail(t)) = n - i /\ \A j \in 1 .. n - i : Tail(t)[j] = t[j + 1]
  BY <1>3, <1>4, <1>6
<1>8. ASSUME NEW j \in 1 .. n - i PROVE Tail(t)[j] = u[j]
  <2>1. j + 1 \in 1 .. n - (i - 1) /\ (i - 1) + (j + 1) = i + j
    BY <1>3
  <2> QED BY <1>4, <1>5, <1>7, <2>1
<1>9. Tail(t) = u
  BY SMTT(60), <1>5, <1>7, <1>8
<1> QED BY <1>1, <1>2, <1>9

LEMMA PopIs ==
  ASSUME NEW t, NEW x PROVE BackupPop([stable |-> t, data |-> x]) = [stable |-> t, data |-> Tail(x)]
<1>1. PICK y : y = Tail(x)
  OBVIOUS
<1>2. PICK b : b = [stable |-> t, data |-> x]
  OBVIOUS
<1>3. b.data = x
  BY <1>2
<1>4. BackupPop(b) = [b EXCEPT !.data = y]
  BY <1>1, <1>3 DEF BackupPop
<1>5. [b EXCEPT !.data = y] = [stable |-> t, data |-> y]
  BY <1>2
<1> QED BY <1>1, <1>2, <1>4, <1>5

\* BranchResolve drops the oldest n checkpoints, one BackupPop each.
LEMMA DroppedIs ==
  ASSUME NEW d \in Log, memory_backup = [stable |-> TRUE, data |-> d], NEW n \in 0 .. Len(d)
  PROVE  Dropped(n) = [stable |-> TRUE, data |-> SubSeq(d, n + 1, Len(d))]
<1>1. PICK m \in Nat : m = Len(d) /\ n <= m /\ n \in Nat
  BY DEF Log
<1>2. PICK f : f = [i \in 0 .. n |-> [stable |-> TRUE, data |-> SubSeq(d, i + 1, m)]]
  OBVIOUS
<1>3. SubSeq(d, 1, m) = d /\ 0 + 1 = 1
  BY <1>1 DEF Log
<1>4. ASSUME NEW i \in 1 .. n PROVE BackupPop(f[i - 1]) = f[i]
  <2>1. Tail(SubSeq(d, i, m)) = SubSeq(d, i + 1, m)
    <3>1. i \in 1 .. Len(d) /\ d \in Seq(Seq(LogEntry))
      BY <1>1 DEF Log
    <3> QED BY <1>1, <3>1, TailOfDrop
  <2>2. f[i - 1] = [stable |-> TRUE, data |-> SubSeq(d, i, m)]
    <3>1. i - 1 \in 0 .. n /\ (i - 1) + 1 = i
      BY <1>1
    <3> QED BY <1>2, <3>1
  <2>3. f[i] = [stable |-> TRUE, data |-> SubSeq(d, i + 1, m)]
    BY <1>1, <1>2
  <2> QED BY <2>1, <2>2, <2>3, PopIs
<1>5. f[0] = memory_backup
  <2>1. 0 \in 0 .. n
    BY <1>1
  <2>2. f[0] = [stable |-> TRUE, data |-> SubSeq(d, 0 + 1, m)]
    BY <1>2, <2>1
  <2> QED BY <1>3, <2>2
<1>6. f = [i \in 0 .. n |-> IF i = 0 THEN memory_backup ELSE BackupPop(f[i - 1])]
  <2>1. \A i \in 0 .. n : f[i] = IF i = 0 THEN memory_backup ELSE BackupPop(f[i - 1])
    BY <1>1, <1>4, <1>5
  <2> QED BY <1>2, <2>1
<1> DEFINE drop == CHOOSE drop : drop =
                      [i \in 0 .. n |-> IF i = 0 THEN memory_backup ELSE BackupPop(drop[i - 1])]
<1>7. drop = [i \in 0 .. n |-> IF i = 0 THEN memory_backup ELSE BackupPop(drop[i - 1])]
  BY <1>6
<1>8. Dropped(n) = drop[n]
  BY DEF Dropped
<1> HIDE DEF drop
<1> DEFINE S == {i \in Nat : i <= n => drop[i] = f[i]}
<1>9. 0 \in S
  BY <1>1, <1>5, <1>7
<1>10. ASSUME NEW i \in Nat, i \in S PROVE i + 1 \in S
  <2>1. CASE i + 1 <= n
    <3>1. drop[i + 1] = BackupPop(drop[i])
      <4>1. i + 1 \in 0 .. n /\ i + 1 # 0 /\ (i + 1) - 1 = i
        BY <1>1, <2>1
      <4> QED BY <1>7, <4>1
    <3>2. f[i + 1] = BackupPop(f[i])
      BY <1>1, <1>4, <2>1
    <3> QED BY <1>1, <1>10, <2>1, <3>1, <3>2
  <2> QED BY <1>1, <2>1
<1> HIDE DEF S
<1>11. n \in S
  BY <1>1, <1>9, <1>10, NatSetInduction
<1>12. drop[n] = f[n]
  BY <1>1, <1>11 DEF S
<1> QED BY <1>1, <1>2, <1>8, <1>12

LEMMA PushIs ==
  ASSUME NEW t, NEW d, NEW e
  PROVE  BackupPush([stable |-> t, data |-> d], e) =
           [stable |-> t, data |-> [d EXCEPT ![Len(d)] = Append(@, e)]]
<1>1. PICK b : b = [stable |-> t, data |-> d]
  OBVIOUS
<1>2. b.data = d
  BY <1>1
<1>3. PICK s : s = [d EXCEPT ![Len(d)] = Append(@, e)]
  OBVIOUS
<1>4. BackupPush(b, e) = [b EXCEPT !.data = s]
  BY <1>2, <1>3 DEF BackupPush
<1>5. [b EXCEPT !.data = s] = [stable |-> t, data |-> s]
  BY <1>1
<1> QED BY <1>1, <1>3, <1>4, <1>5

LEMMA NewCheckpointIs ==
  ASSUME NEW t, NEW d
  PROVE  MakeBackupEntry([stable |-> t, data |-> d]) = [stable |-> t, data |-> Append(d, << >>)]
<1>1. PICK b : b = [stable |-> t, data |-> d]
  OBVIOUS
<1>2. b.data = d
  BY <1>1
<1>3. PICK s : s = Append(d, << >>)
  OBVIOUS
<1>4. MakeBackupEntry(b) = [b EXCEPT !.data = s]
  BY <1>2, <1>3 DEF MakeBackupEntry
<1>5. [b EXCEPT !.data = s] = [stable |-> t, data |-> s]
  BY <1>1
<1> QED BY <1>1, <1>3, <1>4, <1>5

\* An access ends in the memory.
LEMMA AccessFits ==
  ASSUME NEW al \in Access
  PROVE  \A i \in 0 .. al[2] - 1 : al[1] + i \in Addr
<1>1. PICK x \in Nat, l \in {1, 2, 4, 8}, w \in {1, 2, 4, 8}, h \in Nat :
        /\ x = al[1] /\ l = al[2] /\ w = WordBytes /\ h = WordNum
        /\ x \in Addr /\ l <= w /\ x % l = 0
  BY SpikeAssumption DEF Access, Addr
<1>2. Addr = w .. w * (h + 1) - 1
  BY <1>1 DEF Addr
<1> SUFFICES ASSUME NEW i \in 0 .. l - 1 PROVE x + i \in w .. w * (h + 1) - 1
  BY <1>1, <1>2
<1>3. x \in w .. w * (h + 1) - 1
  BY <1>1, <1>2
<1>4. CASE w = 1
  BY <1>1, <1>3, <1>4
<1>5. CASE w = 2
  BY <1>1, <1>3, <1>5
<1>6. CASE w = 4
  BY <1>1, <1>3, <1>6
<1>7. CASE w = 8
  BY <1>1, <1>3, <1>7
<1> QED BY <1>4, <1>5, <1>6, <1>7

LEMMA MemoryEntryType ==
  ASSUME NEW al \in Access, spike_sim.mem \in [Addr -> Value]
  PROVE  /\ MemoryEntry(al[1], al[2]) \in LogEntry
         /\ \A a \in Addr : Covers(MemoryEntry(al[1], al[2]), a) <=> a \in Bytes(al[1], al[2])
         /\ \A a \in Bytes(al[1], al[2]) :
               MemoryEntry(al[1], al[2]).data[a - MemoryEntry(al[1], al[2]).addr] = spike_sim.mem[a]
<1>1. PICK x \in Nat, l \in Nat : x = al[1] /\ l = al[2]
  BY SpikeAssumption DEF Access, Addr
<1>2. PICK data : data = [i \in 0 .. l - 1 |-> spike_sim.mem[x + i]]
  OBVIOUS
<1>3. \A i \in 0 .. l - 1 : x + i \in Addr
  BY <1>1, AccessFits
<1>4. data \in [0 .. l - 1 -> Value]
  BY <1>2, <1>3
<1>5. PICK e : e = [addr |-> x, len |-> l, data |-> data]
  OBVIOUS
<1>6. MemoryEntry(al[1], al[2]) = e
  BY <1>1, <1>2, <1>5 DEF MemoryEntry
<1>7. e \in LogEntry
  BY <1>1, <1>4, <1>5 DEF LogEntry
<1>8. e.addr = x /\ e.len = l /\ e.data = data
  BY <1>5
<1>9. ASSUME NEW a \in Bytes(x, l) PROVE e.data[a - e.addr] = spike_sim.mem[a]
  <2>1. a - x \in 0 .. l - 1 /\ x + (a - x) = a
    BY DEF Bytes
  <2> QED BY <1>2, <1>8, <2>1
<1> QED BY <1>1, <1>6, <1>7, <1>8, <1>9 DEF Covers

\* What an instruction does to the memory.
LEMMA ExecutedMem ==
  ASSUME NEW s, IsRecord(s), s.mem \in [Addr -> Value], NEW effect \in Effect, NEW p
  PROVE  /\ Executed(s, effect, p).pc = p
         /\ Executed(s, effect, p).mem \in [Addr -> Value]
         /\ effect.kind # "store" => Executed(s, effect, p).mem = s.mem
         /\ effect.kind = "store" =>
              /\ \E al \in Access : effect.addr = al[1] /\ effect.len = al[2]
              /\ Executed(s, effect, p).mem =
                   [a \in Addr |-> IF a \in Bytes(effect.addr, effect.len) THEN effect.value
                                   ELSE s.mem[a]]
<1>1. PICK x, y, z : s = [pc |-> x, reg |-> y, mem |-> z] /\ z \in [Addr -> Value]
  BY DEF IsRecord
<1>2. s.mem = z
  BY <1>1
<1>3. CASE effect \in [kind : {"reg"}, value : Value]
  <2>1. effect.kind = "reg"
    BY <1>3
  <2>2. Executed(s, effect, p) = [pc |-> p, reg |-> effect.value, mem |-> z]
    BY <1>1, <2>1 DEF Executed
  <2> QED BY <1>1, <1>2, <2>1, <2>2
<1>4. ASSUME NEW al \in Access, NEW v \in Value,
             effect = [kind |-> "store", addr |-> al[1], len |-> al[2], value |-> v]
      PROVE  /\ Executed(s, effect, p).pc = p
             /\ Executed(s, effect, p).mem \in [Addr -> Value]
             /\ effect.kind # "store" => Executed(s, effect, p).mem = s.mem
             /\ effect.kind = "store" =>
                  /\ \E x2 \in Access : effect.addr = x2[1] /\ effect.len = x2[2]
                  /\ Executed(s, effect, p).mem =
                       [a \in Addr |-> IF a \in Bytes(effect.addr, effect.len) THEN effect.value
                                       ELSE s.mem[a]]
  <2>1. effect.kind = "store" /\ effect.addr = al[1] /\ effect.len = al[2] /\ effect.value = v
    BY <1>4
  <2>2. PICK m : m = [a \in Addr |-> IF a \in Bytes(effect.addr, effect.len) THEN effect.value
                                     ELSE z[a]]
    OBVIOUS
  <2>3. Executed(s, effect, p) = [pc |-> p, reg |-> y, mem |-> m]
    BY <1>1, <2>1, <2>2 DEF Executed
  <2>4. m \in [Addr -> Value]
    BY <1>1, <2>1, <2>2
  <2> QED BY <1>2, <2>1, <2>2, <2>3, <2>4
<1> QED BY <1>3, <1>4 DEF Effect

LEMMA SetPcMem ==
  ASSUME NEW s, IsRecord(s), NEW p
  PROVE  [s EXCEPT !.pc = p].mem = s.mem /\ [s EXCEPT !.pc = p].pc = p
BY DEF IsRecord

\* A log with no entries restores nothing.
LEMMA RestoresNothing ==
  ASSUME NEW d \in Log, \A i \in 1 .. Len(d) : d[i] = << >>,
         NEW mem \in [Addr -> Value], NEW target \in [Addr -> Value]
  PROVE  Restores(d, mem, target) <=> mem = target
<1>1. \A i, j \in Nat : ~InLog(d, i, j)
  BY DEF InLog
<1>2. \A a \in Addr : NoneCovers(d, a) /\ \A i, j \in Nat : ~OldestHas(d, a, i, j, target[a])
  BY <1>1 DEF NoneCovers, OldestHas
<1>3. Restores(d, mem, target) <=> \A a \in Addr : mem[a] = target[a]
  BY <1>2 DEF Restores
<1> QED BY <1>3

-----------------------------------------------------------------------------
(* The inductive invariant.  The log leads from the memory of spike_sim to *)
(* that of spike_sim_fast; the checkpoints of branches predicted right     *)
(* have no entries, so that dropping them loses nothing; and the pc of the *)
(* right path is known to the branch that will be taken back.              *)

LogTypeOK ==
    /\ memory_backup = [stable |-> TRUE, data |-> memory_backup.data]
    /\ memory_backup.data \in Log
    /\ Len(memory_backup.data) = Len(reg_backup)
    /\ spike_sim.mem \in [Addr -> Value] /\ spike_sim_fast.mem \in [Addr -> Value]

LogRestores == Restores(memory_backup.data, spike_sim.mem, spike_sim_fast.mem)

\* The oldest checkpoints have no entries: no store is logged before a branch
\* is mispredicted.
EmptyUpTo(m) == \A i \in 1 .. m : memory_backup.data[i] = << >>

UnresolvedFrom == IF ports = {} THEN 0 ELSE Len(committing)

CleanOnRightPath ==
    (~flushing /\ ~is_prediction_miss) => EmptyUpTo(Len(memory_backup.data))

CleanBeforeMiss ==
    (~flushing /\ is_prediction_miss) =>
        \A k \in 1 .. Len(branches) :
            (\A i \in 1 .. k - 1 : ~branches[i].missed) => EmptyUpTo(UnresolvedFrom + k - 1)

CleanWhileFlushing ==
    (flushing /\ "bpu" \in ports) => EmptyUpTo(Len(committing) - 1)

\* Where the right path goes on: where both simulators are, or where the oldest
\* mispredicted branch should have gone.
PcOnRightPath == (~flushing /\ ~is_prediction_miss) => spike_sim.pc = spike_sim_fast.pc

PcAfterMiss ==
    (~flushing /\ is_prediction_miss) =>
        \A k \in 1 .. Len(branches) :
            (branches[k].missed /\ \A i \in 1 .. k - 1 : ~branches[i].missed) =>
                branches[k].SpikeNpc = spike_sim_fast.pc

PcWhileFlushing ==
    flushing =>
        /\ committing # << >>
        /\ committing[Len(committing)].SpikeNpc = spike_sim_fast.pc
        /\ "redirect" \notin ports => (npc = spike_sim_fast.pc /\ spike_sim.pc = spike_sim_fast.pc)

LogInv ==
    /\ LogTypeOK /\ LogRestores
    /\ CleanOnRightPath /\ CleanBeforeMiss /\ CleanWhileFlushing
    /\ PcOnRightPath /\ PcAfterMiss /\ PcWhileFlushing

LEMMA InitLogInv == ASSUME Init PROVE LogInv
<1>1. /\ ports = {} /\ ~flushing /\ ~is_prediction_miss /\ branches = << >> /\ reg_backup = << >>
      /\ memory_backup = EmptyBackup /\ spike_sim_fast = spike_sim
  BY DEF Init, AdapterInit
<1>2. memory_backup.data = << >> /\ memory_backup = [stable |-> TRUE, data |-> << >>]
  BY <1>1 DEF EmptyBackup
<1>3. << >> \in Log /\ \A i \in 1 .. Len(<< >>) : << >>[i] = << >>
  BY DEF Log
<1>4. spike_sim.mem \in [Addr -> Value] /\ spike_sim_fast.mem = spike_sim.mem
  BY SpikeAssumption DEF Init, AdapterInit
<1>5. LogTypeOK
  BY <1>1, <1>2, <1>3, <1>4 DEF LogTypeOK
<1>6. LogRestores
  BY <1>2, <1>3, <1>4, RestoresNothing DEF LogRestores
<1>7. EmptyUpTo(Len(memory_backup.data))
  BY <1>2 DEF EmptyUpTo
<1> QED
  BY <1>1, <1>5, <1>6, <1>7
  DEF LogInv, CleanOnRightPath, CleanBeforeMiss, CleanWhileFlushing, PcOnRightPath, PcAfterMiss,
      PcWhileFlushing

LEMMA StutterLogInv == ASSUME LogInv, UNCHANGED vars PROVE LogInv'
BY DEF LogInv, vars, adapterVars, fetchVars, LogTypeOK, LogRestores, EmptyUpTo, UnresolvedFrom,
       CleanOnRightPath, CleanBeforeMiss, CleanWhileFlushing, PcOnRightPath, PcAfterMiss,
       PcWhileFlushing

\* On a wrong path a branch is unresolved: the log has a checkpoint.
LEMMA CheckpointOnWrongPath ==
  ASSUME RollBackInv, LogInv, ~flushing, ports = {}
  PROVE  /\ Len(memory_backup.data) = Len(branches)
         /\ is_prediction_miss => \E k \in 1 .. Len(branches) : branches[k].missed
         /\ ~is_prediction_miss => \A k \in 1 .. Len(branches) : ~branches[k].missed
<1>1. Settled(0) /\ branches \in Seq(Branch)
  BY DEF RollBackInv, Quiet, FetchTypeOK
<1>2. Len(reg_backup) = Len(branches)
  BY <1>1 DEF Settled
<1> QED BY <1>1, <1>2 DEF LogInv, LogTypeOK, Settled, WrongPathFrom, OnRightPath

\* An instruction, on either path.
LEMMA SpikeStepLogInv ==
  ASSUME RollBackInv, LogInv, ~flushing, ports = {}, NEW effect \in Effect, NEW p,
         spikeStep(effect, p), UNCHANGED <<branches, committing, ports, flushing>>
  PROVE  LogInv'
<1>1. /\ IsRecord(spike_sim) /\ IsRecord(spike_sim_fast) /\ branches \in Seq(Branch)
  BY DEF RollBackInv, FetchTypeOK
<1>2. PICK d \in Log : /\ d = memory_backup.data
                       /\ memory_backup = [stable |-> TRUE, data |-> d]
                       /\ Len(d) = Len(reg_backup)
  BY DEF LogInv, LogTypeOK
<1>3. /\ spike_sim.mem \in [Addr -> Value] /\ spike_sim_fast.mem \in [Addr -> Value]
      /\ Restores(d, spike_sim.mem, spike_sim_fast.mem)
  BY <1>2 DEF LogInv, LogTypeOK, LogRestores
<1>4. /\ spike_sim' = Executed(spike_sim, effect, p)
      /\ memory_backup' = catchDataBeforeWriteHook(effect)
      /\ UNCHANGED <<npc, is_prediction_miss, reg_backup>>
  BY DEF spikeStep
<1>5. PICK m \in [Addr -> Value] :
        /\ m = spike_sim'.mem /\ spike_sim'.pc = p
        /\ effect.kind # "store" => m = spike_sim.mem
        /\ effect.kind = "store" =>
              /\ \E al \in Access : effect.addr = al[1] /\ effect.len = al[2]
              /\ m = [a \in Addr |-> IF a \in Bytes(effect.addr, effect.len) THEN effect.value
                                     ELSE spike_sim.mem[a]]
  <2>1. PICK s : s = Executed(spike_sim, effect, p)
    OBVIOUS
  <2>2. /\ s.pc = p /\ s.mem \in [Addr -> Value]
        /\ effect.kind # "store" => s.mem = spike_sim.mem
        /\ effect.kind = "store" =>
              /\ \E al \in Access : effect.addr = al[1] /\ effect.len = al[2]
              /\ s.mem = [a \in Addr |-> IF a \in Bytes(effect.addr, effect.len)
                                           THEN effect.value ELSE spike_sim.mem[a]]
    BY <1>1, <1>3, <2>1, ExecutedMem
  <2>3. spike_sim' = s
    BY <1>4, <2>1
  <2> QED BY <2>2, <2>3
<1>6. PICK n \in Nat : n = Len(d)
  BY DEF Log
<1>7. CASE is_prediction_miss
  <2>1. spike_sim_fast' = spike_sim_fast
    BY <1>7 DEF spikeStep
  <2>2. Len(branches) = n /\ n # 0
    BY <1>1, <1>2, <1>6, <1>7, CheckpointOnWrongPath
  <2>3. d # << >>
    BY <1>6, <2>2
  <2>4. \E r \in Log : /\ memory_backup' = [stable |-> TRUE, data |-> r] /\ Len(r) = n
                       /\ Restores(r, m, spike_sim_fast.mem)
                       /\ \A i \in 1 .. n - 1 : r[i] = d[i]
    <3>1. CASE effect.kind = "store"
      <4>1. PICK al \in Access : effect.addr = al[1] /\ effect.len = al[2]
        BY <1>5, <3>1
      <4>2. PICK e : e = MemoryEntry(al[1], al[2])
        OBVIOUS
      <4>3. /\ e \in LogEntry
            /\ \A a \in Addr : Covers(e, a) <=> a \in Bytes(al[1], al[2])
            /\ \A a \in Bytes(al[1], al[2]) : e.data[a - e.addr] = spike_sim.mem[a]
        BY <1>3, <4>2, MemoryEntryType
      <4>4. \A a \in Addr : IF Covers(e, a) THEN e.data[a - e.addr] = spike_sim.mem[a]
                            ELSE m[a] = spike_sim.mem[a]
        BY <1>5, <3>1, <4>1, <4>3
      <4>5. PICK r : r = [d EXCEPT ![n] = Append(@, e)]
        OBVIOUS
      <4>6. r \in Log /\ Restores(r, m, spike_sim_fast.mem)
        <5>1. n \in Nat \ {0}
          BY <2>2
        <5> QED BY <1>3, <1>6, <4>3, <4>4, <4>5, <5>1, RestoresPushed
      <4>7. memory_backup' = [stable |-> TRUE, data |-> r]
        <5>1. memory_backup' = BackupPush(memory_backup, e)
          BY <1>2, <1>4, <1>7, <2>3, <3>1, <4>1, <4>2 DEF catchDataBeforeWriteHook, BackupIsEmpty
        <5>2. BackupPush([stable |-> TRUE, data |-> d], e) =
                [stable |-> TRUE, data |-> [d EXCEPT ![Len(d)] = Append(@, e)]]
          BY PushIs
        <5> QED BY <1>2, <1>6, <4>5, <5>1, <5>2
      <4>8. Len(r) = n /\ \A i \in 1 .. n - 1 : r[i] = d[i]
        <5>1. PICK s : s = Append(d[n], e)
          OBVIOUS
        <5>2. r = [d EXCEPT ![n] = s]
          BY <4>5, <5>1
        <5> QED BY <1>6, <4>6, <5>2 DEF Log
      <4> QED BY <4>6, <4>7, <4>8
    <3>2. CASE effect.kind # "store"
      BY <1>2, <1>3, <1>4, <1>5, <1>6, <3>2 DEF catchDataBeforeWriteHook
    <3> QED BY <3>1, <3>2
  <2>5. PICK r \in Log : /\ memory_backup' = [stable |-> TRUE, data |-> r] /\ Len(r) = n
                         /\ Restores(r, m, spike_sim_fast.mem)
                         /\ \A i \in 1 .. n - 1 : r[i] = d[i]
    BY <2>4
  <2>6. memory_backup'.data = r
    BY <2>5
  <2>7. LogTypeOK' /\ LogRestores'
    BY <1>2, <1>3, <1>4, <1>5, <1>6, <2>1, <2>5, <2>6 DEF LogTypeOK, LogRestores
  <2>8. CleanBeforeMiss'
    <3> SUFFICES ASSUME NEW k \in 1 .. Len(branches), \A i \in 1 .. k - 1 : ~branches[i].missed,
                        NEW i \in 1 .. UnresolvedFrom' + k - 1
                 PROVE  r[i] = << >>
      BY <2>6 DEF CleanBeforeMiss, EmptyUpTo
    <3>1. UnresolvedFrom = 0 /\ UnresolvedFrom' = 0
      BY DEF UnresolvedFrom
    <3>2. i \in 1 .. n - 1 /\ i \in 1 .. 0 + k - 1
      BY <2>2, <3>1
    <3>3. EmptyUpTo(0 + k - 1)
      BY <1>7, <3>1 DEF LogInv, CleanBeforeMiss
    <3> QED BY <1>2, <2>5, <3>2, <3>3 DEF EmptyUpTo
  <2>9. PcAfterMiss'
    BY <1>4, <1>7, <2>1 DEF LogInv, PcAfterMiss
  <2> QED
    BY <1>4, <1>7, <2>7, <2>8, <2>9
    DEF LogInv, CleanOnRightPath, CleanWhileFlushing, PcOnRightPath, PcWhileFlushing
<1>8. CASE ~is_prediction_miss
  <2>1. spike_sim_fast' = Executed(spike_sim_fast, effect, p) /\ memory_backup' = memory_backup
    BY <1>4, <1>8 DEF spikeStep, catchDataBeforeWriteHook
  <2>2. \A i \in 1 .. Len(d) : d[i] = << >>
    BY <1>2, <1>8 DEF LogInv, CleanOnRightPath, EmptyUpTo
  <2>3. spike_sim.mem = spike_sim_fast.mem
    BY <1>3, <2>2, RestoresNothing
  <2>4. spike_sim_fast'.mem = m /\ spike_sim_fast'.pc = p
    BY <1>1, <1>3, <1>5, <2>1, <2>3, ExecutedMem
  <2>5. Restores(d, m, m)
    BY <2>2, RestoresNothing
  <2>6. LogTypeOK' /\ LogRestores'
    BY <1>2, <1>4, <1>5, <2>1, <2>4, <2>5 DEF LogInv, LogTypeOK, LogRestores
  <2>7. CleanOnRightPath' /\ PcOnRightPath'
    BY <1>2, <1>5, <2>1, <2>2, <2>4 DEF CleanOnRightPath, PcOnRightPath, EmptyUpTo
  <2> QED
    BY <1>4, <1>8, <2>6, <2>7
    DEF LogInv, CleanBeforeMiss, CleanWhileFlushing, PcAfterMiss, PcWhileFlushing
<1> QED BY <1>7, <1>8

LEMMA PlainLogInv ==
  ASSUME RollBackInv, LogInv, ~flushing, NEW effect \in Effect, FetchPlain(effect)
  PROVE  LogInv'
BY SpikeStepLogInv DEF FetchPlain, CanFetch

LEMMA CsrLogInv ==
  ASSUME RollBackInv, LogInv, ~flushing, NEW effect \in Effect, FetchCsrOnWrongPath(effect)
  PROVE  LogInv'
BY SpikeStepLogInv DEF FetchCsrOnWrongPath, CanFetch

LEMMA NopLogInv ==
  ASSUME LogInv, ~flushing, FetchNopOnWrongPath PROVE LogInv'
BY DEF FetchNopOnWrongPath, CanFetch, LogInv, adapterVars, LogTypeOK, LogRestores, EmptyUpTo,
       UnresolvedFrom, CleanOnRightPath, CleanBeforeMiss, CleanWhileFlushing, PcOnRightPath,
       PcAfterMiss, PcWhileFlushing

LEMMA TrapLogInv ==
  ASSUME RollBackInv, LogInv, ~flushing, SkipTrapOnWrongPath PROVE LogInv'
<1>1. PICK p : spike_sim' = [spike_sim EXCEPT !.pc = p]
  BY DEF SkipTrapOnWrongPath, setNpc
<1>2. /\ is_prediction_miss
      /\ UNCHANGED <<spike_sim_fast, is_prediction_miss, memory_backup, reg_backup>>
      /\ UNCHANGED <<branches, committing, ports, flushing>>
  BY DEF SkipTrapOnWrongPath, fetchVars
<1>3. spike_sim'.mem = spike_sim.mem
  BY <1>1, SetPcMem DEF RollBackInv, FetchTypeOK
<1>4. LogTypeOK' /\ LogRestores'
  BY <1>2, <1>3 DEF LogInv, LogTypeOK, LogRestores
<1>5. CleanBeforeMiss' /\ PcAfterMiss'
  BY <1>2 DEF LogInv, CleanBeforeMiss, PcAfterMiss, EmptyUpTo, UnresolvedFrom
<1> QED
  BY <1>2, <1>4, <1>5
  DEF LogInv, CleanOnRightPath, CleanWhileFlushing, PcOnRightPath, PcWhileFlushing

LEMMA BranchLogInv ==
  ASSUME RollBackInv, LogInv, ~flushing, NEW target \in Pc, FetchBranch(target)
  PROVE  LogInv'
<1>1. PICK p : p = FallThrough(spike_sim.pc)
  OBVIOUS
<1>2. PICK b : b = [SpikeNpc |-> target, missed |-> p # target]
  OBVIOUS
<1>3. /\ ports = {} /\ UNCHANGED <<committing, ports, flushing>>
      /\ reg_backup' = Append(reg_backup, spike_sim.reg)
      /\ memory_backup' = MakeBackupEntry(memory_backup)
      /\ branches' = Append(branches, b)
      /\ spike_sim' = [spike_sim EXCEPT !.pc = p]
      /\ spike_sim_fast' = IF is_prediction_miss THEN spike_sim_fast
                           ELSE [spike_sim_fast EXCEPT !.pc = target]
      /\ is_prediction_miss' = (is_prediction_miss \/ p # target)
  BY <1>1, <1>2 DEF FetchBranch, CanFetch, MakeBackup, setNpc
<1>4. /\ IsRecord(spike_sim) /\ IsRecord(spike_sim_fast)
      /\ reg_backup \in Seq(Value) /\ branches \in Seq(Branch) /\ spike_sim.reg \in Value
  BY DEF RollBackInv, FetchTypeOK, IsRecord
<1>5. b \in Branch /\ (b.missed <=> p # target) /\ b.SpikeNpc = target
  BY <1>2 DEF Branch
<1>6. PICK d \in Log : /\ d = memory_backup.data
                       /\ memory_backup = [stable |-> TRUE, data |-> d]
                       /\ Len(d) = Len(reg_backup)
  BY DEF LogInv, LogTypeOK
<1>7. PICK n \in Nat : n = Len(d) /\ n = Len(branches) /\ n = Len(reg_backup)
  BY <1>3, <1>4, <1>6, CheckpointOnWrongPath
<1>8. /\ branches' \in Seq(Branch) /\ Len(branches') = n + 1
      /\ \A i \in 1 .. n : branches'[i] = branches[i]
      /\ branches'[n + 1] = b
  <2>1. /\ Append(branches, b) \in Seq(Branch)
        /\ Len(Append(branches, b)) = Len(branches) + 1
        /\ \A i \in 1 .. Len(branches) : Append(branches, b)[i] = branches[i]
        /\ Append(branches, b)[Len(branches) + 1] = b
    BY <1>4, <1>5, AppendPlaces
  <2>2. branches' = Append(branches, b) /\ Len(branches) = n
    BY <1>3, <1>7
  <2> QED BY <2>1, <2>2
<1>9. Len(reg_backup') = n + 1
  BY <1>3, <1>4, <1>7, AppendPlaces
<1>10. /\ spike_sim'.mem = spike_sim.mem /\ spike_sim'.pc = p
       /\ spike_sim_fast'.mem = spike_sim_fast.mem
       /\ spike_sim_fast'.pc = IF is_prediction_miss THEN spike_sim_fast.pc ELSE target
  BY <1>3, <1>4, SetPcMem
<1>11. PICK r \in Log : /\ memory_backup' = [stable |-> TRUE, data |-> r]
                        /\ Restores(r, spike_sim.mem, spike_sim_fast.mem)
                        /\ Len(r) = n + 1 /\ r[n + 1] = << >>
                        /\ \A i \in 1 .. n : r[i] = d[i]
  <2>1. Restores(d, spike_sim.mem, spike_sim_fast.mem)
    BY <1>6 DEF LogInv, LogRestores
  <2>2. PICK r : r = Append(d, << >>)
    OBVIOUS
  <2>3. r \in Log /\ Restores(r, spike_sim.mem, spike_sim_fast.mem)
    BY <2>1, <2>2, RestoresNewCheckpoint
  <2>4. MakeBackupEntry([stable |-> TRUE, data |-> d]) = [stable |-> TRUE, data |-> Append(d, << >>)]
    BY NewCheckpointIs
  <2>5. memory_backup' = [stable |-> TRUE, data |-> r]
    BY <1>3, <1>6, <2>2, <2>4
  <2>6. << >> \in Seq(LogEntry) /\ d \in Seq(Seq(LogEntry))
    BY DEF Log
  <2>7. Len(r) = n + 1 /\ r[n + 1] = << >> /\ \A i \in 1 .. n : r[i] = d[i]
    <3>1. /\ Len(Append(d, << >>)) = Len(d) + 1
          /\ \A i \in 1 .. Len(d) : Append(d, << >>)[i] = d[i]
          /\ Append(d, << >>)[Len(d) + 1] = << >>
      BY <2>6, AppendPlaces
    <3>2. Len(d) = n
      BY <1>7
    <3> QED BY <2>2, <3>1, <3>2
  <2> QED BY <2>3, <2>5, <2>7
<1>12. memory_backup'.data = r
  BY <1>11
<1>13. LogTypeOK' /\ LogRestores'
  <2>1. spike_sim'.mem \in [Addr -> Value] /\ spike_sim_fast'.mem \in [Addr -> Value]
    BY <1>10 DEF LogInv, LogTypeOK
  <2> QED BY <1>9, <1>10, <1>11, <1>12, <2>1 DEF LogTypeOK, LogRestores
<1>14. ASSUME is_prediction_miss PROVE LogInv'
  <2>1. is_prediction_miss' /\ UnresolvedFrom' = 0 /\ UnresolvedFrom = 0
    BY <1>3, <1>14 DEF UnresolvedFrom
  <2>2. PICK x \in 1 .. n : branches[x].missed
    BY <1>3, <1>7, <1>14, CheckpointOnWrongPath
  <2>3. ASSUME NEW k \in 1 .. n + 1, \A i \in 1 .. k - 1 : ~branches'[i].missed
        PROVE  /\ k \in 1 .. n
               /\ \A i \in 1 .. k - 1 : ~branches[i].missed
               /\ branches'[k] = branches[k]
    <3>1. k \in 1 .. n
      <4>1. k = n + 1 => x \in 1 .. k - 1
        OBVIOUS
      <4>2. branches'[x].missed
        BY <1>8, <2>2
      <4> QED BY <2>3, <4>1, <4>2
    <3>2. \A i \in 1 .. k - 1 : i \in 1 .. n
      BY <3>1
    <3> QED BY <1>8, <2>3, <3>1, <3>2
  <2>4. CleanBeforeMiss'
    <3> SUFFICES ASSUME NEW k \in 1 .. n + 1, \A i \in 1 .. k - 1 : ~branches'[i].missed
                 PROVE  EmptyUpTo(UnresolvedFrom + k - 1)'
      BY <1>8 DEF CleanBeforeMiss
    <3>1. EmptyUpTo(0 + k - 1)
      BY <1>7, <1>14, <2>1, <2>3 DEF LogInv, CleanBeforeMiss
    <3>2. \A i \in 1 .. 0 + k - 1 : i \in 1 .. n
      OBVIOUS
    <3>3. \A i \in 1 .. 0 + k - 1 : r[i] = << >>
      BY <1>6, <1>11, <3>1, <3>2 DEF EmptyUpTo
    <3> QED BY <1>12, <2>1, <3>3 DEF EmptyUpTo
  <2>5. PcAfterMiss'
    <3> SUFFICES ASSUME NEW k \in 1 .. n + 1, branches'[k].missed,
                        \A i \in 1 .. k - 1 : ~branches'[i].missed
                 PROVE  branches'[k].SpikeNpc = spike_sim_fast.pc
      BY <1>8, <1>10, <1>14 DEF PcAfterMiss
    <3> QED BY <1>7, <1>14, <2>3 DEF LogInv, PcAfterMiss
  <2> QED
    BY <1>3, <1>13, <2>1, <2>4, <2>5
    DEF LogInv, CleanOnRightPath, CleanWhileFlushing, PcOnRightPath, PcWhileFlushing
<1>15. ASSUME ~is_prediction_miss PROVE LogInv'
  <2>1. \A i \in 1 .. n : d[i] = << >>
    BY <1>6, <1>7, <1>15 DEF LogInv, CleanOnRightPath, EmptyUpTo
  <2>2. \A i \in 1 .. n + 1 : i \in 1 .. n \/ i = n + 1
    OBVIOUS
  <2>3. \A i \in 1 .. n + 1 : r[i] = << >>
    BY <1>11, <2>1, <2>2
  <2>4. \A i \in 1 .. n : ~branches[i].missed
    BY <1>3, <1>7, <1>15, CheckpointOnWrongPath
  <2>5. CleanOnRightPath'
    BY <1>11, <1>12, <2>3 DEF CleanOnRightPath, EmptyUpTo
  <2>6. CleanBeforeMiss'
    <3>1. UnresolvedFrom' = 0
      BY <1>3 DEF UnresolvedFrom
    <3>2. \A k \in 1 .. n + 1 : \A i \in 1 .. 0 + k - 1 : i \in 1 .. n + 1
      OBVIOUS
    <3> QED BY <1>8, <1>12, <2>3, <3>1, <3>2 DEF CleanBeforeMiss, EmptyUpTo
  <2>7. PcOnRightPath'
    BY <1>3, <1>10, <1>15 DEF PcOnRightPath
  <2>8. PcAfterMiss'
    <3> SUFFICES ASSUME NEW k \in 1 .. n + 1, branches'[k].missed
                 PROVE  branches'[k].SpikeNpc = target
      BY <1>8, <1>10, <1>15 DEF PcAfterMiss
    <3> QED BY <1>5, <1>8, <2>2, <2>4
  <2> QED
    BY <1>3, <1>13, <2>5, <2>6, <2>7, <2>8 DEF LogInv, CleanWhileFlushing, PcWhileFlushing
<1> QED BY <1>14, <1>15

LEMMA CommitLogInv ==
  ASSUME RollBackInv, LogInv, ~flushing, NEW n \in CommitGroups, CommitBranches(n)
  PROVE  LogInv'
<1>1. /\ ports = {} /\ committing' = SubSeq(branches, 1, n)
      /\ UNCHANGED <<spike_sim, spike_sim_fast, npc, is_prediction_miss, reg_backup, memory_backup>>
  BY DEF CommitBranches, adapterVars
<1>2. branches \in Seq(Branch)
  BY DEF RollBackInv, FetchTypeOK
<1>3. PICK m \in Nat : m = Len(branches)
  BY <1>2
<1>4. n \in 1 .. m /\ \A i \in 1 .. n - 1 : ~branches[i].missed
  BY <1>3 DEF CommitGroups
<1>5. Len(committing') = n /\ \A i \in 1 .. n : committing'[i] = branches[i]
  <2>1. n \in 0 .. Len(branches)
    BY <1>3, <1>4
  <2> QED BY <1>1, <1>2, <2>1, KeepPlaces
<1>6. LogTypeOK' /\ LogRestores'
  BY <1>1 DEF LogInv, LogTypeOK, LogRestores
<1>7. UnresolvedFrom = 0
  BY <1>1 DEF UnresolvedFrom
<1>8. \A k \in 1 .. m : (is_prediction_miss /\ \A i \in 1 .. k - 1 : ~branches[i].missed) =>
                           EmptyUpTo(0 + k - 1)
  BY <1>3, <1>7 DEF LogInv, CleanBeforeMiss
<1>9. CASE branches[n].missed
  <2>1. ports' = {"bpu", "redirect"} /\ flushing'
    BY <1>9 DEF CommitBranches
  <2>2. is_prediction_miss
    BY <1>1, <1>3, <1>4, <1>9, CheckpointOnWrongPath
  <2>3. CleanWhileFlushing'
    <3>1. EmptyUpTo(0 + n - 1) /\ 0 + n - 1 = n - 1
      BY <1>4, <1>8, <2>2
    <3> QED BY <1>1, <1>5, <3>1 DEF CleanWhileFlushing, EmptyUpTo
  <2>4. PcWhileFlushing'
    <3>1. branches[n].SpikeNpc = spike_sim_fast.pc
      BY <1>3, <1>4, <1>9, <2>2 DEF LogInv, PcAfterMiss
    <3>2. committing' # << >>
      BY <1>4, <1>5
    <3>3. committing'[Len(committing')] = branches[n]
      BY <1>4, <1>5
    <3> QED BY <1>1, <2>1, <3>1, <3>2, <3>3 DEF PcWhileFlushing
  <2> QED
    BY <1>6, <2>1, <2>3, <2>4
    DEF LogInv, CleanOnRightPath, CleanBeforeMiss, PcOnRightPath, PcAfterMiss
<1>10. CASE ~branches[n].missed
  <2>1. /\ ports' = {"bpu"} /\ ~flushing'
        /\ branches' = SubSeq(branches, n + 1, Len(branches))
    BY <1>10 DEF CommitBranches
  <2>2. n \in 0 .. Len(branches)
    BY <1>3, <1>4
  <2>3. Len(branches') = m - n /\ \A i \in 1 .. m - n : branches'[i] = branches[n + i]
    BY <1>2, <1>3, <2>1, <2>2, DropPlaces
  <2>4. UnresolvedFrom' = n
    BY <1>5, <2>1 DEF UnresolvedFrom
  <2>5. ASSUME NEW k \in 1 .. m - n, \A i \in 1 .. k - 1 : ~branches'[i].missed
        PROVE  n + k \in 1 .. m /\ \A i \in 1 .. (n + k) - 1 : ~branches[i].missed
    <3>1. n + k \in 1 .. m
      BY <1>4
    <3>2. ASSUME NEW i \in 1 .. (n + k) - 1 PROVE ~branches[i].missed
      <4>1. CASE i < n
        BY <1>4, <4>1
      <4>2. CASE i = n
        BY <1>10, <4>2
      <4>3. CASE i > n
        <5>1. i - n \in 1 .. k - 1 /\ i - n \in 1 .. m - n /\ n + (i - n) = i
          BY <1>4, <4>3
        <5> QED BY <2>3, <2>5, <5>1
      <4> QED BY <1>4, <4>1, <4>2, <4>3
    <3> QED BY <3>1, <3>2
  <2>6. CleanBeforeMiss'
    <3> SUFFICES ASSUME is_prediction_miss, NEW k \in 1 .. m - n,
                        \A i \in 1 .. k - 1 : ~branches'[i].missed
                 PROVE  EmptyUpTo(UnresolvedFrom + k - 1)'
      BY <1>1, <2>3 DEF CleanBeforeMiss
    <3>1. EmptyUpTo(0 + (n + k) - 1) /\ 0 + (n + k) - 1 = n + k - 1
      BY <1>4, <1>8, <2>5
    <3> QED BY <1>1, <2>4, <3>1 DEF EmptyUpTo
  <2>7. PcAfterMiss'
    <3> SUFFICES ASSUME is_prediction_miss, NEW k \in 1 .. m - n, branches'[k].missed,
                        \A i \in 1 .. k - 1 : ~branches'[i].missed
                 PROVE  branches'[k].SpikeNpc = spike_sim_fast.pc
      BY <1>1, <2>3 DEF PcAfterMiss
    <3>1. branches'[k] = branches[n + k]
      BY <2>3
    <3> QED BY <1>3, <2>5, <3>1 DEF LogInv, PcAfterMiss
  <2>8. CleanOnRightPath' /\ PcOnRightPath'
    BY <1>1 DEF LogInv, CleanOnRightPath, PcOnRightPath, EmptyUpTo
  <2> QED
    BY <1>6, <2>1, <2>6, <2>7, <2>8 DEF LogInv, CleanWhileFlushing, PcWhileFlushing
<1> QED BY <1>9, <1>10

LEMMA BranchCommitLogInv ==
  ASSUME RollBackInv, LogInv, BranchCommit PROVE LogInv'
<1>1. /\ "bpu" \in ports /\ ports' = ports \ {"bpu"}
      /\ UNCHANGED <<branches, committing, flushing>>
      /\ UNCHANGED <<spike_sim_fast, npc, is_prediction_miss>>
      /\ BranchResolve(RightlyPredicted, LastMissed)
  BY DEF BranchCommit, BranchResolve
<1>2. /\ FetchTypeOK /\ ports # {}
  BY <1>1 DEF RollBackInv
<1>3. PICK d \in Log : /\ d = memory_backup.data
                       /\ memory_backup = [stable |-> TRUE, data |-> d]
                       /\ Len(d) = Len(reg_backup)
  BY DEF LogInv, LogTypeOK
<1>4. /\ spike_sim.mem \in [Addr -> Value] /\ spike_sim_fast.mem \in [Addr -> Value]
      /\ Restores(d, spike_sim.mem, spike_sim_fast.mem)
  BY <1>3 DEF LogInv, LogTypeOK, LogRestores
<1>5. CASE flushing
  <2>1. /\ LastMissed /\ branches # << >> /\ committing # << >>
        /\ Len(reg_backup) = Len(committing) - 1 + Len(branches)
    BY <1>1, <1>5 DEF RollBackInv, CommittingMissed
  <2>2. PICK c \in Nat \ {0}, m \in Nat \ {0} : c = Len(committing) /\ m = Len(branches)
    BY <1>2, <2>1 DEF FetchTypeOK
  <2>3. RightlyPredicted = c - 1
    BY <2>1, <2>2 DEF RightlyPredicted
  <2>4. c - 1 \in 0 .. Len(d)
    BY <1>3, <2>1, <2>2
  <2>5. \A i \in 1 .. c - 1 : d[i] = << >>
    BY <1>1, <1>3, <1>5, <2>2 DEF LogInv, CleanWhileFlushing, EmptyUpTo
  <2>6. PICK r : r = SubSeq(d, (c - 1) + 1, Len(d))
    OBVIOUS
  <2>7. r \in Log /\ Restores(r, spike_sim.mem, spike_sim_fast.mem)
    BY <1>4, <2>4, <2>5, <2>6, RestoresDropped
  <2>8. PICK b : b = Dropped(c - 1) /\ b = [stable |-> TRUE, data |-> r]
    BY <1>3, <2>4, <2>6, DroppedIs
  <2>9. b.data = r /\ (r = << >> => b = EmptyBackup)
    <3>1. b.data = r
      BY <2>8
    <3>2. ASSUME r = << >> PROVE b = EmptyBackup
      BY <2>8, <3>2, Zenon DEF EmptyBackup
    <3> QED BY <3>1, <3>2
  <2>10. MemoryRollBack_(b) = spike_sim_fast.mem /\ BackupAfterRollBack(b) = EmptyBackup
    BY <1>4, <2>7, <2>9, RollBackIs
  <2>11. PICK reg : /\ spike_sim' = [pc |-> npc, reg |-> reg, mem |-> MemoryRollBack_(b)]
                    /\ memory_backup' = BackupAfterRollBack(b)
                    /\ reg_backup' = << >>
    BY <1>1, <2>1, <2>3, <2>8 DEF BranchResolve
  <2>12. spike_sim'.mem = spike_sim_fast.mem /\ spike_sim'.pc = npc
    BY <2>10, <2>11
  <2>13. memory_backup' = [stable |-> TRUE, data |-> << >>] /\ memory_backup'.data = << >>
    BY <2>10, <2>11 DEF EmptyBackup
  <2>14. << >> \in Log /\ \A i \in 1 .. Len(<< >>) : << >>[i] = << >>
    BY DEF Log
  <2>15. LogTypeOK'
    BY <1>1, <1>4, <2>11, <2>12, <2>13, <2>14 DEF LogTypeOK
  <2>16. LogRestores'
    BY <1>1, <1>4, <2>12, <2>13, <2>14, RestoresNothing DEF LogRestores
  <2>17. PcWhileFlushing'
    <3>1. "redirect" \notin ports' => "redirect" \notin ports
      BY <1>1
    <3> QED BY <1>1, <1>5, <2>12, <3>1 DEF LogInv, PcWhileFlushing
  <2>18. flushing' /\ "bpu" \notin ports'
    BY <1>1, <1>5
  <2> QED
    BY <2>15, <2>16, <2>17, <2>18
    DEF LogInv, CleanOnRightPath, CleanBeforeMiss, CleanWhileFlushing, PcOnRightPath, PcAfterMiss
<1>6. CASE ~flushing
  <2>1. /\ ports = {"bpu"} /\ committing # << >>
        /\ \A i \in 1 .. Len(committing) : ~committing[i].missed
        /\ Settled(Len(committing))
    BY <1>2, <1>6 DEF RollBackInv, CommittingRight
  <2>2. PICK c \in Nat \ {0}, m \in Nat : c = Len(committing) /\ m = Len(branches)
    BY <1>2, <2>1 DEF FetchTypeOK
  <2>3. ~LastMissed /\ RightlyPredicted = c
    BY <2>1, <2>2 DEF LastMissed, RightlyPredicted
  <2>4. /\ reg_backup \in Seq(Value) /\ Len(reg_backup) = c + m /\ Len(d) = c + m
        /\ c \in 0 .. Len(d) /\ c \in 0 .. Len(reg_backup)
    BY <1>2, <1>3, <2>1, <2>2 DEF Settled, FetchTypeOK
  <2>5. /\ spike_sim' = spike_sim /\ reg_backup' = DroppedRegs(c) /\ memory_backup' = Dropped(c)
    BY <1>1, <2>3 DEF BranchResolve
  <2>6. UnresolvedFrom = c /\ UnresolvedFrom' = 0 /\ ports' = {}
    BY <1>1, <2>1, <2>2 DEF UnresolvedFrom
  <2>7. \A i \in 1 .. c : d[i] = << >>
    <3>1. CASE is_prediction_miss
      <4>1. 1 \in 1 .. Len(branches) /\ c + 1 - 1 = c /\ \A i \in 1 .. 1 - 1 : FALSE
        BY <2>1, <2>2, <3>1 DEF Settled, WrongPathFrom
      <4>2. EmptyUpTo(UnresolvedFrom + 1 - 1)
        BY <1>6, <3>1, <4>1 DEF LogInv, CleanBeforeMiss
      <4> QED BY <1>3, <2>6, <4>1, <4>2 DEF EmptyUpTo
    <3>2. CASE ~is_prediction_miss
      <4>1. EmptyUpTo(c + m)
        BY <1>3, <1>6, <2>4, <3>2 DEF LogInv, CleanOnRightPath
      <4>2. \A i \in 1 .. c : i \in 1 .. c + m
        OBVIOUS
      <4> QED BY <1>3, <4>1, <4>2 DEF EmptyUpTo
    <3> QED BY <3>1, <3>2
  <2>8. PICK r : r = SubSeq(d, c + 1, Len(d))
    OBVIOUS
  <2>9. r \in Log /\ Restores(r, spike_sim.mem, spike_sim_fast.mem)
    BY <1>4, <2>4, <2>7, <2>8, RestoresDropped
  <2>10. Len(r) = m /\ \A i \in 1 .. m : r[i] = d[c + i]
    <3>1. d \in Seq(Seq(LogEntry)) /\ Len(d) - c = m
      BY <2>4 DEF Log
    <3>2. /\ Len(SubSeq(d, c + 1, Len(d))) = Len(d) - c
          /\ \A i \in 1 .. Len(d) - c : SubSeq(d, c + 1, Len(d))[i] = d[c + i]
      BY <2>4, <3>1, DropPlaces
    <3> QED BY <2>8, <3>1, <3>2
  <2>11. memory_backup' = [stable |-> TRUE, data |-> r] /\ memory_backup'.data = r
    <3>1. Dropped(c) = [stable |-> TRUE, data |-> SubSeq(d, c + 1, Len(d))]
      BY <1>3, <2>4, DroppedIs
    <3>2. memory_backup' = [stable |-> TRUE, data |-> r]
      BY <2>5, <2>8, <3>1
    <3> QED BY <3>2
  <2>12. Len(reg_backup') = m
    <3>1. Len(SubSeq(reg_backup, c + 1, Len(reg_backup))) = Len(reg_backup) - c
      BY <2>4, DropPlaces
    <3> QED BY <2>4, <2>5, <3>1 DEF DroppedRegs
  <2>13. LogTypeOK' /\ LogRestores'
    BY <1>1, <1>4, <2>5, <2>9, <2>10, <2>11, <2>12 DEF LogTypeOK, LogRestores
  <2>14. CleanOnRightPath'
    <3> SUFFICES ASSUME ~is_prediction_miss, NEW i \in 1 .. m PROVE r[i] = << >>
      BY <1>1, <2>10, <2>11 DEF CleanOnRightPath, EmptyUpTo
    <3>1. \A j \in 1 .. c + m : d[j] = << >>
      BY <1>3, <1>6, <2>4 DEF LogInv, CleanOnRightPath, EmptyUpTo
    <3>2. c + i \in 1 .. c + m
      OBVIOUS
    <3> QED BY <2>10, <3>1, <3>2
  <2>15. CleanBeforeMiss'
    <3> SUFFICES ASSUME is_prediction_miss, NEW k \in 1 .. m,
                        \A i \in 1 .. k - 1 : ~branches[i].missed,
                        NEW i \in 1 .. 0 + k - 1
                 PROVE  r[i] = << >>
      BY <1>1, <2>2, <2>6, <2>11 DEF CleanBeforeMiss, EmptyUpTo
    <3>1. EmptyUpTo(c + k - 1)
      BY <1>6, <2>2, <2>6 DEF LogInv, CleanBeforeMiss
    <3>2. c + i \in 1 .. c + k - 1 /\ i \in 1 .. m
      OBVIOUS
    <3> QED BY <1>3, <2>10, <3>1, <3>2 DEF EmptyUpTo
  <2>16. PcOnRightPath' /\ PcAfterMiss'
    BY <1>1, <2>5 DEF LogInv, PcOnRightPath, PcAfterMiss
  <2> QED
    BY <1>1, <1>6, <2>13, <2>14, <2>15, <2>16 DEF LogInv, CleanWhileFlushing, PcWhileFlushing
<1> QED BY <1>5, <1>6

LEMMA RedirectLogInv ==
  ASSUME RollBackInv, LogInv, RedirectPc PROVE LogInv'
<1>1. PICK p : p = committing[Len(committing)].SpikeNpc
  OBVIOUS
<1>2. /\ "redirect" \in ports /\ ports' = ports \ {"redirect"}
      /\ npc' = p /\ spike_sim' = [spike_sim EXCEPT !.pc = p]
      /\ UNCHANGED <<spike_sim_fast, memory_backup, reg_backup, branches, committing, flushing>>
  BY <1>1 DEF RedirectPc, setNpc
<1>3. flushing
  BY <1>2 DEF RollBackInv, CommittingRight
<1>4. spike_sim'.mem = spike_sim.mem /\ spike_sim'.pc = p
  BY <1>2, SetPcMem DEF RollBackInv, FetchTypeOK
<1>5. LogTypeOK' /\ LogRestores'
  BY <1>2, <1>4 DEF LogInv, LogTypeOK, LogRestores
<1>6. "bpu" \in ports' => "bpu" \in ports
  BY <1>2
<1>7. CleanWhileFlushing'
  BY <1>2, <1>6 DEF LogInv, CleanWhileFlushing, EmptyUpTo
<1>8. PcWhileFlushing'
  BY <1>1, <1>2, <1>3, <1>4 DEF LogInv, PcWhileFlushing
<1> QED
  BY <1>2, <1>3, <1>5, <1>7, <1>8
  DEF LogInv, CleanOnRightPath, CleanBeforeMiss, PcOnRightPath, PcAfterMiss

LEMMA FlushLogInv ==
  ASSUME RollBackInv, LogInv, Flush PROVE LogInv'
<1>1. /\ flushing /\ ports = {} /\ ~flushing'
      /\ UNCHANGED <<spike_sim, spike_sim_fast, is_prediction_miss, reg_backup, memory_backup>>
  BY DEF Flush, adapterVars
<1>2. reg_backup = << >> /\ ~is_prediction_miss
  BY <1>1 DEF RollBackInv, RolledBack, RedirectIsAwaited
<1>3. Len(memory_backup.data) = 0
  BY <1>2 DEF LogInv, LogTypeOK
<1>4. LogTypeOK' /\ LogRestores'
  BY <1>1 DEF LogInv, LogTypeOK, LogRestores
<1>5. CleanOnRightPath'
  BY <1>1, <1>3 DEF CleanOnRightPath, EmptyUpTo
<1>6. PcOnRightPath'
  BY <1>1 DEF LogInv, PcWhileFlushing, PcOnRightPath
<1> QED
  BY <1>1, <1>2, <1>4, <1>5, <1>6
  DEF LogInv, CleanBeforeMiss, CleanWhileFlushing, PcAfterMiss, PcWhileFlushing

LEMMA NextLogInv == RollBackInv /\ LogInv /\ [Next]_vars => LogInv'
<1> SUFFICES ASSUME RollBackInv, LogInv, [Next]_vars PROVE LogInv'
  OBVIOUS
<1>1. CASE ~flushing /\ Step
  BY <1>1, PlainLogInv, CsrLogInv, NopLogInv, TrapLogInv, BranchLogInv, CommitLogInv DEF Step
<1>2. CASE Handle
  BY <1>2, BranchCommitLogInv, RedirectLogInv, FlushLogInv DEF Handle
<1>3. CASE UNCHANGED vars
  BY <1>3, StutterLogInv
<1> QED BY <1>1, <1>2, <1>3 DEF Next

LEMMA LogInvHolds == Spec => [](RollBackInv /\ LogInv)
<1>1. Init => RollBackInv /\ LogInv
  BY InitInv, InitLogInv
<1>2. (RollBackInv /\ LogInv) /\ [Next]_vars => (RollBackInv /\ LogInv)'
  BY NextInv, NextLogInv
<1> QED BY <1>1, <1>2, PTL DEF Spec

-----------------------------------------------------------------------------
LEMMA InvLeadsBack == ASSUME LogInv PROVE LogLeadsBack
<1>1. /\ memory_backup.data \in Log /\ spike_sim_fast.mem \in [Addr -> Value]
      /\ memory_backup = [stable |-> TRUE, data |-> memory_backup.data]
      /\ Restores(memory_backup.data, spike_sim.mem, spike_sim_fast.mem)
  BY DEF LogInv, LogTypeOK, LogRestores
<1>2. memory_backup.data = << >> => memory_backup = EmptyBackup
  BY <1>1 DEF EmptyBackup
<1>3. MemoryRollBack_(memory_backup) = spike_sim_fast.mem
  BY <1>1, <1>2, RollBackIs
<1>4. memory_backup.stable
  BY <1>1
<1> QED BY <1>3, <1>4 DEF LogLeadsBack

LEMMA InvCheckpointPerBranch == ASSUME RollBackInv, LogInv PROVE CheckpointPerBranch
<1>1. /\ FetchTypeOK /\ Len(memory_backup.data) = Len(reg_backup) /\ reg_backup \in Seq(Value)
      /\ memory_backup.data \in Log
  BY DEF RollBackInv, FetchTypeOK, LogInv, LogTypeOK
<1>2. PICK m \in Nat, c \in Nat : m = Len(branches) /\ c = Len(committing)
  BY <1>1 DEF FetchTypeOK
<1>3. Len(reg_backup) = Unresolved
  <2>1. CASE flushing /\ "bpu" \in ports
    <3>1. LastMissed /\ Len(reg_backup) = c - 1 + m
      BY <1>2, <2>1 DEF RollBackInv, CommittingMissed
    <3> QED BY <1>2, <2>1, <3>1 DEF Unresolved, RightlyPredicted
  <2>2. CASE flushing /\ "bpu" \notin ports
    <3>1. reg_backup = << >>
      BY <2>2 DEF RollBackInv, RolledBack
    <3> QED BY <2>2, <3>1 DEF Unresolved
  <2>3. CASE ~flushing /\ ports = {}
    <3>1. Len(reg_backup) = 0 + m
      BY <1>2, <2>3 DEF RollBackInv, Quiet, Settled
    <3> QED BY <1>2, <2>3, <3>1 DEF Unresolved
  <2>4. CASE ~flushing /\ ports # {}
    <3>1. /\ ports = {"bpu"} /\ committing # << >> /\ Len(reg_backup) = c + m
          /\ \A i \in 1 .. Len(committing) : ~committing[i].missed
      BY <1>2, <2>4 DEF RollBackInv, CommittingRight, Settled
    <3>2. Len(committing) \in 1 .. Len(committing)
      BY <1>1, <3>1 DEF FetchTypeOK
    <3>3. ~LastMissed
      BY <3>1, <3>2 DEF LastMissed
    <3> QED BY <1>2, <2>4, <3>1, <3>3 DEF Unresolved, RightlyPredicted
  <2> QED BY <2>1, <2>2, <2>3, <2>4
<1>4. ASSUME is_prediction_miss, ports = {} PROVE memory_backup.data # << >>
  <2>1. ~flushing
    BY <1>4 DEF RollBackInv, RedirectIsAwaited
  <2>2. Len(memory_backup.data) = m /\ m # 0
    BY <1>2, <1>4, <2>1, CheckpointOnWrongPath
  <2> QED BY <2>2
<1> QED BY <1>1, <1>3, <1>4 DEF CheckpointPerBranch, BackupIsEmpty

LEMMA InvSimulatorsAgree == ASSUME RollBackInv, LogInv PROVE SimulatorsAgree
<1> SUFFICES ASSUME ~is_prediction_miss, ports = {} PROVE spike_sim = spike_sim_fast
  BY DEF SimulatorsAgree
<1>1. IsRecord(spike_sim) /\ IsRecord(spike_sim_fast)
  BY DEF RollBackInv, FetchTypeOK
<1>2. PICK d \in Log : /\ d = memory_backup.data /\ Len(d) = Len(reg_backup)
                       /\ Restores(d, spike_sim.mem, spike_sim_fast.mem)
  BY DEF LogInv, LogTypeOK, LogRestores
<1>3. spike_sim.reg = spike_sim_fast.reg
  BY DEF RollBackInv, Quiet, Settled, OnRightPath, RolledBack
<1>4. \A i \in 1 .. Len(d) : d[i] = << >>
  <2>1. CASE flushing
    <3>1. Len(d) = 0
      BY <1>2, <2>1 DEF RollBackInv, RolledBack
    <3> QED BY <3>1
  <2>2. CASE ~flushing
    BY <1>2, <2>2 DEF LogInv, CleanOnRightPath, EmptyUpTo
  <2> QED BY <2>1, <2>2
<1>5. spike_sim.mem = spike_sim_fast.mem
  BY <1>2, <1>4, RestoresNothing DEF LogInv, LogTypeOK
<1>6. spike_sim.pc = spike_sim_fast.pc
  BY DEF LogInv, PcOnRightPath, PcWhileFlushing
<1> QED BY <1>1, <1>3, <1>5, <1>6 DEF IsRecord

\* Unwinding the log leads back to the memory of the right path, at any depth of
\* wrong branches, for any stores of any widths that overlap in any way, and
\* however many commits drop checkpoints on the way; and the log is stable
\* whenever MakeBackupEntry, Push or Pop asserts that it is.
THEOREM LogAlwaysLeadsBack == Spec => []LogLeadsBack
<1>1. RollBackInv /\ LogInv => LogLeadsBack
  BY InvLeadsBack
<1> QED BY <1>1, LogInvHolds, PTL

\* Both queues have one checkpoint per unresolved branch, and on a wrong path
\* there is one, so that no store on it goes unlogged.
THEOREM EveryBranchHasCheckpoint == Spec => []CheckpointPerBranch
<1>1. RollBackInv /\ LogInv => CheckpointPerBranch
  BY InvCheckpointPerBranch
<1> QED BY <1>1, LogInvHolds, PTL

\* A rollback undoes all that the wrong path did to the pc, the registers and
\* every byte of memory, in whichever order BranchCommit and RedirectPc are
\* handled: on the right path the two simulators are the same.
THEOREM SimulatorsStayTogether == Spec => []SimulatorsAgree
<1>1. RollBackInv /\ LogInv => SimulatorsAgree
  BY InvSimulatorsAgree
<1> QED BY <1>1, LogInvHolds, PTL
=============================================================================
