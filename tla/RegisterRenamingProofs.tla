---------------------- MODULE RegisterRenamingProofs -----------------------
(***************************************************************************)
(* Register renaming is correct for every number of physical and of        *)
(* architectural registers.  IInv (RegisterRenaming) is inductive; each    *)
(* property TLC checks on a small instance follows from it.                *)
(***************************************************************************)
EXTENDS RegisterRenaming, FiniteSetTheorems, TLAPS

-----------------------------------------------------------------------------
\* A sequence and its tail, place by place.
LEMMA TailPlaces ==
  ASSUME NEW S, NEW s \in Seq(S), s # << >>
  PROVE  /\ Head(s) = s[1] /\ Head(s) \in S /\ Len(s) \in Nat \ {0}
         /\ Tail(s) \in Seq(S) /\ Len(Tail(s)) = Len(s) - 1
         /\ \A i \in 1 .. Len(s) - 1 : i + 1 \in 1 .. Len(s) /\ Tail(s)[i] = s[i + 1]
         /\ \A i \in 2 .. Len(s) : i - 1 \in 1 .. Len(s) - 1 /\ Tail(s)[i - 1] = s[i]
<1>1. /\ Head(s) = s[1] /\ Head(s) \in S /\ Len(s) \in Nat \ {0}
      /\ Tail(s) \in Seq(S) /\ Len(Tail(s)) = Len(s) - 1
      /\ \A i \in 1 .. Len(s) - 1 : Tail(s)[i] = s[i + 1]
  OBVIOUS
<1>2. ASSUME NEW i \in 2 .. Len(s)
      PROVE  i - 1 \in 1 .. Len(s) - 1 /\ Tail(s)[i - 1] = s[i]
  <2>1. i - 1 \in 1 .. Len(s) - 1 /\ (i - 1) + 1 = i
    BY <1>1
  <2> QED BY <1>1, <2>1
<1> QED BY <1>1, <1>2

(* What the operations of the free list do to its four fields.             *)

LEMMA FreelistFields ==
  ASSUME NEW f \in FreelistType
  PROVE  /\ f.list \in Seq(PhyReg) /\ f.backup \in Seq(PhyReg)
         /\ f.idx \in [PhyReg -> Nat] /\ f.idx_backup \in [PhyReg -> Nat]
BY DEF FreelistType

LEMMA PopFields ==
  ASSUME NEW f \in FreelistType
  PROVE  /\ Pop(f).list = Tail(f.list)
         /\ Pop(f).backup = f.backup
         /\ Pop(f).idx = [f.idx EXCEPT ![Head(f.list)] = f.idx[Head(f.list)] - 1]
         /\ Pop(f).idx_backup = f.idx_backup
BY DEF Pop, FreelistType

\* Taking a register that is counted keeps the type of the list.
LEMMA PopType ==
  ASSUME NEW f \in FreelistType, f.list # << >>, f.idx[Head(f.list)] = 1
  PROVE  Pop(f) \in FreelistType
<1>1. /\ f.list \in Seq(PhyReg) /\ f.backup \in Seq(PhyReg)
      /\ f.idx \in [PhyReg -> Nat] /\ f.idx_backup \in [PhyReg -> Nat]
  BY FreelistFields
<1>2. Head(f.list) \in PhyReg /\ Tail(f.list) \in Seq(PhyReg)
  BY <1>1
<1>3. [f.idx EXCEPT ![Head(f.list)] = f.idx[Head(f.list)] - 1] \in [PhyReg -> Nat]
  BY <1>1, <1>2
<1> QED
  BY <1>2, <1>3 DEF Pop, FreelistType

LEMMA BackupPopFields ==
  ASSUME NEW f \in FreelistType
  PROVE  /\ BackupPop(f).list = f.list
         /\ BackupPop(f).backup = Tail(f.backup)
         /\ BackupPop(f).idx = f.idx
         /\ BackupPop(f).idx_backup =
               [f.idx_backup EXCEPT ![Head(f.backup)] = f.idx_backup[Head(f.backup)] - 1]
BY DEF BackupPop, FreelistType

LEMMA BackupPopType ==
  ASSUME NEW f \in FreelistType, f.backup # << >>, f.idx_backup[Head(f.backup)] = 1
  PROVE  BackupPop(f) \in FreelistType
<1>1. /\ f.list \in Seq(PhyReg) /\ f.backup \in Seq(PhyReg)
      /\ f.idx \in [PhyReg -> Nat] /\ f.idx_backup \in [PhyReg -> Nat]
  BY FreelistFields
<1>2. Head(f.backup) \in PhyReg /\ Tail(f.backup) \in Seq(PhyReg)
  BY <1>1
<1>3. [f.idx_backup EXCEPT ![Head(f.backup)] = f.idx_backup[Head(f.backup)] - 1]
        \in [PhyReg -> Nat]
  BY <1>1, <1>2
<1> QED
  BY <1>2, <1>3 DEF BackupPop, FreelistType

LEMMA PushType ==
  ASSUME NEW f \in FreelistType, NEW p \in PhyReg
  PROVE  Push(f, p) \in FreelistType
<1>1. /\ f.list \in Seq(PhyReg) /\ f.backup \in Seq(PhyReg)
      /\ f.idx \in [PhyReg -> Nat] /\ f.idx_backup \in [PhyReg -> Nat]
  BY FreelistFields
<1>2. /\ Append(f.list, p) \in Seq(PhyReg)
      /\ Append(f.backup, p) \in Seq(PhyReg)
      /\ [f.idx EXCEPT ![p] = @ + 1] \in [PhyReg -> Nat]
      /\ [f.idx_backup EXCEPT ![p] = @ + 1] \in [PhyReg -> Nat]
  BY <1>1
<1> QED
  BY <1>2 DEF Push, FreelistType

LEMMA RollBackFields ==
  ASSUME NEW f \in FreelistType
  PROVE  /\ RollBack(f) \in FreelistType
         /\ RollBack(f).list = f.backup /\ RollBack(f).backup = f.backup
         /\ RollBack(f).idx = f.idx_backup /\ RollBack(f).idx_backup = f.idx_backup
BY DEF RollBack, FreelistType

-----------------------------------------------------------------------------
LEMMA InitInv == Init => IInv
<1> SUFFICES ASSUME Init PROVE IInv
  OBVIOUS
<1> USE PhyRegNumAssumption, IsaRegNumAssumption
<1> DEFINE all == [i \in 1 .. PhyRegNum - 1 |-> i]
           counts == [p \in PhyReg |-> IF p = 0 THEN 0 ELSE 1]
<1>1. /\ fl.list = all /\ fl.backup = all /\ fl.idx = counts /\ fl.idx_backup = counts
      /\ inflight = << >> /\ Len(inflight) = 0
      /\ \A r \in IsaReg : table[r] = 0 /\ backup[r] = 0
  BY DEF Init, FreelistInit, TableInit
<1>2. all \in Seq(PhyReg) /\ Len(all) = PhyRegNum - 1 /\ counts \in [PhyReg -> Nat]
  BY DEF PhyReg
<1>3. TypeOK
  <2>1. fl \in FreelistType
    BY <1>2 DEF Init, FreelistInit, FreelistType
  <2>2. 0 \in PhyReg
    BY DEF PhyReg
  <2> QED
    BY <2>1, <2>2 DEF Init, TableInit, TypeOK
<1>4. 0 \in IsaReg
  BY DEF IsaReg
<1> HIDE DEF all
<1>5. \A i \in 1 .. PhyRegNum - 1 : all[i] = i
  BY DEF all
<1>6. BackupIsInflightThenFree
  BY <1>1, <1>2, <1>5 DEF BackupIsInflightThenFree
<1>7. CommittedListDistinct
  BY <1>1, <1>2, <1>5 DEF CommittedListDistinct
<1>8. CommittedTableApart
  BY <1>1, <1>2, <1>4, <1>5 DEF CommittedTableApart
<1>9. WriterIsDecided /\ TableIsYoungest /\ LPhyRdIsPrevious
  BY <1>1 DEF WriterIsDecided, NoWriter, YoungestWriter, TableIsYoungest, LPhyRdIsPrevious
<1>10. NoRegisterLeaks
  <2> SUFFICES ASSUME NEW p \in PhyReg \ {0}
               PROVE  \E i \in 1 .. Len(fl.backup) : fl.backup[i] = p
    BY DEF NoRegisterLeaks
  <2>1. p \in 1 .. PhyRegNum - 1
    BY DEF PhyReg
  <2> QED
    BY <2>1, <1>1, <1>2, <1>5
<1>11. CountersMatchLists
  <2> SUFFICES ASSUME NEW p \in PhyReg
               PROVE  (IF \E i \in 1 .. Len(all) : all[i] = p THEN 1 ELSE 0) = counts[p]
    BY <1>1 DEF CountersMatchLists
  <2>1. (\E i \in 1 .. Len(all) : all[i] = p) <=> p # 0
    BY <1>2, <1>5 DEF PhyReg
  <2> QED
    BY <2>1
<1> QED
  BY <1>3, <1>6, <1>7, <1>8, <1>9, <1>10, <1>11 DEF IInv

-----------------------------------------------------------------------------
\* The front of the free list is counted once, and is not the mapping of x0.
LEMMA FrontIsCounted ==
  ASSUME IInv, fl.list # << >>
  PROVE  /\ Head(fl.list) \in PhyReg
         /\ Head(fl.list) = fl.backup[Len(inflight) + 1]
         /\ fl.idx[Head(fl.list)] = 1
         /\ \A i \in 1 .. Len(Tail(fl.list)) : Tail(fl.list)[i] # Head(fl.list)
<1>1. fl.list \in Seq(PhyReg) /\ fl.backup \in Seq(PhyReg) /\ inflight \in Seq(Writer)
  BY FreelistFields DEF IInv, TypeOK
<1>2. 1 \in 1 .. Len(fl.list) /\ fl.list[1] = Head(fl.list) /\ Head(fl.list) \in PhyReg
  BY <1>1
<1>3. fl.idx[Head(fl.list)] = 1
  BY <1>2 DEF IInv, CountersMatchLists
<1>4. fl.list[1] = fl.backup[Len(inflight) + 1]
  BY <1>2 DEF IInv, BackupIsInflightThenFree
<1>5. ASSUME NEW i \in 1 .. Len(Tail(fl.list))
      PROVE  Tail(fl.list)[i] # Head(fl.list)
  <2>1. Tail(fl.list)[i] = fl.list[i + 1] /\ i + 1 \in 1 .. Len(fl.list)
    BY <1>1
  <2>2. fl.list[i + 1] = fl.backup[Len(inflight) + (i + 1)]
    BY <2>1 DEF IInv, BackupIsInflightThenFree
  <2>3. /\ Len(inflight) + (i + 1) \in 1 .. Len(fl.backup)
        /\ Len(inflight) + 1 \in 1 .. Len(fl.backup)
        /\ Len(inflight) + (i + 1) # Len(inflight) + 1
    BY <1>1, <2>1 DEF IInv, BackupIsInflightThenFree
  <2> QED
    BY <1>2, <1>4, <2>1, <2>2, <2>3 DEF IInv, CommittedListDistinct
<1> QED
  BY <1>2, <1>3, <1>4, <1>5

-----------------------------------------------------------------------------
(* How the writers of a register are found in a sequence that grows at the *)
(* young end, and in one that shrinks at the old end.                      *)

\* The writers among the first m instructions do not depend on the later ones.
LEMMA WritersOfPrefix ==
  ASSUME NEW n \in Nat, NEW s, NEW t, \A i \in 1 .. n : t[i] = s[i],
         NEW r, NEW m \in 0 .. n
  PROVE  /\ NoWriter(t, r, m) <=> NoWriter(s, r, m)
         /\ \A i \in 1 .. m : YoungestWriter(t, r, m, i) <=> YoungestWriter(s, r, m, i)
<1>1. \A j \in 1 .. m : t[j] = s[j]
  OBVIOUS
<1>2. NoWriter(t, r, m) <=> NoWriter(s, r, m)
  BY <1>1 DEF NoWriter
<1>3. ASSUME NEW i \in 1 .. m
      PROVE  YoungestWriter(t, r, m, i) <=> YoungestWriter(s, r, m, i)
  <2>1. \A j \in i + 1 .. m : t[j] = s[j]
    BY <1>1
  <2> QED
    BY <1>1, <2>1 DEF YoungestWriter
<1> QED
  BY <1>2, <1>3

\* A new instruction is the youngest writer of its register ...
LEMMA WritersAfterAppendSame ==
  ASSUME NEW n \in Nat, NEW t, NEW r, t[n + 1].IsaRd = r
  PROVE  /\ ~NoWriter(t, r, n + 1)
         /\ YoungestWriter(t, r, n + 1, n + 1)
         /\ \A i \in 1 .. n + 1 : YoungestWriter(t, r, n + 1, i) => i = n + 1
BY DEF NoWriter, YoungestWriter

\* ... and changes nothing for the others.
LEMMA WritersAfterAppendOther ==
  ASSUME NEW n \in Nat, NEW s, NEW t, \A i \in 1 .. n : t[i] = s[i],
         NEW r, t[n + 1].IsaRd # r
  PROVE  /\ NoWriter(t, r, n + 1) <=> NoWriter(s, r, n)
         /\ ~YoungestWriter(t, r, n + 1, n + 1)
         /\ \A i \in 1 .. n : YoungestWriter(t, r, n + 1, i) <=> YoungestWriter(s, r, n, i)
<1>1. NoWriter(t, r, n + 1) <=> NoWriter(s, r, n)
  BY DEF NoWriter
<1>2. ~YoungestWriter(t, r, n + 1, n + 1)
  BY DEF YoungestWriter
<1>3. ASSUME NEW i \in 1 .. n
      PROVE  YoungestWriter(t, r, n + 1, i) <=> YoungestWriter(s, r, n, i)
  <2>1. (\A j \in i + 1 .. n + 1 : t[j].IsaRd # r) <=> (\A j \in i + 1 .. n : s[j].IsaRd # r)
    <3>1. ASSUME \A j \in i + 1 .. n : s[j].IsaRd # r, NEW j \in i + 1 .. n + 1
          PROVE  t[j].IsaRd # r
      <4>1. CASE j = n + 1
        BY <4>1
      <4>2. CASE j \in i + 1 .. n
        BY <4>2, <3>1
      <4> QED BY <4>1, <4>2
    <3>2. ASSUME \A j \in i + 1 .. n + 1 : t[j].IsaRd # r, NEW j \in i + 1 .. n
          PROVE  s[j].IsaRd # r
      BY <3>2
    <3> QED BY <3>1, <3>2
  <2> QED
    BY <2>1 DEF YoungestWriter
<1> QED
  BY <1>1, <1>2, <1>3

\* When the oldest instruction leaves, the youngest writer of a register is the
\* same instruction one place further on, unless it was the oldest itself.
LEMMA WritersAfterTail ==
  ASSUME NEW n \in Nat, NEW s, NEW t, \A i \in 1 .. n : t[i] = s[i + 1],
         NEW r, NEW m \in 0 .. n
  PROVE  /\ NoWriter(s, r, m + 1) <=> (NoWriter(t, r, m) /\ s[1].IsaRd # r)
         /\ (NoWriter(t, r, m) /\ s[1].IsaRd = r) <=> YoungestWriter(s, r, m + 1, 1)
         /\ \A i \in 1 .. m :
               YoungestWriter(t, r, m, i) <=> YoungestWriter(s, r, m + 1, i + 1)
<1>1. \A j \in 1 .. m : t[j] = s[j + 1]
  OBVIOUS
<1>2. (\A j \in 1 .. m : t[j].IsaRd # r) <=> (\A j \in 2 .. m + 1 : s[j].IsaRd # r)
  <2>1. ASSUME \A j \in 1 .. m : t[j].IsaRd # r, NEW j \in 2 .. m + 1
        PROVE  s[j].IsaRd # r
    <3>1. j - 1 \in 1 .. m /\ t[j - 1] = s[(j - 1) + 1] /\ (j - 1) + 1 = j
      BY <1>1
    <3> QED BY <3>1, <2>1
  <2>2. ASSUME \A j \in 2 .. m + 1 : s[j].IsaRd # r, NEW j \in 1 .. m
        PROVE  t[j].IsaRd # r
    <3>1. j + 1 \in 2 .. m + 1 /\ t[j] = s[j + 1]
      BY <1>1
    <3> QED BY <3>1, <2>2
  <2> QED BY <2>1, <2>2
<1>3. NoWriter(s, r, m + 1) <=> (NoWriter(t, r, m) /\ s[1].IsaRd # r)
  <2>1. (\A j \in 1 .. m + 1 : s[j].IsaRd # r) <=>
          (s[1].IsaRd # r /\ \A j \in 2 .. m + 1 : s[j].IsaRd # r)
    OBVIOUS
  <2> QED BY <1>2, <2>1 DEF NoWriter
<1>4. (NoWriter(t, r, m) /\ s[1].IsaRd = r) <=> YoungestWriter(s, r, m + 1, 1)
  BY <1>2 DEF NoWriter, YoungestWriter
<1>5. ASSUME NEW i \in 1 .. m
      PROVE  YoungestWriter(t, r, m, i) <=> YoungestWriter(s, r, m + 1, i + 1)
  <2>1. (\A j \in i + 1 .. m : t[j].IsaRd # r) <=>
          (\A j \in (i + 1) + 1 .. m + 1 : s[j].IsaRd # r)
    <3>1. ASSUME \A j \in i + 1 .. m : t[j].IsaRd # r, NEW j \in (i + 1) + 1 .. m + 1
          PROVE  s[j].IsaRd # r
      <4>1. j - 1 \in i + 1 .. m /\ j - 1 \in 1 .. m /\ (j - 1) + 1 = j
        OBVIOUS
      <4>2. t[j - 1] = s[j]
        BY <4>1, <1>1
      <4> QED BY <4>1, <4>2, <3>1
    <3>2. ASSUME \A j \in (i + 1) + 1 .. m + 1 : s[j].IsaRd # r, NEW j \in i + 1 .. m
          PROVE  t[j].IsaRd # r
      <4>1. j + 1 \in (i + 1) + 1 .. m + 1 /\ t[j] = s[j + 1]
        BY <1>1
      <4> QED BY <4>1, <3>2
    <3> QED BY <3>1, <3>2
  <2>2. t[i] = s[i + 1] /\ i + 1 \in 1 .. m + 1
    BY <1>1
  <2> QED
    BY <2>1, <2>2 DEF YoungestWriter
<1> QED
  BY <1>3, <1>4, <1>5

-----------------------------------------------------------------------------
LEMMA StutterInv == ASSUME IInv, UNCHANGED vars PROVE IInv'
<1>1. fl' = fl /\ table' = table /\ backup' = backup /\ inflight' = inflight
  BY DEF vars
<1>2. TypeOK' /\ BackupIsInflightThenFree' /\ CommittedListDistinct' /\ CommittedTableApart'
  BY <1>1 DEF IInv, TypeOK, BackupIsInflightThenFree, CommittedListDistinct,
              CommittedTableApart
<1>3. WriterIsDecided' /\ TableIsYoungest'
  BY <1>1 DEF IInv, WriterIsDecided, TableIsYoungest
<1>4. LPhyRdIsPrevious'
  BY <1>1 DEF IInv, LPhyRdIsPrevious
<1>5. NoRegisterLeaks'
  BY <1>1 DEF IInv, NoRegisterLeaks
<1>6. CountersMatchLists'
  BY <1>1 DEF IInv, CountersMatchLists
<1> QED
  BY <1>2, <1>3, <1>4, <1>5, <1>6 DEF IInv

\* Renaming one instruction keeps the invariant.
LEMMA RenameInv ==
  ASSUME IInv, NEW rd \in IsaReg, Rename(rd)
  PROVE  IInv'
<1>1. CASE rd = 0
  <2>1. UNCHANGED vars
    BY <1>1 DEF Rename, RenamedFreelist, RenamedTable, vars
  <2> QED
    BY <2>1, StutterInv
<1>2. CASE rd # 0
  <2>1. PICK p, new :
          /\ p = Head(fl.list) /\ new = [IsaRd |-> rd, PhyRd |-> p, LPhyRd |-> table[rd]]
          /\ fl.list # << >> /\ fl' = Pop(fl) /\ backup' = backup
          /\ table' = [table EXCEPT ![rd] = p] /\ inflight' = Append(inflight, new)
    BY <1>2 DEF Rename, IsEmpty, RenamedFreelist, RenamedTable, RenamedRd, Front
  <2>2. /\ fl \in FreelistType /\ table \in [IsaReg -> PhyReg]
        /\ backup \in [IsaReg -> PhyReg] /\ inflight \in Seq(Writer)
        /\ fl.list \in Seq(PhyReg) /\ fl.backup \in Seq(PhyReg)
        /\ fl.idx \in [PhyReg -> Nat] /\ fl.idx_backup \in [PhyReg -> Nat]
    BY FreelistFields DEF IInv, TypeOK
  <2>n. PICK n \in Nat : n = Len(inflight)
    BY <2>2
  <2>t. /\ Head(fl.list) = fl.list[1] /\ Len(fl.list) \in Nat \ {0}
        /\ Len(Tail(fl.list)) = Len(fl.list) - 1
        /\ \A i \in 1 .. Len(fl.list) - 1 :
              i + 1 \in 1 .. Len(fl.list) /\ Tail(fl.list)[i] = fl.list[i + 1]
        /\ \A i \in 2 .. Len(fl.list) :
              i - 1 \in 1 .. Len(fl.list) - 1 /\ Tail(fl.list)[i - 1] = fl.list[i]
    BY <2>1, <2>2, TailPlaces
  <2>3. /\ fl'.list = Tail(fl.list) /\ fl'.backup = fl.backup
        /\ fl'.idx = [fl.idx EXCEPT ![p] = fl.idx[p] - 1]
        /\ fl'.idx_backup = fl.idx_backup
    BY <2>1, <2>2, PopFields
  <2>4. /\ p \in PhyReg /\ p = fl.backup[n + 1] /\ fl.idx[p] = 1
        /\ \A i \in 1 .. Len(Tail(fl.list)) : Tail(fl.list)[i] # p
    BY <2>1, <2>n, FrontIsCounted
  <2>5. new \in Writer
    BY <1>2, <2>1, <2>2, <2>4 DEF Writer
  <2>6. /\ Len(inflight') = n + 1 /\ inflight'[n + 1] = new
        /\ \A i \in 1 .. n : inflight'[i] = inflight[i]
        /\ inflight' \in Seq(Writer)
    BY <2>1, <2>2, <2>5, <2>n
  <2>7. /\ new.IsaRd = rd /\ new.PhyRd = p /\ new.LPhyRd = table[rd]
        /\ table'[rd] = p /\ \A r \in IsaReg : r # rd => table'[r] = table[r]
    BY <2>1, <2>2
  <2>8. TypeOK'
    <3>1. fl' \in FreelistType
      BY <2>1, <2>2, <2>4, PopType
    <3> QED
      BY <3>1, <2>1, <2>2, <2>4, <2>6 DEF TypeOK
  <2>9. BackupIsInflightThenFree'
    <3>1. /\ Len(fl.backup) = n + Len(fl.list)
          /\ \A i \in 1 .. n : fl.backup[i] = inflight[i].PhyRd
          /\ \A i \in 1 .. Len(fl.list) : fl.list[i] = fl.backup[n + i]
      BY <2>n DEF IInv, BackupIsInflightThenFree
    <3>2. Len(fl'.list) = Len(fl.list) - 1
      BY <2>1, <2>2, <2>3
    <3>3. Len(fl'.backup) = Len(inflight') + Len(fl'.list)
      <4>1. Len(fl'.backup) = Len(fl.backup)
        BY <2>3
      <4>2. Len(inflight') = n + 1 /\ Len(fl.list) \in Nat
        BY <2>6, <2>t
      <4>3. Len(fl.backup) = n + Len(fl.list)
        BY <3>1
      <4>4. PICK m \in Nat : m = Len(fl.list)
        BY <4>2
      <4>5. /\ Len(fl'.backup) = n + m /\ Len(inflight') = n + 1
            /\ Len(fl'.list) = m - 1
        BY <4>1, <4>2, <4>3, <4>4, <3>2
      <4>6. n + m = (n + 1) + (m - 1)
        OBVIOUS
      <4> QED BY <4>5, <4>6
    <3>4. ASSUME NEW i \in 1 .. Len(inflight') PROVE fl'.backup[i] = inflight'[i].PhyRd
      <4>1. CASE i = n + 1
        BY <4>1, <2>3, <2>4, <2>6, <2>7
      <4>2. CASE i \in 1 .. n
        BY <4>2, <2>3, <2>6, <3>1
      <4> QED BY <4>1, <4>2, <2>6
    <3>5. ASSUME NEW i \in 1 .. Len(fl'.list)
          PROVE  fl'.list[i] = fl'.backup[Len(inflight') + i]
      <4>1. i + 1 \in 1 .. Len(fl.list) /\ fl'.list[i] = fl.list[i + 1]
        BY SMTT(60), <2>1, <2>2, <2>3, <3>2
      <4>2. fl.list[i + 1] = fl.backup[n + (i + 1)] /\ n + (i + 1) = Len(inflight') + i
        BY <4>1, <3>1, <2>6
      <4> QED BY <4>1, <4>2, <2>3
    <3> QED
      BY <3>3, <3>4, <3>5 DEF BackupIsInflightThenFree
  <2>10. CommittedListDistinct' /\ CommittedTableApart' /\ NoRegisterLeaks'
    BY <2>1, <2>3
    DEF IInv, CommittedListDistinct, CommittedTableApart, NoRegisterLeaks
  <2>11. ASSUME NEW r \in IsaReg, NEW m \in 0 .. n
         PROVE  /\ NoWriter(inflight', r, m) <=> NoWriter(inflight, r, m)
                /\ \A i \in 1 .. m : YoungestWriter(inflight', r, m, i)
                                        <=> YoungestWriter(inflight, r, m, i)
    BY <2>6, WritersOfPrefix
  <2>12. /\ ~NoWriter(inflight', rd, n + 1) /\ YoungestWriter(inflight', rd, n + 1, n + 1)
         /\ \A i \in 1 .. n + 1 : YoungestWriter(inflight', rd, n + 1, i) => i = n + 1
    BY <2>6, <2>7, WritersAfterAppendSame
  <2>13. ASSUME NEW r \in IsaReg, r # rd
         PROVE  /\ NoWriter(inflight', r, n + 1) <=> NoWriter(inflight, r, n)
                /\ ~YoungestWriter(inflight', r, n + 1, n + 1)
                /\ \A i \in 1 .. n : YoungestWriter(inflight', r, n + 1, i)
                                        <=> YoungestWriter(inflight, r, n, i)
    BY <2>6, <2>7, <2>13, WritersAfterAppendOther
  <2>14. WriterIsDecided'
    <3> SUFFICES ASSUME NEW r \in IsaReg, NEW m \in 0 .. n + 1
                 PROVE  \/ NoWriter(inflight', r, m)
                        \/ \E i \in 1 .. m : YoungestWriter(inflight', r, m, i)
      BY <2>6 DEF WriterIsDecided
    <3>1. CASE m \in 0 .. n
      <4>1. \/ NoWriter(inflight, r, m)
            \/ \E i \in 1 .. m : YoungestWriter(inflight, r, m, i)
        BY <3>1, <2>n DEF IInv, WriterIsDecided
      <4> QED BY <3>1, <4>1, <2>11
    <3>2. CASE m = n + 1 /\ r = rd
      BY <3>2, <2>12
    <3>3. CASE m = n + 1 /\ r # rd
      <4>1. \/ NoWriter(inflight, r, n)
            \/ \E i \in 1 .. n : YoungestWriter(inflight, r, n, i)
        BY <2>n DEF IInv, WriterIsDecided
      <4>2. \A i \in 1 .. n : i \in 1 .. m
        BY <3>3
      <4> QED BY <4>1, <4>2, <3>3, <2>13
    <3> QED BY <3>1, <3>2, <3>3
  <2>15. \A r \in IsaReg :
            /\ NoWriter(inflight, r, n) => table[r] = backup[r]
            /\ \A i \in 1 .. n : YoungestWriter(inflight, r, n, i) =>
                                    table[r] = inflight[i].PhyRd
    BY <2>n DEF IInv, TableIsYoungest
  <2>16. TableIsYoungest'
    <3> SUFFICES ASSUME NEW r \in IsaReg
                 PROVE  /\ NoWriter(inflight', r, n + 1) => table'[r] = backup'[r]
                        /\ \A i \in 1 .. n + 1 : YoungestWriter(inflight', r, n + 1, i) =>
                              table'[r] = inflight'[i].PhyRd
      BY <2>6 DEF TableIsYoungest
    <3>1. CASE r = rd
      BY <3>1, <2>6, <2>7, <2>12
    <3>2. CASE r # rd
      <4>1. \A i \in 1 .. n + 1 : i \in 1 .. n \/ i = n + 1
        OBVIOUS
      <4> QED BY <3>2, <4>1, <2>1, <2>6, <2>7, <2>13, <2>15
    <3> QED BY <3>1, <3>2
  <2>17. LPhyRdIsPrevious'
    <3> SUFFICES ASSUME NEW k \in 1 .. n + 1
                 PROVE  /\ NoWriter(inflight', inflight'[k].IsaRd, k - 1) =>
                              inflight'[k].LPhyRd = backup'[inflight'[k].IsaRd]
                        /\ \A i \in 1 .. k - 1 :
                              YoungestWriter(inflight', inflight'[k].IsaRd, k - 1, i) =>
                                inflight'[k].LPhyRd = inflight'[i].PhyRd
      BY <2>6 DEF LPhyRdIsPrevious
    <3>1. CASE k \in 1 .. n
      <4>1. inflight'[k] = inflight[k] /\ k - 1 \in 0 .. n
        BY <3>1, <2>6
      <4>2. inflight[k].IsaRd \in IsaReg
        <5>1. inflight[k] \in Writer
          BY <3>1, <2>2, <2>n
        <5> QED BY <5>1 DEF Writer
      <4>3. /\ NoWriter(inflight, inflight[k].IsaRd, k - 1) =>
                  inflight[k].LPhyRd = backup[inflight[k].IsaRd]
            /\ \A i \in 1 .. k - 1 : YoungestWriter(inflight, inflight[k].IsaRd, k - 1, i) =>
                                        inflight[k].LPhyRd = inflight[i].PhyRd
        BY <3>1, <2>n DEF IInv, LPhyRdIsPrevious
      <4>4. \A i \in 1 .. k - 1 : inflight'[i] = inflight[i]
        BY <3>1, <2>6
      <4> QED BY <4>1, <4>2, <4>3, <4>4, <2>1, <2>11
    <3>2. CASE k = n + 1
      <4>1. inflight'[k].IsaRd = rd /\ inflight'[k].LPhyRd = table[rd] /\ k - 1 = n
        BY <3>2, <2>6, <2>7
      <4>2. /\ NoWriter(inflight', rd, n) <=> NoWriter(inflight, rd, n)
            /\ \A i \in 1 .. n : YoungestWriter(inflight', rd, n, i)
                                    <=> YoungestWriter(inflight, rd, n, i)
        BY <2>11
      <4> QED BY <4>1, <4>2, <2>1, <2>6, <2>15
    <3> QED BY <3>1, <3>2
  <2>18. CountersMatchLists'
    <3>1. ASSUME NEW q \in PhyReg
          PROVE  fl'.idx[q] = IF \E i \in 1 .. Len(fl'.list) : fl'.list[i] = q THEN 1 ELSE 0
      <4>1. fl.idx[q] = IF \E i \in 1 .. Len(fl.list) : fl.list[i] = q THEN 1 ELSE 0
        BY DEF IInv, CountersMatchLists
      <4>2. CASE q = p
        <5>1. fl'.idx[q] = 0
          BY <4>2, <2>2, <2>3, <2>4
        <5> QED BY <5>1, <4>2, <2>3, <2>4
      <4>3. CASE q # p
        <5>1. fl'.idx[q] = fl.idx[q]
          BY <4>3, <2>2, <2>3
        <5>2. ASSUME NEW i \in 1 .. Len(fl.list), fl.list[i] = q
              PROVE  \E j \in 1 .. Len(fl'.list) : fl'.list[j] = q
          <6>1. i # 1
            BY SMTT(60), <4>3, <5>2, <2>1, <2>2
          <6>2. i - 1 \in 1 .. Len(fl'.list) /\ fl'.list[i - 1] = fl.list[i]
            BY <6>1, <2>3, <2>t
          <6> QED BY <6>2, <5>2
        <5>3. ASSUME NEW i \in 1 .. Len(fl'.list), fl'.list[i] = q
              PROVE  \E j \in 1 .. Len(fl.list) : fl.list[j] = q
          <6>1. i + 1 \in 1 .. Len(fl.list) /\ fl'.list[i] = fl.list[i + 1]
            BY <2>3, <2>t
          <6> QED BY <6>1, <5>3
        <5> QED BY <5>1, <5>2, <5>3, <4>1
      <4> QED BY <4>2, <4>3
    <3>2. ASSUME NEW q \in PhyReg
          PROVE  fl'.idx_backup[q] =
                   IF \E i \in 1 .. Len(fl'.backup) : fl'.backup[i] = q THEN 1 ELSE 0
      BY <2>3 DEF IInv, CountersMatchLists
    <3> QED
      BY <3>1, <3>2 DEF CountersMatchLists
  <2> QED
    BY <2>8, <2>9, <2>10, <2>14, <2>16, <2>17, <2>18 DEF IInv
<1> QED
  BY <1>1, <1>2

\* Committing the oldest writer keeps the invariant.
LEMMA CommitInv ==
  ASSUME IInv, Commit
  PROVE  IInv'
<1>1. PICK inst : inst = Head(inflight)
  OBVIOUS
<1>2. /\ inflight # << >> /\ inflight' = Tail(inflight) /\ table' = table
      /\ fl' = CommittedFreelist(fl, inst.PhyRd, inst.LPhyRd)
      /\ backup' = [backup EXCEPT ![inst.IsaRd] = inst.PhyRd]
  BY <1>1 DEF Commit, CommittedTable
<1>3. /\ fl \in FreelistType /\ table \in [IsaReg -> PhyReg]
      /\ backup \in [IsaReg -> PhyReg] /\ inflight \in Seq(Writer)
      /\ fl.list \in Seq(PhyReg) /\ fl.backup \in Seq(PhyReg)
      /\ fl.idx \in [PhyReg -> Nat] /\ fl.idx_backup \in [PhyReg -> Nat]
  BY FreelistFields DEF IInv, TypeOK
<1>4. PICK n \in Nat : Len(inflight) = n + 1
  <2>1. Len(inflight) \in Nat \ {0}
    BY <1>2, <1>3
  <2>2. Len(inflight) - 1 \in Nat /\ Len(inflight) = (Len(inflight) - 1) + 1
    BY <2>1
  <2> QED BY <2>2
<1>5. /\ inst = inflight[1] /\ inst \in Writer
      /\ inflight' \in Seq(Writer) /\ Len(inflight') = n
      /\ \A i \in 1 .. n : inflight'[i] = inflight[i + 1]
  <2>1. /\ Head(inflight) = inflight[1] /\ Head(inflight) \in Writer
        /\ Tail(inflight) \in Seq(Writer) /\ Len(Tail(inflight)) = Len(inflight) - 1
        /\ \A i \in 1 .. Len(inflight) - 1 : Tail(inflight)[i] = inflight[i + 1]
    BY <1>2, <1>3, TailPlaces
  <2> QED BY <2>1, <1>1, <1>2, <1>4
<1>6. PICK rd, b, l : rd = inst.IsaRd /\ b = inst.PhyRd /\ l = inst.LPhyRd
  OBVIOUS
<1>7. rd \in IsaReg /\ rd # 0 /\ b \in PhyReg /\ l \in PhyReg
  BY <1>5, <1>6 DEF Writer
<1>8. /\ Len(fl.backup) = (n + 1) + Len(fl.list) /\ Len(fl.list) \in Nat
      /\ \A i \in 1 .. n + 1 : fl.backup[i] = inflight[i].PhyRd
      /\ \A i \in 1 .. Len(fl.list) : fl.list[i] = fl.backup[(n + 1) + i]
  BY <1>3, <1>4 DEF IInv, BackupIsInflightThenFree
<1>a. /\ Len(fl.list) \in Nat /\ Len(fl.backup) \in Nat
      /\ Len(fl.backup) = (n + 1) + Len(fl.list)
  <2>1. Len(fl.backup) = Len(inflight) + Len(fl.list)
    BY DEF IInv, BackupIsInflightThenFree
  <2>2. Len(fl.list) \in Nat /\ Len(fl.backup) \in Nat
    BY <1>3
  <2> QED BY <2>1, <2>2, <1>4
<1>m. PICK m \in Nat : m = Len(fl.list)
  BY <1>a
<1>c. Len(fl.backup) = (n + 1) + m
  BY <1>a, <1>m
\* The committed list is not empty, and its front is the register written.
<1>9. /\ fl.backup # << >> /\ Head(fl.backup) = b /\ fl.backup[1] = b
      /\ b # 0 /\ fl.idx_backup[b] = 1 /\ Len(fl.backup) \in Nat \ {0}
  <2>1. Len(fl.backup) \in Nat \ {0}
    <3>1. (n + 1) + m \in Nat \ {0}
      OBVIOUS
    <3> QED BY <3>1, <1>c
  <2>2. fl.backup # << >> /\ Head(fl.backup) = fl.backup[1] /\ 1 \in 1 .. Len(fl.backup)
    BY <1>3, <2>1
  <2>3. fl.backup[1] = b
    BY <1>5, <1>6, <1>8
  <2>4. b # 0
    BY <2>2, <2>3 DEF IInv, CommittedListDistinct
  <2>5. fl.idx_backup[b] = 1
    BY <2>2, <2>3, <1>7 DEF IInv, CountersMatchLists
  <2> QED BY <2>1, <2>2, <2>3, <2>4, <2>5
\* Its LPhyRd is the committed mapping it replaces.
<1>10. l = backup[rd]
  <2>1. 1 \in 1 .. Len(inflight) /\ 1 - 1 = 0
    BY <1>4
  <2>2. NoWriter(inflight, inflight[1].IsaRd, 0)
    BY DEF NoWriter
  <2>3. NoWriter(inflight, inflight[1].IsaRd, 1 - 1) =>
          inflight[1].LPhyRd = backup[inflight[1].IsaRd]
    BY <2>1 DEF IInv, LPhyRdIsPrevious
  <2> QED BY <2>1, <2>2, <2>3, <1>5, <1>6
<1>11. /\ \A i, j \in 1 .. Len(fl.backup) : fl.backup[i] = fl.backup[j] => i = j
       /\ \A i \in 1 .. Len(fl.backup) : fl.backup[i] # 0
       /\ backup[0] = 0
       /\ \A r \in IsaReg : \A i \in 1 .. Len(fl.backup) : fl.backup[i] # backup[r]
       /\ \A r, s \in IsaReg : (backup[r] = backup[s] /\ backup[r] # 0) => r = s
  BY DEF IInv, CommittedListDistinct, CommittedTableApart
<1>12. /\ backup'[rd] = b /\ \A r \in IsaReg : r # rd => backup'[r] = backup[r]
       /\ backup' \in [IsaReg -> PhyReg]
  BY <1>2, <1>3, <1>6, <1>7
<1>13. /\ Tail(fl.backup) \in Seq(PhyReg) /\ Len(Tail(fl.backup)) = n + Len(fl.list)
       /\ \A i \in 1 .. n + Len(fl.list) :
             i + 1 \in 1 .. Len(fl.backup) /\ Tail(fl.backup)[i] = fl.backup[i + 1]
       /\ \A i \in 2 .. Len(fl.backup) :
             i - 1 \in 1 .. n + Len(fl.list) /\ Tail(fl.backup)[i - 1] = fl.backup[i]
  <2>1. /\ Tail(fl.backup) \in Seq(PhyReg) /\ Len(Tail(fl.backup)) = Len(fl.backup) - 1
        /\ \A i \in 1 .. Len(fl.backup) - 1 :
              i + 1 \in 1 .. Len(fl.backup) /\ Tail(fl.backup)[i] = fl.backup[i + 1]
        /\ \A i \in 2 .. Len(fl.backup) :
              i - 1 \in 1 .. Len(fl.backup) - 1 /\ Tail(fl.backup)[i - 1] = fl.backup[i]
    BY <1>3, <1>9, TailPlaces
  <2>2. Len(fl.backup) - 1 = n + Len(fl.list)
    <3>1. ((n + 1) + m) - 1 = n + m
      OBVIOUS
    <3> QED BY <3>1, <1>c, <1>m
  <2> QED BY <2>1, <2>2
<1>14. PICK g : g = BackupPop(fl)
  OBVIOUS
<1>15. /\ g \in FreelistType /\ g.list = fl.list /\ g.backup = Tail(fl.backup)
       /\ g.idx = fl.idx
       /\ g.idx_backup = [fl.idx_backup EXCEPT ![b] = fl.idx_backup[b] - 1]
  BY <1>3, <1>9, <1>14, BackupPopFields, BackupPopType
<1>16. fl' = IF l # 0 THEN Push(g, l) ELSE g
  BY <1>2, <1>6, <1>9, <1>14 DEF CommittedFreelist
<1>17. /\ \A i \in 1 .. Len(g.backup) : g.backup[i] # b
       /\ g.idx_backup[b] = 0 /\ \A q \in PhyReg : q # b => g.idx_backup[q] = fl.idx_backup[q]
  <2>1. ASSUME NEW i \in 1 .. Len(g.backup) PROVE g.backup[i] # b
    <3>1. i + 1 \in 1 .. Len(fl.backup) /\ g.backup[i] = fl.backup[i + 1] /\ i + 1 # 1
      BY <1>13, <1>15
    <3>2. 1 \in 1 .. Len(fl.backup)
      BY <1>9
    <3> QED BY <3>1, <3>2, <1>9, <1>11
  <2>2. g.idx_backup[b] = 0 /\ \A q \in PhyReg : q # b => g.idx_backup[q] = fl.idx_backup[q]
    BY <1>3, <1>7, <1>9, <1>15
  <2> QED BY <2>1, <2>2
\* The lists after the step: one register more at the young end if l # 0.
<1>18. PICK e \in {0, 1} :
         /\ e = IF l # 0 THEN 1 ELSE 0
         /\ fl' \in FreelistType
         /\ Len(fl'.list) = Len(fl.list) + e
         /\ Len(fl'.backup) = (n + Len(fl.list)) + e
         /\ \A i \in 1 .. Len(fl.list) : fl'.list[i] = fl.list[i]
         /\ \A i \in 1 .. n + Len(fl.list) : fl'.backup[i] = fl.backup[i + 1]
         /\ e = 1 => /\ fl'.list[Len(fl.list) + 1] = l
                     /\ fl'.backup[(n + Len(fl.list)) + 1] = l
  <2>1. CASE l = 0
    <3>1. fl' = g
      BY <2>1, <1>16
    <3> QED BY <3>1, <2>1, <1>8, <1>13, <1>15
  <2>2. CASE l # 0
    <3>1. fl' = Push(g, l)
      BY <2>2, <1>16
    <3>2. fl' \in FreelistType
      BY <3>1, <1>7, <1>15, PushType
    <3>3. fl'.list = Append(fl.list, l) /\ fl'.backup = Append(Tail(fl.backup), l)
      BY <3>1, <1>15 DEF Push
    <3>4. /\ Len(fl'.list) = Len(fl.list) + 1 /\ fl'.list[Len(fl.list) + 1] = l
          /\ \A i \in 1 .. Len(fl.list) : fl'.list[i] = fl.list[i]
      BY <3>3, <1>3
    <3>5. /\ Len(fl'.backup) = (n + Len(fl.list)) + 1
          /\ fl'.backup[(n + Len(fl.list)) + 1] = l
          /\ \A i \in 1 .. n + Len(fl.list) : fl'.backup[i] = Tail(fl.backup)[i]
      BY <3>3, <1>13
    <3> QED BY <2>2, <3>2, <3>4, <3>5, <1>13
  <2> QED BY <2>1, <2>2
<1>b. /\ Len(fl'.list) = Len(fl.list) + e
      /\ Len(fl'.backup) = (n + Len(fl.list)) + e
  BY <1>18
<1>19. TypeOK'
  BY <1>2, <1>3, <1>5, <1>12, <1>18 DEF TypeOK
<1>20. BackupIsInflightThenFree'
  <2>1. Len(fl'.backup) = Len(inflight') + Len(fl'.list)
    <3>1. Len(inflight') = n
      BY <1>5
    <3> QED BY <3>1, <1>a, <1>b
  <2>2. ASSUME NEW i \in 1 .. n PROVE fl'.backup[i] = inflight'[i].PhyRd
    <3>1. i + 1 \in 1 .. n + 1 /\ i \in 1 .. n + Len(fl.list)
      BY <1>a
    <3> QED BY <3>1, <1>5, <1>8, <1>18
  <2>3. ASSUME NEW i \in 1 .. Len(fl'.list)
        PROVE  fl'.list[i] = fl'.backup[n + i]
    <3>1. CASE i \in 1 .. Len(fl.list)
      <4>1. n + i \in 1 .. n + Len(fl.list) /\ (n + i) + 1 = (n + 1) + i
        BY <3>1, <1>a
      <4> QED BY <4>1, <3>1, <1>8, <1>18
    <3>2. CASE e = 1 /\ i = Len(fl.list) + 1
      <4>1. n + i = (n + Len(fl.list)) + 1
        BY <3>2, <1>a
      <4> QED BY <4>1, <3>2, <1>18
    <3>3. i \in 1 .. Len(fl.list) \/ (e = 1 /\ i = Len(fl.list) + 1)
      BY <1>a, <1>b
    <3> QED BY <3>1, <3>2, <3>3
  <2> QED BY <2>1, <2>2, <2>3, <1>5 DEF BackupIsInflightThenFree
\* What is on the committed list after the step.
<1>21. ASSUME NEW i \in 1 .. Len(fl'.backup)
       PROVE  \/ /\ i \in 1 .. n + Len(fl.list) /\ fl'.backup[i] = fl.backup[i + 1]
                 /\ i + 1 \in 1 .. Len(fl.backup)
              \/ /\ i = (n + Len(fl.list)) + 1 /\ l # 0 /\ fl'.backup[i] = l
  <2>1. i \in 1 .. n + Len(fl.list) \/ (e = 1 /\ i = (n + Len(fl.list)) + 1)
    BY <1>a, <1>b
  <2> QED BY <2>1, <1>13, <1>18
<1>22. CommittedListDistinct'
  <2>1. ASSUME NEW i \in 1 .. Len(fl'.backup) PROVE fl'.backup[i] # 0
    BY <1>11, <1>21
  <2>2. ASSUME NEW i \in 1 .. Len(fl'.backup), NEW j \in 1 .. Len(fl'.backup),
               fl'.backup[i] = fl'.backup[j]
        PROVE  i = j
    <3>1. CASE i \in 1 .. n + Len(fl.list) /\ j \in 1 .. n + Len(fl.list)
      <4>1. /\ fl.backup[i + 1] = fl.backup[j + 1]
            /\ i + 1 \in 1 .. Len(fl.backup) /\ j + 1 \in 1 .. Len(fl.backup)
        BY <3>1, <2>2, <1>13, <1>18
      <4>2. i + 1 = j + 1
        BY <4>1, <1>11
      <4> QED BY <4>2
    <3>2. CASE i = (n + Len(fl.list)) + 1 /\ j = (n + Len(fl.list)) + 1
      BY <3>2
    <3>3. ASSUME NEW k \in 1 .. n + Len(fl.list) PROVE fl'.backup[k] # l
      BY <1>7, <1>10, <1>11, <1>13, <1>18
    <3> QED BY <3>1, <3>2, <3>3, <2>2, <1>21
  <2> QED BY <2>1, <2>2 DEF CommittedListDistinct
<1>23. CommittedTableApart'
  <2>1. backup'[0] = 0 /\ 0 \in IsaReg
    BY <1>7, <1>11, <1>12, IsaRegNumAssumption DEF IsaReg
  <2>2. \A r \in IsaReg : backup[r] # b
    BY <1>9, <1>11
  <2>3. ASSUME NEW r \in IsaReg, NEW i \in 1 .. Len(fl'.backup)
        PROVE  fl'.backup[i] # backup'[r]
    <3>1. CASE r = rd
      <4>1. 1 \in 1 .. Len(fl.backup) /\ (i \in 1 .. n + Len(fl.list) => i + 1 # 1)
        BY <1>9
      <4> QED BY <3>1, <4>1, <1>7, <1>9, <1>10, <1>11, <1>12, <1>21
    <3>2. CASE r # rd
      <4>1. backup[r] # l \/ l = 0
        BY <3>2, <1>7, <1>10, <1>11
      <4> QED BY <3>2, <4>1, <1>11, <1>12, <1>21
    <3> QED BY <3>1, <3>2
  <2>4. ASSUME NEW r \in IsaReg, NEW s \in IsaReg, backup'[r] = backup'[s], backup'[r] # 0
        PROVE  r = s
    BY <2>2, <2>4, <1>7, <1>11, <1>12
  <2> QED BY <2>1, <2>3, <2>4 DEF CommittedTableApart
<1>24. ASSUME NEW r, NEW len \in 0 .. n
       PROVE  /\ NoWriter(inflight, r, len + 1) <=> (NoWriter(inflight', r, len) /\ rd # r)
              /\ (NoWriter(inflight', r, len) /\ rd = r) <=> YoungestWriter(inflight, r, len + 1, 1)
              /\ \A i \in 1 .. len : YoungestWriter(inflight', r, len, i) <=>
                                      YoungestWriter(inflight, r, len + 1, i + 1)
  <2>1. inflight[1].IsaRd = rd
    BY <1>5, <1>6
  <2>2. \A i \in 1 .. n : inflight'[i] = inflight[i + 1]
    BY <1>5
  <2>3. /\ NoWriter(inflight, r, len + 1) <=>
              (NoWriter(inflight', r, len) /\ inflight[1].IsaRd # r)
        /\ (NoWriter(inflight', r, len) /\ inflight[1].IsaRd = r) <=>
              YoungestWriter(inflight, r, len + 1, 1)
        /\ \A i \in 1 .. len : YoungestWriter(inflight', r, len, i) <=>
                                YoungestWriter(inflight, r, len + 1, i + 1)
    BY <2>2, WritersAfterTail
  <2> QED BY <2>1, <2>3
<1>25. WriterIsDecided'
  <2> SUFFICES ASSUME NEW r \in IsaReg, NEW len \in 0 .. n
               PROVE  \/ NoWriter(inflight', r, len)
                      \/ \E i \in 1 .. len : YoungestWriter(inflight', r, len, i)
    BY <1>5 DEF WriterIsDecided
  <2>1. len + 1 \in 0 .. Len(inflight)
    BY <1>4
  <2>2. \/ NoWriter(inflight, r, len + 1)
        \/ \E i \in 1 .. len + 1 : YoungestWriter(inflight, r, len + 1, i)
    BY <2>1 DEF IInv, WriterIsDecided
  <2>3. ASSUME NEW i \in 1 .. len + 1, YoungestWriter(inflight, r, len + 1, i), i # 1
        PROVE  \E j \in 1 .. len : YoungestWriter(inflight', r, len, j)
    <3>1. i - 1 \in 1 .. len /\ (i - 1) + 1 = i
      BY <2>3
    <3>2. YoungestWriter(inflight', r, len, i - 1)
      BY <3>1, <2>3, <1>24
    <3> QED BY <3>1, <3>2
  <2> QED BY <2>2, <2>3, <1>24
<1>26. TableIsYoungest'
  <2> SUFFICES ASSUME NEW r \in IsaReg
               PROVE  /\ NoWriter(inflight', r, n) => table'[r] = backup'[r]
                      /\ \A i \in 1 .. n : YoungestWriter(inflight', r, n, i) =>
                            table'[r] = inflight'[i].PhyRd
    BY <1>5 DEF TableIsYoungest
  <2>1. /\ NoWriter(inflight, r, n + 1) => table[r] = backup[r]
        /\ \A i \in 1 .. n + 1 : YoungestWriter(inflight, r, n + 1, i) =>
                                    table[r] = inflight[i].PhyRd
    BY <1>4 DEF IInv, TableIsYoungest
  <2>2. n \in 0 .. n /\ 1 \in 1 .. n + 1 /\ \A i \in 1 .. n : i + 1 \in 1 .. n + 1
    OBVIOUS
  <2>3. ASSUME NoWriter(inflight', r, n) PROVE table'[r] = backup'[r]
    <3>1. CASE r = rd
      <4>1. table[r] = inflight[1].PhyRd
        BY <2>1, <2>2, <2>3, <3>1, <1>24
      <4> QED BY <4>1, <3>1, <1>2, <1>5, <1>6, <1>12
    <3>2. CASE r # rd
      <4>1. table[r] = backup[r]
        BY <2>1, <2>2, <2>3, <3>2, <1>24
      <4> QED BY <4>1, <3>2, <1>2, <1>12
    <3> QED BY <3>1, <3>2
  <2>4. ASSUME NEW i \in 1 .. n, YoungestWriter(inflight', r, n, i)
        PROVE  table'[r] = inflight'[i].PhyRd
    <3>1. YoungestWriter(inflight, r, n + 1, i + 1)
      BY <2>2, <2>4, <1>24
    <3>2. table[r] = inflight[i + 1].PhyRd
      BY <3>1, <2>1, <2>2
    <3> QED BY <3>2, <1>2, <1>5
  <2> QED BY <2>3, <2>4
<1>27. LPhyRdIsPrevious'
  <2> SUFFICES ASSUME NEW k \in 1 .. n
               PROVE  /\ NoWriter(inflight', inflight'[k].IsaRd, k - 1) =>
                            inflight'[k].LPhyRd = backup'[inflight'[k].IsaRd]
                      /\ \A i \in 1 .. k - 1 :
                            YoungestWriter(inflight', inflight'[k].IsaRd, k - 1, i) =>
                              inflight'[k].LPhyRd = inflight'[i].PhyRd
    BY <1>5 DEF LPhyRdIsPrevious
  <2>1. PICK r : r = inflight[k + 1].IsaRd
    OBVIOUS
  <2>2. inflight'[k] = inflight[k + 1] /\ k + 1 \in 1 .. Len(inflight)
    BY <1>4, <1>5
  <2>3. r \in IsaReg
    <3>1. inflight[k + 1] \in Writer
      BY <2>2, <1>3
    <3> QED BY <3>1, <2>1 DEF Writer
  <2>4. k - 1 \in 0 .. n /\ (k - 1) + 1 = k /\ (k + 1) - 1 = k /\ 1 \in 1 .. k
        /\ \A i \in 1 .. k - 1 : i + 1 \in 1 .. k /\ i \in 1 .. n
    OBVIOUS
  <2>5. /\ NoWriter(inflight, r, k) => inflight[k + 1].LPhyRd = backup[r]
        /\ \A i \in 1 .. k : YoungestWriter(inflight, r, k, i) =>
                                inflight[k + 1].LPhyRd = inflight[i].PhyRd
    <3>1. /\ NoWriter(inflight, inflight[k + 1].IsaRd, (k + 1) - 1) =>
                inflight[k + 1].LPhyRd = backup[inflight[k + 1].IsaRd]
          /\ \A i \in 1 .. (k + 1) - 1 :
                YoungestWriter(inflight, inflight[k + 1].IsaRd, (k + 1) - 1, i) =>
                  inflight[k + 1].LPhyRd = inflight[i].PhyRd
      BY <2>2 DEF IInv, LPhyRdIsPrevious
    <3> QED BY <3>1, <2>1, <2>4
  <2>6. /\ NoWriter(inflight, r, k) <=> (NoWriter(inflight', r, k - 1) /\ rd # r)
        /\ (NoWriter(inflight', r, k - 1) /\ rd = r) <=> YoungestWriter(inflight, r, k, 1)
        /\ \A i \in 1 .. k - 1 : YoungestWriter(inflight', r, k - 1, i) <=>
                                    YoungestWriter(inflight, r, k, i + 1)
    BY <2>4, <1>24
  <2>7. ASSUME NoWriter(inflight', r, k - 1)
        PROVE  inflight[k + 1].LPhyRd = backup'[r]
    <3>1. CASE r = rd
      BY <3>1, <2>4, <2>5, <2>6, <2>7, <1>5, <1>6, <1>12
    <3>2. CASE r # rd
      BY <3>2, <2>3, <2>5, <2>6, <2>7, <1>12
    <3> QED BY <3>1, <3>2
  <2>8. ASSUME NEW i \in 1 .. k - 1, YoungestWriter(inflight', r, k - 1, i)
        PROVE  inflight[k + 1].LPhyRd = inflight'[i].PhyRd
    <3>1. i + 1 \in 1 .. k /\ inflight'[i] = inflight[i + 1]
      BY <2>4, <1>5
    <3> QED BY <3>1, <2>5, <2>6, <2>8
  <2> QED BY <2>1, <2>2, <2>7, <2>8
<1>28. NoRegisterLeaks'
  <2> SUFFICES ASSUME NEW q \in PhyReg \ {0}
               PROVE  \/ \E i \in 1 .. Len(fl'.backup) : fl'.backup[i] = q
                      \/ \E r \in IsaReg : backup'[r] = q
    BY DEF NoRegisterLeaks
  <2>1. ASSUME NEW i \in 1 .. Len(fl.backup), fl.backup[i] = q, i # 1
        PROVE  \E j \in 1 .. Len(fl'.backup) : fl'.backup[j] = q
    <3>1. i - 1 \in 1 .. n + Len(fl.list) /\ (i - 1) + 1 = i
      <4>1. i \in 1 .. (n + 1) + m /\ i # 1
        BY <2>1, <1>c
      <4>2. i - 1 \in 1 .. n + m /\ (i - 1) + 1 = i
        BY <4>1
      <4> QED BY <4>2, <1>m
    <3>2. i - 1 \in 1 .. Len(fl'.backup)
      BY <3>1, <1>a, <1>b
    <3>3. fl'.backup[i - 1] = fl.backup[(i - 1) + 1]
      BY <3>1, <1>18
    <3> QED BY <3>1, <3>2, <3>3, <2>1
  <2>2. ASSUME NEW i \in 1 .. Len(fl.backup), fl.backup[i] = q, i = 1
        PROVE  \E r \in IsaReg : backup'[r] = q
    BY <2>2, <1>7, <1>9, <1>12
  <2>3. ASSUME NEW r \in IsaReg, backup[r] = q, r # rd
        PROVE  \E s \in IsaReg : backup'[s] = q
    BY <2>3, <1>12
  <2>4. ASSUME backup[rd] = q
        PROVE  \E j \in 1 .. Len(fl'.backup) : fl'.backup[j] = q
    <3>1. l = q /\ e = 1
      BY <2>4, <1>10, <1>18
    <3>2. (n + Len(fl.list)) + 1 \in 1 .. Len(fl'.backup)
      BY <3>1, <1>a, <1>b
    <3> QED BY <3>1, <3>2, <1>18
  <2>5. \/ \E i \in 1 .. Len(fl.backup) : fl.backup[i] = q
        \/ \E r \in IsaReg : backup[r] = q
    BY DEF IInv, NoRegisterLeaks
  <2> QED BY <2>1, <2>2, <2>3, <2>4, <2>5
<1>29. CountersMatchLists'
  <2> SUFFICES ASSUME NEW q \in PhyReg
               PROVE  /\ fl'.idx[q] =
                           IF \E i \in 1 .. Len(fl'.list) : fl'.list[i] = q THEN 1 ELSE 0
                      /\ fl'.idx_backup[q] =
                           IF \E i \in 1 .. Len(fl'.backup) : fl'.backup[i] = q THEN 1 ELSE 0
    BY DEF CountersMatchLists
  <2>1. /\ fl.idx[q] = IF \E i \in 1 .. Len(fl.list) : fl.list[i] = q THEN 1 ELSE 0
        /\ fl.idx_backup[q] =
              IF \E i \in 1 .. Len(fl.backup) : fl.backup[i] = q THEN 1 ELSE 0
    BY DEF IInv, CountersMatchLists
  \* Without the push: BackupPop.
  <2>2. g.idx[q] = IF \E i \in 1 .. Len(fl.list) : fl.list[i] = q THEN 1 ELSE 0
    BY <2>1, <1>15
  <2>3. g.idx_backup[q] =
          IF \E i \in 1 .. n + Len(fl.list) : fl.backup[i + 1] = q THEN 1 ELSE 0
    <3>1. CASE q = b
      <4>1. ~ \E i \in 1 .. n + Len(fl.list) : fl.backup[i + 1] = b
        BY <1>13, <1>15, <1>17
      <4> QED BY <3>1, <4>1, <1>17
    <3>2. CASE q # b
      <4>1. ASSUME NEW i \in 1 .. Len(fl.backup), fl.backup[i] = q
            PROVE  \E j \in 1 .. n + Len(fl.list) : fl.backup[j + 1] = q
        <5>1. i # 1
          BY <3>2, <4>1, <1>9
        <5>2. i - 1 \in 1 .. n + Len(fl.list) /\ (i - 1) + 1 = i
          <6>1. i \in 1 .. (n + 1) + m
            BY <4>1, <1>c
          <6>2. i - 1 \in 1 .. n + m /\ (i - 1) + 1 = i
            BY <5>1, <6>1
          <6> QED BY <6>2, <1>m
        <5> QED BY <5>2, <4>1
      <4>2. ASSUME NEW i \in 1 .. n + Len(fl.list), fl.backup[i + 1] = q
            PROVE  \E j \in 1 .. Len(fl.backup) : fl.backup[j] = q
        BY <4>2, <1>13
      <4> QED BY <3>2, <4>1, <4>2, <2>1, <1>17
    <3> QED BY <3>1, <3>2
  <2>4. CASE l = 0
    <3>1. fl' = g /\ Len(fl'.list) = Len(fl.list) /\ Len(fl'.backup) = n + Len(fl.list)
      BY <2>4, <1>a, <1>16, <1>18
    <3>2. (\E i \in 1 .. Len(fl'.list) : fl'.list[i] = q) <=>
            (\E i \in 1 .. Len(fl.list) : fl.list[i] = q)
      BY <3>1, <1>18
    <3>3. (\E i \in 1 .. Len(fl'.backup) : fl'.backup[i] = q) <=>
            (\E i \in 1 .. n + Len(fl.list) : fl.backup[i + 1] = q)
      BY ZenonT(60), <3>1, <1>18
    <3> QED BY <3>1, <3>2, <3>3, <2>2, <2>3
  <2>5. CASE l # 0
    <3>1. /\ Len(fl'.list) = Len(fl.list) + 1 /\ fl'.list[Len(fl.list) + 1] = l
          /\ Len(fl'.backup) = (n + Len(fl.list)) + 1
          /\ fl'.backup[(n + Len(fl.list)) + 1] = l
      BY <2>5, <1>18
    <3>2. /\ g.idx \in [PhyReg -> Nat] /\ g.idx_backup \in [PhyReg -> Nat]
          /\ fl'.idx = [g.idx EXCEPT ![l] = g.idx[l] + 1]
          /\ fl'.idx_backup = [g.idx_backup EXCEPT ![l] = g.idx_backup[l] + 1]
      BY <2>5, <1>15, <1>16, FreelistFields DEF Push
    <3>3. CASE q = l
      <4>1. \A i \in 1 .. Len(fl.list) : fl.list[i] # l
        <5> SUFFICES ASSUME NEW i \in 1 .. Len(fl.list) PROVE fl.list[i] # l
          OBVIOUS
        <5>1. (n + 1) + i \in 1 .. Len(fl.backup) /\ fl.list[i] = fl.backup[(n + 1) + i]
          <6>1. (n + 1) + i \in 1 .. (n + 1) + m
            BY <1>m
          <6> QED BY <6>1, <1>c, <1>8
        <5> QED BY <5>1, <1>7, <1>10, <1>11
      <4>2. \A i \in 1 .. n + Len(fl.list) : fl.backup[i + 1] # l
        BY <1>7, <1>10, <1>11, <1>13
      <4>3. g.idx[l] = 0 /\ g.idx_backup[l] = 0
        BY <3>3, <4>1, <4>2, <2>2, <2>3
      <4>4. fl'.idx[q] = 1 /\ fl'.idx_backup[q] = 1
        BY <3>2, <3>3, <4>3
      <4>5. /\ Len(fl.list) + 1 \in 1 .. Len(fl'.list)
            /\ (n + Len(fl.list)) + 1 \in 1 .. Len(fl'.backup)
        BY SMTT(60), <3>1, <1>a
      <4>6. /\ \E i \in 1 .. Len(fl'.list) : fl'.list[i] = q
            /\ \E i \in 1 .. Len(fl'.backup) : fl'.backup[i] = q
        BY <3>1, <3>3, <4>5
      <4> QED BY <4>4, <4>6
    <3>4. CASE q # l
      <4>1. fl'.idx[q] = g.idx[q] /\ fl'.idx_backup[q] = g.idx_backup[q]
        BY <3>2, <3>4
      <4>2. /\ \A i \in 1 .. Len(fl'.list) : i \in 1 .. Len(fl.list) \/ i = Len(fl.list) + 1
            /\ \A i \in 1 .. Len(fl.list) : i \in 1 .. Len(fl'.list)
        BY <3>1, <1>a
      <4>3. (\E i \in 1 .. Len(fl'.list) : fl'.list[i] = q) <=>
              (\E i \in 1 .. Len(fl.list) : fl.list[i] = q)
        BY <3>1, <3>4, <4>2, <1>18
      <4>4. /\ \A i \in 1 .. Len(fl'.backup) :
                  i \in 1 .. n + Len(fl.list) \/ i = (n + Len(fl.list)) + 1
            /\ \A i \in 1 .. n + Len(fl.list) : i \in 1 .. Len(fl'.backup)
        BY <3>1, <1>a
      <4>5. (\E i \in 1 .. Len(fl'.backup) : fl'.backup[i] = q) <=>
              (\E i \in 1 .. n + Len(fl.list) : fl.backup[i + 1] = q)
        BY <3>1, <3>4, <4>4, <1>18
      <4> QED BY <4>1, <4>3, <4>5, <2>2, <2>3
    <3> QED BY <3>3, <3>4
  <2> QED BY <2>4, <2>5
<1> QED
  BY <1>19, <1>20, <1>22, <1>23, <1>25, <1>26, <1>27, <1>28, <1>29 DEF IInv

-----------------------------------------------------------------------------
\* Committing an instruction that writes x0 changes nothing: x0 is mapped to
\* register 0, which is not given back.
LEMMA CommitNonWriterInv ==
  ASSUME IInv, CommitNonWriter
  PROVE  IInv'
<1>1. 0 \in IsaReg
  BY IsaRegNumAssumption DEF IsaReg
<1>2. NoWriter(inflight, 0, Len(inflight))
  <2> SUFFICES ASSUME NEW j \in 1 .. Len(inflight) PROVE inflight[j].IsaRd # 0
    BY DEF NoWriter
  <2>1. inflight[j] \in Writer
    BY DEF IInv, TypeOK
  <2> QED BY <2>1 DEF Writer
<1>3. table[0] = 0 /\ backup[0] = 0
  BY <1>1, <1>2 DEF IInv, TableIsYoungest, CommittedTableApart
<1>4. backup \in [IsaReg -> PhyReg] /\ backup' = [backup EXCEPT ![0] = 0]
  BY DEF IInv, TypeOK, CommitNonWriter, CommittedTable
<1>5. backup' = backup
  BY <1>3, <1>4
<1>6. fl' = fl
  BY <1>3 DEF CommitNonWriter, CommittedFreelist
<1> QED
  BY <1>5, <1>6, StutterInv DEF CommitNonWriter, vars

\* A flush keeps the invariant: the speculative list becomes the committed one.
LEMMA FlushInv ==
  ASSUME IInv, HandleFlush_
  PROVE  IInv'
<1>1. /\ fl \in FreelistType /\ table \in [IsaReg -> PhyReg]
      /\ backup \in [IsaReg -> PhyReg]
  BY DEF IInv, TypeOK
<1>2. /\ fl' = RollBack(fl) /\ inflight' = << >> /\ backup' = backup
      /\ table' = [r \in IsaReg |-> backup[r]]
  BY <1>1 DEF HandleFlush_, TableRollBack
<1>3. /\ fl' \in FreelistType /\ fl'.list = fl.backup /\ fl'.backup = fl.backup
      /\ fl'.idx = fl.idx_backup /\ fl'.idx_backup = fl.idx_backup
  BY <1>1, <1>2, RollBackFields
<1>4. TypeOK'
  <2>1. inflight' \in Seq(Writer) /\ table' \in [IsaReg -> PhyReg]
    BY <1>1, <1>2
  <2> QED BY <2>1, <1>1, <1>2, <1>3 DEF TypeOK
<1>5. Len(inflight') = 0 /\ Len(fl.backup) \in Nat
  BY <1>1, <1>2, FreelistFields
<1>6. BackupIsInflightThenFree'
  BY <1>3, <1>5 DEF BackupIsInflightThenFree
<1>7. CommittedListDistinct' /\ CommittedTableApart' /\ NoRegisterLeaks'
  BY <1>2, <1>3
  DEF IInv, CommittedListDistinct, CommittedTableApart, NoRegisterLeaks
<1>8. WriterIsDecided' /\ TableIsYoungest' /\ LPhyRdIsPrevious'
  BY <1>2, <1>5 DEF WriterIsDecided, TableIsYoungest, LPhyRdIsPrevious, NoWriter
<1>9. CountersMatchLists'
  BY <1>3 DEF IInv, CountersMatchLists
<1> QED
  BY <1>4, <1>6, <1>7, <1>8, <1>9 DEF IInv

\* IInv is inductive.
LEMMA NextInv == IInv /\ [Next]_vars => IInv'
<1> SUFFICES ASSUME IInv, [Next]_vars PROVE IInv'
  OBVIOUS
<1>1. CASE \E isa_rd \in IsaReg : Rename(isa_rd)
  BY <1>1, RenameInv
<1>2. CASE Commit
  BY <1>2, CommitInv
<1>3. CASE CommitNonWriter
  BY <1>3, CommitNonWriterInv
<1>4. CASE HandleFlush_
  BY <1>4, FlushInv
<1>5. CASE UNCHANGED vars
  BY <1>5, StutterInv
<1> QED
  BY <1>1, <1>2, <1>3, <1>4, <1>5 DEF Next

LEMMA IInvHolds == Spec => []IInv
  BY InitInv, NextInv, PTL DEF Spec

-----------------------------------------------------------------------------
(* The properties.                                                         *)

\* The lists hold registers, the tables map to registers, and the counters of
\* the free list never go below zero.
THEOREM TypeCorrect == Spec => []TypeOK
<1>1. IInv => TypeOK
  BY DEF IInv
<1> QED BY <1>1, IInvHolds, PTL

\* The assertions at the end of Freelist::Push never fire.
THEOREM PushAssertionsHold == Spec => []NoTokenTwice
<1>1. IInv => NoTokenTwice
  BY DEF IInv, CountersMatchLists, NoTokenTwice
<1> QED BY <1>1, IInvHolds, PTL

\* BackupPop always takes the register of the instruction being committed, and
\* RollBack gives back exactly the registers of the flushed ones.
THEOREM CommittedListFollowsCommits == Spec => []BackupIsInflightThenFree
<1>1. IInv => BackupIsInflightThenFree
  BY DEF IInv
<1> QED BY <1>1, IInvHolds, PTL

\* Sources are renamed to the register of their youngest writer.
THEOREM TableFollowsProgramOrder == Spec => []TableIsYoungest
<1>1. IInv => TableIsYoungest
  BY DEF IInv
<1> QED BY <1>1, IInvHolds, PTL

\* No register is lost, however commits and flushes interleave with renaming.
THEOREM NothingLeaks == Spec => []NoRegisterLeaks
<1>1. IInv => NoRegisterLeaks
  BY DEF IInv
<1> QED BY <1>1, IInvHolds, PTL

\* A register on the free list is mapped by neither table and is no field of
\* an instruction in flight: handing it out disturbs nobody, now or after a
\* flush.
LEMMA InvFreeIsUnreachable == ASSUME IInv PROVE FreeIsUnreachable
<1> SUFFICES ASSUME NEW i \in 1 .. Len(fl.list)
             PROVE  /\ fl.list[i] # 0
                    /\ \A r \in IsaReg : table[r] # fl.list[i] /\ backup[r] # fl.list[i]
                    /\ \A k \in 1 .. Len(inflight) :
                          inflight[k].PhyRd # fl.list[i] /\ inflight[k].LPhyRd # fl.list[i]
  BY DEF FreeIsUnreachable
<1>1. /\ inflight \in Seq(Writer) /\ fl.list \in Seq(PhyReg) /\ fl.backup \in Seq(PhyReg)
  BY FreelistFields DEF IInv, TypeOK
<1>2. PICK n \in Nat, m \in Nat : n = Len(inflight) /\ m = Len(fl.list)
  BY <1>1
<1>3. /\ Len(fl.backup) = n + m
      /\ \A k \in 1 .. n : fl.backup[k] = inflight[k].PhyRd
      /\ fl.list[i] = fl.backup[n + i]
  BY <1>2 DEF IInv, BackupIsInflightThenFree
<1>4. n + i \in 1 .. n + m /\ \A k \in 1 .. n : k \in 1 .. n + m /\ k # n + i
  BY <1>2
<1>5. /\ fl.list[i] # 0 /\ \A r \in IsaReg : backup[r] # fl.list[i]
  BY <1>3, <1>4 DEF IInv, CommittedListDistinct, CommittedTableApart
<1>6. \A k \in 1 .. n : inflight[k].PhyRd # fl.list[i]
  BY <1>3, <1>4 DEF IInv, CommittedListDistinct
<1>7. ASSUME NEW r \in IsaReg PROVE table[r] # fl.list[i]
  <2>1. CASE NoWriter(inflight, r, n)
    BY <2>1, <1>2, <1>5 DEF IInv, TableIsYoungest
  <2>2. ASSUME NEW k \in 1 .. n, YoungestWriter(inflight, r, n, k)
        PROVE  table[r] # fl.list[i]
    <3>1. table[r] = inflight[k].PhyRd
      BY <2>2, <1>2 DEF IInv, TableIsYoungest
    <3> QED BY <3>1, <1>6
  <2>3. n \in 0 .. Len(inflight)
    BY <1>2
  <2>4. NoWriter(inflight, r, n) \/ \E k \in 1 .. n : YoungestWriter(inflight, r, n, k)
    BY <2>3 DEF IInv, WriterIsDecided
  <2> QED BY <2>1, <2>2, <2>4
<1>8. ASSUME NEW k \in 1 .. n PROVE inflight[k].LPhyRd # fl.list[i]
  <2>1. PICK r : r = inflight[k].IsaRd
    OBVIOUS
  <2>2. r \in IsaReg
    <3>1. inflight[k] \in Writer
      BY <1>1, <1>2
    <3> QED BY <3>1, <2>1 DEF Writer
  <2>3. /\ NoWriter(inflight, r, k - 1) => inflight[k].LPhyRd = backup[r]
        /\ \A j \in 1 .. k - 1 : YoungestWriter(inflight, r, k - 1, j) =>
                                    inflight[k].LPhyRd = inflight[j].PhyRd
    BY <2>1, <1>2 DEF IInv, LPhyRdIsPrevious
  <2>4. k - 1 \in 0 .. n /\ \A j \in 1 .. k - 1 : j \in 1 .. n
    OBVIOUS
  <2>5. \/ NoWriter(inflight, r, k - 1)
        \/ \E j \in 1 .. k - 1 : YoungestWriter(inflight, r, k - 1, j)
    BY <2>2, <2>4, <1>2 DEF IInv, WriterIsDecided
  <2>6. CASE NoWriter(inflight, r, k - 1)
    BY <2>2, <2>3, <2>6, <1>5
  <2>7. ASSUME NEW j \in 1 .. k - 1, YoungestWriter(inflight, r, k - 1, j)
        PROVE  inflight[k].LPhyRd # fl.list[i]
    BY <2>3, <2>4, <2>7, <1>6
  <2> QED BY <2>5, <2>6, <2>7
<1> QED
  BY <1>2, <1>5, <1>6, <1>7, <1>8

\* A register is handed out only when nobody can reach it any more: no source
\* is renamed to it, no flush returns to it, nobody in flight writes it or
\* will release it.
THEOREM FreeRegistersAreUnreachable == Spec => []FreeIsUnreachable
<1>1. IInv => FreeIsUnreachable
  BY InvFreeIsUnreachable
<1> QED BY <1>1, IInvHolds, PTL

\* The counters say what is on the lists, so the assertions in Push, which read
\* only the counters, speak about the lists.
THEOREM CountersAreRight == Spec => []CountersMatchLists
<1>1. IInv => CountersMatchLists
  BY DEF IInv
<1> QED BY <1>1, IInvHolds, PTL

\* What a commit releases is the register of the previous writer in program
\* order, whatever was renamed, committed or flushed in between.
THEOREM CommitReleasesPreviousWriter == Spec => []LPhyRdIsPrevious
<1>1. IInv => LPhyRdIsPrevious
  BY DEF IInv
<1> QED BY <1>1, IInvHolds, PTL

\* With nothing in flight and nothing free every register is a committed
\* mapping, which a table of fewer entries than registers cannot hold.
LEMMA InvEmptyList == ASSUME IInv PROVE EmptyListMeansWriterInFlight
<1> SUFFICES ASSUME fl.list = << >>, inflight = << >>
             PROVE  ~(PhyRegNum > IsaRegNum)
  BY DEF EmptyListMeansWriterInFlight, IsEmpty
<1> USE PhyRegNumAssumption, IsaRegNumAssumption
<1>1. Len(fl.backup) = 0
  <2>1. Len(fl.list) = 0 /\ Len(inflight) = 0
    OBVIOUS
  <2> QED BY <2>1 DEF IInv, BackupIsInflightThenFree
<1>2. 0 \in IsaReg /\ backup[0] = 0
  BY DEF IsaReg, IInv, CommittedTableApart
<1>3. \A p \in PhyReg \ {0} : \E r \in IsaReg : backup[r] = p
  BY <1>1 DEF IInv, NoRegisterLeaks
<1>4. backup \in Surjection(IsaReg, PhyReg)
  <2>1. backup \in [IsaReg -> PhyReg]
    BY DEF IInv, TypeOK
  <2>2. \A p \in PhyReg : \E r \in IsaReg : backup[r] = p
    BY <1>2, <1>3
  <2> QED BY <2>1, <2>2 DEF Surjection
<1>5. /\ IsFiniteSet(IsaReg) /\ Cardinality(IsaReg) = IsaRegNum
      /\ Cardinality(PhyReg) = PhyRegNum
  <2>1. 0 \in Int /\ IsaRegNum - 1 \in Int /\ PhyRegNum - 1 \in Int
    OBVIOUS
  <2>2. /\ IsFiniteSet(0 .. IsaRegNum - 1)
        /\ Cardinality(0 .. IsaRegNum - 1) =
              IF 0 > IsaRegNum - 1 THEN 0 ELSE (IsaRegNum - 1) - 0 + 1
    BY <2>1, FS_Interval
  <2>3. Cardinality(0 .. PhyRegNum - 1) =
              IF 0 > PhyRegNum - 1 THEN 0 ELSE (PhyRegNum - 1) - 0 + 1
    BY <2>1, FS_Interval
  <2> QED BY <2>2, <2>3 DEF IsaReg, PhyReg
<1>6. Cardinality(PhyReg) <= Cardinality(IsaReg)
  BY <1>4, <1>5, FS_Surjection
<1> QED BY <1>5, <1>6

\* RenameInst_ returns without renaming at an empty list and relies on a later
\* commit to refill it.  With more physical than architectural registers there
\* is always an instruction in flight whose commit does.
THEOREM EmptyListIsRefilled == Spec => []EmptyListMeansWriterInFlight
<1>1. IInv => EmptyListMeansWriterInFlight
  BY InvEmptyList
<1> QED BY <1>1, IInvHolds, PTL

=============================================================================
