----------------------------- MODULE DataBackup -----------------------------
(***************************************************************************)
(* src/utils/spikeInterface/src/DataBackup.hpp: an undo log cut into       *)
(* checkpoints, one per unresolved branch, oldest first.  Checkpoints are  *)
(* dropped at the front and written and unwound at the back.               *)
(***************************************************************************)
EXTENDS Naturals, Sequences

EmptyBackup == [stable |-> TRUE, data |-> << >>]

BackupIsEmpty(b) == b.data = << >>

MakeBackupEntry(b) == [b EXCEPT !.data = Append(@, << >>)]

BackupPush(b, entry) == [b EXCEPT !.data[Len(b.data)] = Append(@, entry)]

BackupPop(b) == [b EXCEPT !.data = Tail(@)]

\* GetBackupEntry(): the newest entry, or a default one for a checkpoint that
\* has none, and the log without it.  The log is stable again when it is empty.
GetBackupEntry(b, default) ==
    LET n == Len(b.data)
        last == b.data[n]
        k == Len(last)
        left == IF k <= 1 THEN SubSeq(b.data, 1, n - 1)
                ELSE [b.data EXCEPT ![n] = SubSeq(@, 1, k - 1)]
    IN [entry |-> IF k = 0 THEN default ELSE last[k],
        backup |-> [stable |-> left = << >>, data |-> left]]
=============================================================================
