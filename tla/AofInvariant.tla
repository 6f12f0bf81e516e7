----------------------------- MODULE AofInvariant -----------------------------
(***************************************************************************)
(* Proofs about the append-only file for every policy, record and block    *)
(* size, limit and bound.  IInv ties what each thread holds to what the    *)
(* files hold: the log, the worker's batch and the queue are one run of    *)
(* consecutive commands, and so are the temporary file, the rewrite        *)
(* thread's batch and the delta queue while the rewrite can still succeed. *)
(***************************************************************************)
EXTENDS AofProperties, TLAPS

LogFile == [base : Nat, lost : Nat, blocks : Seq(Nat), records : Seq(Nat), synced : Nat]

\* s is k + 1, k + 2, ...
Counts(s, k) == \A i \in 1..Len(s) : s[i] = k + i

(* The kinds of the variables the arguments below read.                    *)
KindInv ==
    /\ healthy \in BOOLEAN /\ stopping \in BOOLEAN
    /\ writing \in BOOLEAN /\ syncing \in BOOLEAN /\ dirty \in BOOLEAN
    /\ rewriting \in BOOLEAN /\ rewrite_failed \in BOOLEAN
    /\ snapshot_complete \in BOOLEAN
    /\ worker \in {"loop", "write", "sync", "synced", "sync_failed", "done"}
    /\ rewriter \in {"none", "snapshot", "write_snapshot", "delta", "write_delta",
                     "rename", "dirsync", "abort"}
    /\ issued \in 0..MaxAppends /\ acked \in Nat /\ opened \in Nat /\ next_block \in Nat
    /\ pending \in Seq(Nat) /\ worker_batch \in Seq(Nat)
    /\ rewrite_pending \in Seq(Nat) /\ snapshot_pending \in Seq(Nat)
    /\ rewriter_batch \in Seq(Nat)
    /\ file \in LogFile /\ temp \in LogFile

(* What the flags under the mutex say of the worker, and who may be where. *)
FlagInv ==
    /\ worker # "write" => worker_batch = <<>>
    /\ healthy => /\ writing <=> worker = "write"
                  /\ syncing <=> worker \in {"sync", "synced", "sync_failed"}
    /\ ~healthy => pending = <<>>
    /\ policy = "always" => worker = "done" /\ pending = <<>>
    /\ rewriter # "none" => rewriting
    /\ rewriting /\ rewriter = "none" => main = "create"
    /\ stopping => main \in {"join_rewriter", "join_worker", "closed"}
    /\ main = "create" => /\ rewriter = "none" /\ rewriting
                          /\ ~rewrite_failed /\ ~snapshot_complete
                          /\ snapshot_pending = <<>> /\ rewrite_pending = <<>>

(* The rewrite thread replaces the file of a healthy, idle writer.         *)
SwapInv ==
    /\ rewriter \in {"rename", "dirsync"} =>
          /\ healthy /\ ~rewrite_failed
          /\ worker \in {"loop", "done"}
          /\ pending = <<>> /\ rewrite_pending = <<>>
          /\ main \notin {"snapshot", "built", "unbuilt"}
    /\ rewriter = "rename" => temp.synced = Len(temp.records)

(* The log, the worker's batch and the queue are consecutive commands, and *)
(* a healthy log misses none.                                              *)
FileInv ==
    /\ Counts(file.records, file.base)
    /\ Counts(worker_batch, Reaches(file))
    /\ Counts(pending, Reaches(file) + Len(worker_batch))
    /\ Reaches(file) + Len(worker_batch) + Len(pending) <= issued
    /\ healthy => issued = Reaches(file) + Len(worker_batch) + Len(pending)

(* The rewrite may still succeed, and has not replaced the log yet.        *)
Promising ==
    /\ healthy /\ ~rewrite_failed
    /\ rewriter \in {"snapshot", "write_snapshot", "delta", "write_delta", "rename"}

DeltaLength == IF rewriter = "write_delta" THEN Len(rewriter_batch) ELSE 0

(* Likewise the temporary file, the batch and the delta queue, which start *)
(* where the snapshot was taken.                                           *)
DeltaInv ==
    Promising =>
        /\ Counts(temp.records, temp.base) /\ temp.lost <= temp.base
        /\ rewriter = "write_delta" => Counts(rewriter_batch, Reaches(temp))
        /\ Counts(rewrite_pending, Reaches(temp) + DeltaLength)
        /\ issued = Reaches(temp) + DeltaLength + Len(rewrite_pending)

BlockLength == IF rewriter = "write_snapshot" THEN Len(rewriter_batch) ELSE 0

Produced == Len(temp.blocks) + BlockLength + Len(snapshot_pending)

(* The blocks of the snapshot: those written, those in the batch and those *)
(* queued are consecutive, and all of them once the producer has finished. *)
(* Only a shutdown goes on to the delta with blocks still queued.          *)
BlockInv ==
    Promising =>
        /\ Counts(temp.blocks, 0)
        /\ rewriter = "write_snapshot" => Counts(rewriter_batch, Len(temp.blocks))
        /\ Counts(snapshot_pending, Len(temp.blocks) + BlockLength)
        /\ ~snapshot_complete =>
              /\ main \in {"snapshot", "built", "unbuilt"}
              /\ issued = temp.base
              /\ Produced = next_block - 1
              /\ Produced <= SnapshotLength(temp.base)
              /\ main = "built" => Produced = SnapshotLength(temp.base)
        /\ snapshot_complete =>
              /\ main \notin {"snapshot", "built", "unbuilt"}
              /\ Produced = SnapshotLength(temp.base)
        /\ rewriter \in {"delta", "write_delta", "rename"} =>
              snapshot_complete /\ (snapshot_pending = <<>> \/ stopping)

(* The first blocks of a snapshot, usually all, and then consecutive       *)
(* commands, a synced part of them.                                        *)
SoundLog(f) ==
    /\ f \in LogFile
    /\ Counts(f.blocks, 0) /\ Len(f.blocks) <= SnapshotLength(f.base)
    /\ Counts(f.records, f.base) /\ f.lost <= f.base
    /\ f.synced <= Len(f.records)
    /\ Reaches(f) <= issued

(* At most one replaced file may come back, and only until the directory   *)
(* is synced or the log has failed.                                        *)
ShadowInv ==
    /\ \A f \in {file} \cup shadow : SoundLog(f)
    /\ shadow # {} => rewriter = "dirsync" \/ ~healthy
    /\ \A f, g \in shadow : f = g

IInv == KindInv /\ FlagInv /\ SwapInv /\ FileInv /\ DeltaInv /\ BlockInv /\ ShadowInv

-----------------------------------------------------------------------------
(* Runs of consecutive numbers: what Append, Head, Tail and SubSeq make of *)
(* them.                                                                   *)
LEMMA CountsAppend ==
    ASSUME NEW s \in Seq(Nat), NEW k \in Nat, NEW n \in Nat, Counts(s, k), n = k + Len(s) + 1
    PROVE  /\ Append(s, n) \in Seq(Nat) /\ Len(Append(s, n)) = Len(s) + 1
           /\ Counts(Append(s, n), k)
<1>1. Append(s, n) \in Seq(Nat) /\ Len(Append(s, n)) = Len(s) + 1 /\ Len(s) \in Nat
  OBVIOUS
<1>2. ASSUME NEW i \in 1..Len(s) + 1 PROVE Append(s, n)[i] = k + i
  BY <1>1, Append(s, n)[i] = IF i = Len(s) + 1 THEN n ELSE s[i] DEF Counts
<1> QED
  BY <1>1, <1>2 DEF Counts

(* A run that starts at 1 grows by the next number.                        *)
LEMMA CountsAppendOne ==
    ASSUME NEW s \in Seq(Nat), Counts(s, 0)
    PROVE  /\ Append(s, Len(s) + 1) \in Seq(Nat) /\ Len(Append(s, Len(s) + 1)) = Len(s) + 1
           /\ Counts(Append(s, Len(s) + 1), 0)
<1>1. Len(s) \in Nat /\ Len(s) + 1 \in Nat
  OBVIOUS
<1>2. \A k \in Nat, n \in Nat : Counts(s, k) /\ n = k + Len(s) + 1 =>
         /\ Append(s, n) \in Seq(Nat) /\ Len(Append(s, n)) = Len(s) + 1
         /\ Counts(Append(s, n), k)
  BY CountsAppend
<1> QED
  BY <1>1, <1>2

(* The empty sequence is a run from anywhere.                              *)
LEMMA CountsEmpty ==
    ASSUME NEW k PROVE /\ <<>> \in Seq(Nat) /\ Len(<<>>) = 0 /\ Counts(<<>>, k)
BY DEF Counts

(* A run is determined by its start and its length, as IsLog states it.    *)
LEMMA CountsIsFunction ==
    ASSUME NEW s \in Seq(Nat), NEW k, Counts(s, k)
    PROVE  s = [i \in 1..Len(s) |-> k + i]
<1>1. s \in [1..Len(s) -> Nat]
  OBVIOUS
<1>2. s = [i \in 1..Len(s) |-> s[i]]
  BY <1>1
<1> QED
  BY <1>2, Zenon DEF Counts

(* Taking the head of a run leaves the run that starts one later.          *)
LEMMA CountsTail ==
    ASSUME NEW s \in Seq(Nat), NEW k \in Nat, Counts(s, k), s # <<>>
    PROVE  /\ Head(s) = k + 1 /\ Tail(s) \in Seq(Nat) /\ Len(Tail(s)) = Len(s) - 1
           /\ Len(s) \in Nat \ {0} /\ Counts(Tail(s), k + 1)
BY DEF Counts

(* A power loss may cut a run; what is left is a run.                      *)
LEMMA CountsPrefix ==
    ASSUME NEW s \in Seq(Nat), NEW k \in Nat, NEW n \in 0..Len(s), Counts(s, k)
    PROVE  /\ SubSeq(s, 1, n) \in Seq(Nat) /\ Len(SubSeq(s, 1, n)) = n
           /\ Counts(SubSeq(s, 1, n), k)
BY DEF Counts

(* What the operations on files do to the fields of a file.                *)
LEMMA FileFields ==
    ASSUME NEW f \in LogFile
    PROVE  /\ f.base \in Nat /\ f.lost \in Nat /\ f.synced \in Nat
           /\ f.blocks \in Seq(Nat) /\ f.records \in Seq(Nat)
           /\ Len(f.blocks) \in Nat /\ Len(f.records) \in Nat /\ Reaches(f) \in Nat
BY DEF LogFile, Reaches

(* Replacing the records of a file leaves its other fields alone.          *)
LEMMA NewRecords ==
    ASSUME NEW f \in LogFile, NEW r \in Seq(Nat)
    PROVE  [f EXCEPT !.records = r] \in LogFile
BY Zenon DEF LogFile

(* Replacing the blocks of a file leaves its other fields alone.           *)
LEMMA NewBlocks ==
    ASSUME NEW f \in LogFile, NEW b \in Seq(Nat)
    PROVE  [f EXCEPT !.blocks = b] \in LogFile
BY Zenon DEF LogFile

(* Replacing the records and the synced length of a file does so too.      *)
LEMMA NewRecordsAndSync ==
    ASSUME NEW f \in LogFile, NEW r \in Seq(Nat), NEW n \in Nat
    PROVE  [f EXCEPT !.records = r, !.synced = n] \in LogFile
BY Zenon DEF LogFile

(* WriteAll of the next command lengthens the log by one.                  *)
LEMMA WithRecordFields ==
    ASSUME NEW f \in LogFile, Counts(f.records, f.base), NEW n \in Nat, n = Reaches(f) + 1
    PROVE  /\ WithRecord(f, n) \in LogFile
           /\ WithRecord(f, n).base = f.base /\ WithRecord(f, n).blocks = f.blocks
           /\ WithRecord(f, n).synced = f.synced /\ WithRecord(f, n).lost = f.lost
           /\ Len(WithRecord(f, n).records) = Len(f.records) + 1
           /\ Counts(WithRecord(f, n).records, f.base)
           /\ Reaches(WithRecord(f, n)) = n
<1>1. f.base \in Nat /\ f.records \in Seq(Nat) /\ Len(f.records) \in Nat
  BY FileFields
<1>2. /\ Append(f.records, n) \in Seq(Nat) /\ Len(Append(f.records, n)) = Len(f.records) + 1
      /\ Counts(Append(f.records, n), f.base)
  BY <1>1, CountsAppend DEF Reaches
<1>3. WithRecord(f, n) \in LogFile
  BY <1>2, NewRecords, Zenon DEF WithRecord
<1>4. /\ WithRecord(f, n).base = f.base /\ WithRecord(f, n).blocks = f.blocks
      /\ WithRecord(f, n).synced = f.synced /\ WithRecord(f, n).lost = f.lost
      /\ WithRecord(f, n).records = Append(f.records, n)
  BY DEF WithRecord, LogFile
<1>5. Reaches(WithRecord(f, n)) = f.base + Len(Append(f.records, n))
  BY <1>4, Zenon DEF Reaches
<1>6. Reaches(WithRecord(f, n)) = n
  <2>1. n = f.base + Len(f.records) + 1
    BY Zenon DEF Reaches
  <2> QED
    BY <1>1, <1>2, <1>5, <2>1
<1> QED
  BY <1>2, <1>3, <1>4, <1>6, Zenon

(* SyncFile covers every record of the file and changes nothing else.      *)
LEMMA SyncedFields ==
    ASSUME NEW f \in LogFile
    PROVE  /\ Synced(f) \in LogFile
           /\ Synced(f).base = f.base /\ Synced(f).blocks = f.blocks /\ Synced(f).lost = f.lost
           /\ Synced(f).records = f.records /\ Synced(f).synced = Len(f.records)
           /\ Reaches(Synced(f)) = Reaches(f)
<1>1. Synced(f) \in LogFile
  BY Len(f.records) \in Nat, Zenon DEF Synced, LogFile
<1>2. /\ Synced(f).base = f.base /\ Synced(f).blocks = f.blocks /\ Synced(f).lost = f.lost
      /\ Synced(f).records = f.records /\ Synced(f).synced = Len(f.records)
  BY DEF Synced, LogFile
<1> QED
  BY <1>1, <1>2 DEF Reaches

(* What a power loss leaves of a file is a synced part of it.              *)
LEMMA KeptFields ==
    ASSUME NEW f \in LogFile, Counts(f.records, f.base), NEW n \in 0..Len(f.records)
    PROVE  /\ Kept(f, n) \in LogFile
           /\ Kept(f, n).base = f.base /\ Kept(f, n).blocks = f.blocks /\ Kept(f, n).lost = f.lost
           /\ Kept(f, n).synced = n /\ Len(Kept(f, n).records) = n
           /\ Counts(Kept(f, n).records, f.base)
           /\ Reaches(Kept(f, n)) = f.base + n
<1>1. f.base \in Nat /\ f.records \in Seq(Nat) /\ Len(f.records) \in Nat
  BY FileFields
<1>2. /\ SubSeq(f.records, 1, n) \in Seq(Nat) /\ Len(SubSeq(f.records, 1, n)) = n
      /\ Counts(SubSeq(f.records, 1, n), f.base)
  BY <1>1, CountsPrefix, SMTT(20)
<1>3. Kept(f, n) \in LogFile
  BY <1>1, <1>2, n \in Nat, NewRecordsAndSync, Zenon DEF Kept
<1>4. /\ Kept(f, n).base = f.base /\ Kept(f, n).blocks = f.blocks /\ Kept(f, n).lost = f.lost
      /\ Kept(f, n).synced = n /\ Kept(f, n).records = SubSeq(f.records, 1, n)
  BY DEF Kept, LogFile
<1> QED
  BY <1>1, <1>2, <1>3, <1>4 DEF Reaches

(* The numbers the arguments below add up are numbers.                     *)
LEMMA KindFacts ==
    KindInv =>
        /\ file \in LogFile /\ file.base \in Nat /\ file.synced \in Nat
        /\ Len(file.records) \in Nat /\ Reaches(file) \in Nat
        /\ temp \in LogFile /\ temp.base \in Nat /\ Reaches(temp) \in Nat
        /\ temp.blocks \in Seq(Nat) /\ Len(temp.blocks) \in Nat
        /\ temp.records \in Seq(Nat) /\ Len(temp.records) \in Nat
        /\ Len(worker_batch) \in Nat /\ Len(rewriter_batch) \in Nat
        /\ Len(pending) \in Nat /\ Len(rewrite_pending) \in Nat
        /\ Len(snapshot_pending) \in Nat
        /\ issued \in Nat /\ issued <= issued
<1> HAVE KindInv
<1>1. file \in LogFile /\ temp \in LogFile
  BY Zenon DEF KindInv
<1>2. /\ file.base \in Nat /\ file.synced \in Nat /\ Len(file.records) \in Nat
      /\ Reaches(file) \in Nat /\ temp.base \in Nat /\ Reaches(temp) \in Nat
      /\ temp.blocks \in Seq(Nat) /\ Len(temp.blocks) \in Nat
      /\ temp.records \in Seq(Nat) /\ Len(temp.records) \in Nat
  BY <1>1, FileFields, Zenon
<1>3. /\ worker_batch \in Seq(Nat) /\ rewriter_batch \in Seq(Nat) /\ pending \in Seq(Nat)
      /\ rewrite_pending \in Seq(Nat) /\ snapshot_pending \in Seq(Nat)
      /\ issued \in 0..MaxAppends
  BY Zenon DEF KindInv
<1>4. /\ Len(worker_batch) \in Nat /\ Len(rewriter_batch) \in Nat
      /\ Len(pending) \in Nat /\ Len(rewrite_pending) \in Nat
      /\ Len(snapshot_pending) \in Nat
  BY <1>3
<1>5. issued \in Nat /\ issued <= issued
  BY <1>3
<1> QED
  BY <1>1, <1>2, <1>4, <1>5, Zenon

-----------------------------------------------------------------------------
(* A group of facts survives a step that leaves its variables alone, and a *)
(* rewrite that can no longer succeed owes nothing.                        *)
LEMMA FileFrame ==
    ASSUME FileInv, UNCHANGED <<file, worker_batch, pending, issued, healthy>>
    PROVE  FileInv'
BY DEF FileInv

(* FailLocked drops the queue, and a failed write what is left of its      *)
(* batch; the log is still a run of the first commands.                    *)
LEMMA QueueDropped ==
    ASSUME KindInv, FileInv, ~healthy', pending' = <<>>, worker_batch' \in {worker_batch, <<>>},
           UNCHANGED <<issued, file>>
    PROVE  FileInv'
<1>1. /\ Reaches(file) \in Nat /\ Len(pending) \in Nat /\ Len(worker_batch) \in Nat
      /\ issued \in Nat /\ Reaches(file)' = Reaches(file)
  BY FileFields, SMTT(30) DEF KindInv, Reaches
<1>2. CASE worker_batch' = worker_batch
  BY <1>1, <1>2, CountsEmpty DEF FileInv
<1>3. CASE worker_batch' = <<>>
  BY <1>1, <1>3, CountsEmpty DEF FileInv
<1> QED
  BY <1>2, <1>3

(* DeltaInv depends on these variables only.                               *)
LEMMA DeltaFrame ==
    ASSUME DeltaInv, UNCHANGED <<healthy, rewrite_failed, rewriter, rewriter_batch,
                                 rewrite_pending, issued, temp>>
    PROVE  DeltaInv'
BY DEF DeltaInv, Promising, DeltaLength

(* BlockInv depends on these variables only.                               *)
LEMMA BlockFrame ==
    ASSUME BlockInv, UNCHANGED <<healthy, rewrite_failed, rewriter, rewriter_batch, main,
                                 next_block, snapshot_complete, snapshot_pending, issued, temp,
                                 stopping>>
    PROVE  BlockInv'
BY Zenon DEF BlockInv, Promising, BlockLength, Produced

(* A rewrite that can no longer succeed promises nothing of its file.      *)
LEMMA Abandoned ==
    ASSUME ~Promising' PROVE DeltaInv' /\ BlockInv'
BY DEF DeltaInv, BlockInv

(* A file is believed to have lost only what was issued before it.         *)
LEMMA LostBound ==
    ASSUME IInv PROVE Lost(file) \in Nat /\ Lost(file) <= issued
<1>1. SoundLog(file)
  BY Zenon DEF IInv, ShadowInv
<1>2. /\ file \in LogFile /\ file.lost <= file.base /\ file.base + Len(file.records) <= issued
      /\ issued \in Nat
  BY <1>1, KindFacts, Zenon DEF SoundLog, Reaches, IInv
<1>3. file.base \in Nat /\ file.lost \in Nat /\ Len(file.records) \in Nat
  BY <1>2, FileFields, Zenon
<1>4. Lost(file) \in {file.base, file.lost}
  BY Zenon DEF Lost
<1> QED
  BY <1>2, <1>3, <1>4

(* ShadowInv depends on these variables only.                              *)
LEMMA ShadowFrame ==
    ASSUME ShadowInv, KindInv, issued' \in Nat, issued <= issued',
           UNCHANGED <<file, shadow, rewriter>>, healthy' => healthy
    PROVE  ShadowInv'
<1>1. ASSUME NEW f, SoundLog(f) PROVE SoundLog(f)'
  BY <1>1, FileFields, SMTT(30) DEF SoundLog, KindInv
<1> QED
  BY <1>1 DEF ShadowInv

(* ShadowFrame for a step that issues no command.                          *)
LEMMA ShadowSame ==
    ASSUME ShadowInv, KindInv, UNCHANGED <<issued, file, shadow, rewriter>>, healthy' => healthy
    PROVE  ShadowInv'
<1>1. issued' \in Nat /\ issued <= issued'
  BY KindFacts, ZenonT(30)
<1> QED
  BY <1>1, ShadowFrame, Zenon

-----------------------------------------------------------------------------
(* Append keeps the delta queue in step with the commands.                 *)
LEMMA BufferedDelta ==
    ASSUME IInv, issued < MaxAppends, BufferRewriteCommandLocked(issued + 1),
           issued' = issued + 1, healthy, UNCHANGED <<rewriting, rewriter, rewriter_batch, temp>>
    PROVE  /\ DeltaInv'
           /\ rewrite_pending' \in Seq(Nat) /\ rewrite_failed' \in BOOLEAN
           /\ ~rewrite_failed' => ~rewrite_failed
           /\ ~Buffering => rewrite_pending' = rewrite_pending
<1> USE DEF IInv, KindInv
<1>1. issued + 1 \in Nat
  BY DEF KindInv
<1>2. CASE Buffering /\ DeltaFits(issued + 1)
  <2>1. /\ rewrite_pending' = Append(rewrite_pending, issued + 1)
        /\ rewrite_failed' = rewrite_failed
    BY <1>2 DEF BufferRewriteCommandLocked
  <2>2. rewrite_pending' \in Seq(Nat)
    BY <2>1, <1>1
  <2>3. ASSUME Promising' PROVE DeltaInv'
    <3>1. Promising
      BY <2>3, <2>1 DEF Promising
    <3> DEFINE k == Reaches(temp) + DeltaLength
    <3>2. k \in Nat /\ Counts(rewrite_pending, k) /\ issued = k + Len(rewrite_pending)
      <4>1. DeltaLength \in Nat /\ Reaches(temp) \in Nat
        BY KindFacts, Zenon, 0 \in Nat DEF DeltaLength
      <4>2. /\ Counts(rewrite_pending, Reaches(temp) + DeltaLength)
            /\ issued = Reaches(temp) + DeltaLength + Len(rewrite_pending)
        BY <3>1, Zenon DEF DeltaInv
      <4>3. Reaches(temp) + DeltaLength \in Nat
        BY <4>1
      <4> QED
        BY <4>2, <4>3, Zenon
    <3>3. /\ Len(rewrite_pending') = Len(rewrite_pending) + 1
          /\ Counts(rewrite_pending', k)
      BY <3>2, <2>1, <1>1, CountsAppend, SMTT(20)
    <3>4. DeltaLength' = DeltaLength /\ Reaches(temp)' = Reaches(temp)
      BY DEF DeltaLength
    <3>5. Len(rewrite_pending) \in Nat
      OBVIOUS
    <3>6. issued' = k + Len(rewrite_pending')
      BY <3>2, <3>3, <3>5, SMTT(20)
    <3> QED
      BY <3>1, <3>3, <3>4, <3>6 DEF DeltaInv
  <2> QED
    BY <2>1, <2>2, <2>3, <1>2, Abandoned
<1>3. CASE Buffering /\ ~DeltaFits(issued + 1)
  <2>1. rewrite_pending' = <<>> /\ rewrite_failed' = TRUE
    BY <1>3 DEF BufferRewriteCommandLocked
  <2> QED
    BY <1>3, <2>1, Abandoned DEF Promising
<1>4. CASE ~Buffering
  <2>1. rewrite_pending' = rewrite_pending /\ rewrite_failed' = rewrite_failed
    BY <1>4 DEF BufferRewriteCommandLocked, deltaVars
  <2>2. ~Promising'
    BY <1>4, <2>1 DEF Promising, Buffering, FlagInv
  <2> QED
    BY <2>1, <2>2, Abandoned
<1> QED
  BY <1>2, <1>3, <1>4

(* The mutex is free and main is outside a rewrite's calls when Append     *)
(* runs, so no file is being replaced and none can come back.              *)
LEMMA AppendSetting ==
    ASSUME IInv, CanAppend
    PROVE  /\ issued \in Nat /\ issued + 1 \in 0..MaxAppends
           /\ healthy /\ rewriter \notin {"rename", "dirsync"} /\ shadow = {}
           /\ file \in LogFile /\ Counts(file.records, file.base)
           /\ main = "ready"
           /\ Promising => snapshot_complete
BY AofAssumption DEF IInv, KindInv, CanAppend, MutexFree, ShadowInv, SoundLog, BlockInv, AofAssumption

(* Append leaves the snapshot's blocks alone.                              *)
LEMMA AppendBlocks ==
    ASSUME IInv, CanAppend, ~rewrite_failed' => ~rewrite_failed,
           UNCHANGED <<rewriter, rewriter_batch, main, next_block, snapshot_complete,
                       snapshot_pending, temp, stopping>>
    PROVE  BlockInv'
<1>1. CASE Promising'
  <2>1. Promising
    BY <1>1, AppendSetting DEF Promising
  <2> QED
    BY <2>1, AppendSetting, Zenon DEF IInv, BlockInv, BlockLength, Produced
<1>2. CASE ~Promising'
  BY <1>2, Abandoned
<1> QED
  BY <1>1, <1>2

(* Append under "always" keeps IInv, with the write, the sync or neither   *)
(* done.                                                                   *)
LEMMA AppendAlwaysStep == ASSUME IInv, AppendAlways PROVE IInv'
<1> USE DEF IInv
<1> DEFINE n == issued + 1
<1>1. /\ policy = "always" /\ CanAppend /\ issued' = issued + 1
      /\ BufferRewriteCommandLocked(issued + 1) /\ AppendLeaves
  BY DEF AppendAlways
<1>2. /\ issued \in Nat /\ n \in Nat /\ n \in 0..MaxAppends /\ issued < MaxAppends
      /\ healthy /\ rewriter \notin {"rename", "dirsync"} /\ shadow = {} /\ main = "ready"
      /\ file \in LogFile /\ Counts(file.records, file.base)
  BY <1>1, AppendSetting DEF CanAppend
<1>3. /\ UNCHANGED <<main, next_block, opened, stopping, rewriting, worker, worker_batch,
                     rewriter, rewriter_batch, temp, shadow, policy,
                     snapshot_complete, snapshot_pending>>
  BY <1>1, Zenon DEF AppendLeaves, snapshotVars, workerVars, rewriterVars, fixedVars
<1>4. /\ worker = "done" /\ worker_batch = <<>> /\ pending = <<>>
      /\ issued = Reaches(file) /\ Len(worker_batch) = 0 /\ Len(pending) = 0
  BY <1>1, <1>2, FileFields, SMTT(30) DEF FlagInv, FileInv, KindInv
<1>5. /\ DeltaInv' /\ BlockInv'
      /\ rewrite_pending' \in Seq(Nat) /\ rewrite_failed' \in BOOLEAN
  BY <1>1, <1>2, <1>3, BufferedDelta, AppendBlocks
<1>6. \/ /\ file' = Synced(WithRecord(file, n)) /\ acked' = n
         /\ UNCHANGED <<healthy, pending, writing, syncing, dirty>>
      \/ /\ ~healthy' /\ pending' = <<>> /\ ~writing' /\ ~syncing' /\ ~dirty'
         /\ healthy' \in BOOLEAN /\ writing' \in BOOLEAN /\ syncing' \in BOOLEAN
         /\ dirty' \in BOOLEAN
         /\ acked' = acked /\ file' \in {file, WithRecord(file, n)}
  BY Zenon DEF AppendAlways, FailLocked, queueVars, ioVars
<1>7. pending' = <<>> /\ healthy' \in BOOLEAN /\ acked' \in Nat /\ writing' \in BOOLEAN
      /\ syncing' \in BOOLEAN /\ dirty' \in BOOLEAN
  BY <1>2, <1>4, <1>6, Zenon DEF KindInv
<1>8. /\ file' \in LogFile /\ file'.base = file.base /\ file'.blocks = file.blocks
      /\ file'.lost = file.lost /\ Counts(file'.records, file'.base)
      /\ file'.synced <= Len(file'.records) /\ Reaches(file') <= n
      /\ healthy' => Reaches(file') = n
  <2>1. file.synced <= Len(file.records) /\ file.synced \in Nat /\ Len(file.records) \in Nat
    BY <1>2, FileFields DEF ShadowInv, SoundLog
  <2>2. CASE file' = file /\ ~healthy'
    BY <2>1, <2>2, <1>2, <1>4, SMTT(30)
  <2>3. CASE file' = WithRecord(file, n)  /\ ~healthy'
    BY <2>1, <2>3, <1>2, <1>4, WithRecordFields, SMTT(30)
  <2>4. CASE file' = Synced(WithRecord(file, n))
    <3> DEFINE g == WithRecord(file, n)
    <3>1. /\ g \in LogFile /\ g.base = file.base /\ g.blocks = file.blocks /\ g.lost = file.lost
          /\ Counts(g.records, file.base) /\ Reaches(g) = n /\ Len(g.records) \in Nat
      BY <1>2, <1>4, WithRecordFields, FileFields, SMTT(30)
    <3> HIDE DEF g
    <3>2. /\ Synced(g) \in LogFile /\ Synced(g).base = g.base /\ Synced(g).blocks = g.blocks
          /\ Synced(g).lost = g.lost
          /\ Synced(g).records = g.records /\ Synced(g).synced = Len(g.records)
          /\ Reaches(Synced(g)) = Reaches(g)
      BY <3>1, SyncedFields
    <3>3. file' = Synced(g)
      BY <2>4, SMTT(30) DEF g
    <3> QED
      BY <3>1, <3>2, <3>3, <1>2, SMTT(30)
  <2> QED
    BY <1>6, <2>2, <2>3, <2>4, SMTT(30)
<1>9. KindInv'
  BY <1>1, <1>2, <1>3, <1>5, <1>7, <1>8, CountsEmpty DEF KindInv
<1>10. FlagInv'
  BY <1>2, <1>3, <1>4, <1>6, <1>7, Zenon DEF FlagInv
<1>11. SwapInv'
  BY <1>2, <1>3, SMTT(30) DEF SwapInv
<1>12. FileInv'
  BY <1>1, <1>2, <1>3, <1>4, <1>7, <1>8, CountsEmpty, FileFields, SMTT(20) DEF FileInv
<1>13. ShadowInv'
  BY <1>1, <1>2, <1>3, <1>8 DEF ShadowInv, SoundLog
<1> QED
  BY <1>5, <1>9, <1>10, <1>11, <1>12, <1>13

(* Append under the other policies keeps IInv, with the queue full or not. *)
LEMMA AppendQueuedStep == ASSUME IInv, AppendQueued PROVE IInv'
<1> USE DEF IInv
<1> DEFINE n == issued + 1
<1>1. /\ policy # "always" /\ CanAppend /\ issued' = issued + 1
      /\ AppendLeaves /\ file' = file
  BY DEF AppendQueued
<1>2. /\ issued \in Nat /\ n \in Nat /\ n \in 0..MaxAppends /\ issued < MaxAppends
      /\ healthy /\ rewriter \notin {"rename", "dirsync"} /\ main = "ready"
      /\ file \in LogFile /\ Counts(file.records, file.base)
  BY <1>1, AppendSetting DEF CanAppend
<1>3. /\ UNCHANGED <<main, next_block, opened, stopping, rewriting, worker, worker_batch,
                     rewriter, rewriter_batch, temp, shadow, policy,
                     snapshot_complete, snapshot_pending>>
  BY <1>1, Zenon DEF AppendLeaves, snapshotVars, workerVars, rewriterVars, fixedVars
<1>4. ShadowInv'
  BY <1>1, <1>2, <1>3, ShadowFrame, SMTT(30)
<1>5. /\ Reaches(file) \in Nat /\ Len(worker_batch) \in Nat /\ Len(pending) \in Nat
      /\ Counts(worker_batch, Reaches(file))
      /\ Counts(pending, Reaches(file) + Len(worker_batch))
      /\ issued = Reaches(file) + Len(worker_batch) + Len(pending)
  BY <1>2, KindFacts, Zenon DEF FileInv
<1>6. CASE QueueFull(n)
  <2>1. /\ ~healthy' /\ healthy' \in BOOLEAN /\ pending' = <<>>
        /\ ~writing' /\ writing' \in BOOLEAN /\ ~syncing' /\ syncing' \in BOOLEAN
        /\ dirty' \in BOOLEAN
        /\ UNCHANGED <<acked, rewrite_pending, rewrite_failed>>
    BY <1>6, Zenon DEF AppendQueued, FailLocked, deltaVars
  <2>2. KindInv'
    BY <1>1, <1>2, <1>3, <2>1, CountsEmpty, SMTT(30) DEF KindInv
  <2>3. FlagInv'
    BY <1>2, <1>3, <2>1, ZenonT(20) DEF FlagInv
  <2>4. FileInv'
    BY <1>1, <1>2, <1>3, <1>5, <2>1, CountsEmpty, SMTT(30) DEF FileInv
  <2>5. DeltaInv' /\ BlockInv'
    BY <2>1, Abandoned DEF Promising
  <2> QED
    BY <1>2, <1>3, <1>4, <2>2, <2>3, <2>4, <2>5 DEF SwapInv
<1>7. CASE ~QueueFull(n)
  <2>1. /\ pending' = Append(pending, n) /\ acked' = n
        /\ BufferRewriteCommandLocked(issued + 1)
        /\ UNCHANGED <<healthy, writing, syncing, dirty>>
    BY <1>7, SMTT(30) DEF AppendQueued, ioVars
  <2>2. /\ pending' \in Seq(Nat) /\ Len(pending') = Len(pending) + 1
        /\ Counts(pending', Reaches(file) + Len(worker_batch))
    <3>1. /\ Reaches(file) + Len(worker_batch) \in Nat
          /\ n = Reaches(file) + Len(worker_batch) + Len(pending) + 1
      BY <1>5
    <3>2. pending \in Seq(Nat)
      BY Zenon DEF KindInv
    <3> QED
      BY <1>2, <1>5, <2>1, <3>1, <3>2, CountsAppend, Zenon
  <2>3. /\ DeltaInv' /\ BlockInv'
        /\ rewrite_pending' \in Seq(Nat) /\ rewrite_failed' \in BOOLEAN
    BY <1>1, <1>2, <1>3, <2>1, BufferedDelta, AppendBlocks
  <2>4. KindInv'
    BY <1>1, <1>2, <1>3, <2>1, <2>2, <2>3, SMTT(30) DEF KindInv
  <2>5. FlagInv'
    BY <1>1, <1>2, <1>3, <2>1, SMTT(30) DEF FlagInv
  <2>6. FileInv'
    BY <1>1, <1>2, <1>3, <1>5, <2>1, <2>2 DEF FileInv
  <2> QED
    BY <1>2, <1>3, <1>4, <2>3, <2>4, <2>5, <2>6, SMTT(30) DEF SwapInv
<1> QED
  BY <1>6, <1>7

-----------------------------------------------------------------------------
(* The steps of a rewrite on the main thread.                              *)
LEMMA StartRewriteStep == ASSUME IInv, StartRewrite PROVE IInv'
<1> USE DEF IInv
<1>1. /\ main = "ready" /\ healthy /\ ~rewriting
      /\ main' = "create" /\ rewriting' = TRUE /\ rewrite_failed' = FALSE
      /\ snapshot_complete' = FALSE /\ snapshot_pending' = <<>> /\ rewrite_pending' = <<>>
      /\ UNCHANGED <<next_block, issued, acked, opened, pending, writing, syncing, dirty,
                     healthy, stopping, worker, worker_batch, rewriter, rewriter_batch,
                     file, temp, shadow, policy>>
  BY DEF StartRewrite, queueVars, ioVars, workerVars, rewriterVars, diskVars
<1>2. rewriter = "none"
  BY <1>1 DEF FlagInv
<1>3. KindInv'
  BY <1>1, CountsEmpty, ZenonT(30) DEF KindInv
<1>4. FlagInv'
  BY <1>1, <1>2 DEF FlagInv
<1>5. FileInv'
  BY <1>1, FileFrame
<1>6. DeltaInv' /\ BlockInv'
  BY <1>1, <1>2, Abandoned DEF Promising
<1>7. ShadowInv'
  BY <1>1, ShadowSame, ZenonT(20)
<1> QED
  BY <1>1, <1>2, <1>3, <1>4, <1>5, <1>6, <1>7 DEF SwapInv

(* The start of the rewrite thread, or its failure, keeps IInv.            *)
LEMMA CreateTempStep == ASSUME IInv, CreateTemp PROVE IInv'
<1> USE DEF IInv
<1>1. /\ main = "create" /\ rewriter = "none" /\ rewriting /\ ~rewrite_failed
      /\ ~snapshot_complete /\ snapshot_pending = <<>> /\ rewrite_pending = <<>>
      /\ UNCHANGED <<issued, acked, opened, pending, writing, syncing, dirty, healthy,
                     stopping, worker, worker_batch, rewriter_batch, file, shadow, policy>>
  BY DEF CreateTemp, FlagInv, queueVars, ioVars, workerVars, fixedVars
<1>2. FileInv'
  BY <1>1, FileFrame
<1>3. CASE /\ main' = "snapshot" /\ next_block' = 1 /\ rewriter' = "snapshot"
           /\ temp' = [NoFile EXCEPT !.base = issued, !.lost = Lost(file)]
           /\ UNCHANGED <<rewriteVars, snapshotVars, deltaVars>>
  <2>1. UNCHANGED <<rewriting, rewrite_failed, snapshot_complete, snapshot_pending,
                    rewrite_pending>>
    BY <1>3 DEF rewriteVars, snapshotVars, deltaVars
  <2>2. /\ temp' = [base |-> issued, lost |-> Lost(file), blocks |-> <<>>, records |-> <<>>,
                    synced |-> 0]
    BY <1>3, Zenon DEF NoFile
  <2>3. issued \in Nat /\ Lost(file) \in Nat /\ Lost(file) <= issued
    BY LostBound, KindFacts, Zenon
  <2>4. temp' \in LogFile
    BY <2>2, <2>3, CountsEmpty DEF LogFile
  <2>5. temp'.base = issued /\ temp'.blocks = <<>> /\ temp'.records = <<>>
        /\ temp'.lost = Lost(file) /\ Reaches(temp') = issued
    BY <2>2, <2>3, CountsEmpty DEF Reaches
  <2>6. KindInv'
    BY <1>1, <1>3, <2>1, <2>4, SMTT(30) DEF KindInv
  <2>7. FlagInv'
    BY <1>1, <1>3, <2>1 DEF FlagInv
  <2>8. DeltaLength' = 0 /\ BlockLength' = 0
    BY <1>3 DEF DeltaLength, BlockLength
  <2>9. DeltaInv'
    BY <1>1, <1>3, <2>1, <2>3, <2>5, <2>8, CountsEmpty DEF DeltaInv
  <2>10. SnapshotLength(issued) \in Nat
    BY AofAssumption DEF SnapshotLength, AofAssumption
  <2>11. BlockInv'
    BY <1>1, <1>3, <2>1, <2>5, <2>8, <2>10, CountsEmpty, SMTT(30) DEF BlockInv, Produced
  <2>12. SwapInv' /\ ShadowInv'
    BY <1>1, <1>3, FileFields, SMTT(30) DEF SwapInv, ShadowInv, SoundLog, KindInv
  <2> QED
    BY <1>2, <2>6, <2>7, <2>9, <2>11, <2>12, SMTT(30)
<1>4. CASE FinishRewriteLocked("failed", "write") /\ main' = "ready"
           /\ UNCHANGED <<next_block, rewriter, temp>>
  <2>1. /\ snapshot_pending' = <<>> /\ rewrite_pending' = <<>> /\ ~snapshot_complete'
        /\ snapshot_complete' \in BOOLEAN /\ rewriting' = FALSE /\ rewrite_failed' \in BOOLEAN
    BY <1>4, Zenon DEF FinishRewriteLocked
  <2>2. KindInv'
    BY <1>1, <1>4, <2>1, CountsEmpty, ZenonT(30) DEF KindInv
  <2>3. FlagInv'
    BY <1>1, <1>4, <2>1 DEF FlagInv
  <2>4. DeltaInv' /\ BlockInv'
    BY <1>1, <1>4, Abandoned, SMTT(30) DEF Promising
  <2>5. ShadowInv'
    BY <1>1, <1>4, ShadowSame, ZenonT(20)
  <2> QED
    BY <1>1, <1>2, <1>4, <2>2, <2>3, <2>4, <2>5, SMTT(30) DEF SwapInv
<1> QED
  BY <1>3, <1>4 DEF CreateTemp, CreateFails

(* What the producer's steps leave alone.                                  *)
LEMMA ProducerFrame ==
    ASSUME IInv, ProducerLeaves
    PROVE  /\ UNCHANGED <<issued, acked, opened, pending, writing, syncing, dirty, healthy,
                          stopping, rewrite_pending, worker, worker_batch, rewriter,
                          rewriter_batch, file, temp, shadow, policy>>
           /\ FileInv' /\ ShadowInv'
<1>1. UNCHANGED <<issued, acked, opened, pending, writing, syncing, dirty, healthy,
                  stopping, rewrite_pending, worker, worker_batch, rewriter,
                  rewriter_batch, file, temp, shadow, policy>>
  BY Zenon DEF ProducerLeaves, queueVars, ioVars, deltaVars, workerVars, rewriterVars, diskVars,
               fixedVars
<1> QED
  BY <1>1, FileFrame, ShadowSame, ZenonT(20) DEF IInv

(* The number of blocks produced is a number.                              *)
LEMMA ProducedIsNat ==
    ASSUME IInv
    PROVE  /\ Len(temp.blocks) + BlockLength \in Nat /\ Len(snapshot_pending) \in Nat
           /\ Produced \in Nat
<1>1. Len(temp.blocks) \in Nat
  BY FileFields DEF IInv, KindInv
<1>2. BlockLength \in Nat /\ Len(snapshot_pending) \in Nat
  BY DEF IInv, KindInv, BlockLength
<1> QED
  BY <1>1, <1>2 DEF Produced

(* QueueSnapshotBlock keeps IInv: the block it queues is the next one.     *)
LEMMA QueueSnapshotBlockStep == ASSUME IInv, QueueSnapshotBlock PROVE IInv'
<1> USE DEF IInv
<1>1. /\ main = "snapshot" /\ next_block <= SnapshotLength(issued) /\ ProducerLeaves
      /\ UNCHANGED <<snapshot_complete, rewriting, rewrite_failed>>
  BY DEF QueueSnapshotBlock, rewriteVars
<1>2. /\ UNCHANGED <<issued, acked, opened, pending, writing, syncing, dirty, healthy,
                     stopping, rewrite_pending, worker, worker_batch, rewriter,
                     rewriter_batch, file, temp, shadow, policy>>
      /\ FileInv' /\ ShadowInv'
  BY <1>1, ProducerFrame, SMTT(30)
<1>3. SwapInv' /\ DeltaInv'
  BY <1>1, <1>2, DeltaFrame, SMTT(30) DEF SwapInv
<1>4. CASE /\ main' \in {main, "unbuilt"}
           /\ UNCHANGED <<next_block, snapshot_pending>>
  <2>1. KindInv' /\ FlagInv'
    BY <1>1, <1>2, <1>4 DEF KindInv, FlagInv
  <2>2. BlockInv'
    BY <1>1, <1>2, <1>4, Zenon DEF BlockInv, Promising, BlockLength, Produced
  <2> QED
    BY <1>2, <1>3, <2>1, <2>2, ZenonT(20)
<1>5. CASE /\ snapshot_pending' = Append(snapshot_pending, next_block)
           /\ next_block' = next_block + 1 /\ main' = main
  <2>1. snapshot_pending' \in Seq(Nat) /\ next_block' \in Nat
    <3>1. snapshot_pending \in Seq(Nat) /\ next_block \in Nat
      BY Zenon DEF KindInv
    <3> QED
      BY <1>5, <3>1
  <2>2. KindInv' /\ FlagInv'
    BY <1>1, <1>2, <1>5, <2>1, SMTT(20) DEF KindInv, FlagInv
  <2>3. ASSUME Promising' PROVE BlockInv'
    <3> DEFINE k == Len(temp.blocks) + BlockLength
    <3>1. Promising /\ BlockLength' = BlockLength
      BY <2>3, <1>1, <1>2 DEF Promising, BlockLength
    <3>2. k \in Nat /\ Len(snapshot_pending) \in Nat
      BY ProducedIsNat, SMTT(30)
    <3>3. /\ ~snapshot_complete /\ issued = temp.base
          /\ k + Len(snapshot_pending) = next_block - 1
          /\ Counts(snapshot_pending, k)
      BY <3>1, <1>1, SMTT(30) DEF BlockInv, Produced
    <3> HIDE DEF k
    <3>4. next_block \in Nat /\ next_block = k + Len(snapshot_pending) + 1
      BY <3>2, <3>3, SMTT(30) DEF KindInv
    <3>5. /\ Len(snapshot_pending') = Len(snapshot_pending) + 1
          /\ Counts(snapshot_pending', k)
      BY <3>2, <3>3, <3>4, <1>5, CountsAppend, SMTT(30) DEF KindInv
    <3>6. SnapshotLength(issued) \in Nat
      BY AofAssumption DEF SnapshotLength, AofAssumption
    <3>7. Produced' = k + Len(snapshot_pending')
      BY <1>2, <3>1 DEF Produced, k
    <3>8. /\ Produced' = next_block /\ Produced' = next_block' - 1
          /\ Produced' <= SnapshotLength(temp.base)
      BY <1>1, <1>5, <3>2, <3>3, <3>4, <3>5, <3>6, <3>7, SMTT(30)
    <3>9. rewriter \notin {"delta", "write_delta", "rename"}
      BY <3>1, <3>3 DEF BlockInv
    <3> QED
      BY <1>1, <1>2, <1>5, <3>1, <3>3, <3>5, <3>8, <3>9, ZenonT(20) DEF BlockInv, k
  <2> QED
    BY <1>2, <1>3, <2>2, <2>3, Abandoned, SMTT(30)
<1> QED
  BY <1>4, <1>5 DEF QueueSnapshotBlock

(* The end of BuildSnapshot keeps IInv.                                    *)
LEMMA BuildSnapshotStep == ASSUME IInv, BuildSnapshot PROVE IInv'
<1> USE DEF IInv
<1>1. /\ main = "snapshot" /\ ProducerLeaves
      /\ \/ next_block > SnapshotLength(issued) /\ main' = "built"
         \/ main' = "unbuilt"
      /\ UNCHANGED <<next_block, snapshot_complete, snapshot_pending, rewriting, rewrite_failed>>
  BY SMTT(30) DEF BuildSnapshot, rewriteVars, snapshotVars
<1>2. /\ UNCHANGED <<issued, acked, opened, pending, writing, syncing, dirty, healthy,
                     stopping, rewrite_pending, worker, worker_batch, rewriter,
                     rewriter_batch, file, temp, shadow, policy>>
      /\ FileInv' /\ ShadowInv'
  BY <1>1, ProducerFrame, SMTT(30)
<1>3. SwapInv' /\ DeltaInv'
  BY <1>1, <1>2, DeltaFrame, ZenonT(20) DEF SwapInv
<1>4. KindInv' /\ FlagInv'
  BY <1>1, <1>2, SMTT(30) DEF KindInv, FlagInv
<1>5. SnapshotLength(issued) \in Nat /\ Produced \in Nat
  BY ProducedIsNat, AofAssumption DEF SnapshotLength, AofAssumption
<1>6. Promising' = Promising /\ Produced' = Produced /\ BlockLength' = BlockLength
  BY <1>1, <1>2, ZenonT(20) DEF Promising, Produced, BlockLength
<1>7. CASE main' = "unbuilt"
  <2>1. BlockInv'
    BY <1>1, <1>2, <1>6, <1>7, ZenonT(20) DEF BlockInv
  <2> QED
    BY <1>2, <1>3, <1>4, <2>1
<1>8. CASE next_block > SnapshotLength(issued) /\ main' = "built"
  <2>1. ASSUME Promising PROVE Produced = SnapshotLength(temp.base)
    <3>1. ~snapshot_complete
      BY <1>1, <2>1, SMTT(30) DEF BlockInv
    <3>2. /\ issued = temp.base /\ Produced = next_block - 1
          /\ Produced <= SnapshotLength(temp.base)
      BY <2>1, <3>1, ZenonT(20) DEF BlockInv
    <3> QED
      <4>1. next_block \in Nat
        BY Zenon DEF KindInv
      <4> QED
        BY <1>5, <1>8, <3>2, <4>1
  <2>2. BlockInv'
    BY <1>1, <1>2, <1>6, <1>8, <2>1, ZenonT(20) DEF BlockInv
  <2> QED
    BY <1>2, <1>3, <1>4, <2>2
<1> QED
  BY <1>1, <1>7, <1>8

(* FinishSnapshot keeps IInv: it declares complete only a whole snapshot.  *)
LEMMA FinishSnapshotStep == ASSUME IInv, FinishSnapshot PROVE IInv'
<1> USE DEF IInv
<1>1. /\ main \in {"built", "unbuilt"} /\ ProducerLeaves
      /\ main' = IF main = "built" THEN "ready" ELSE "await"
      /\ rewriting => /\ snapshot_complete' = TRUE
                      /\ rewrite_failed' = IF main = "unbuilt" THEN TRUE ELSE rewrite_failed
      /\ ~rewriting => UNCHANGED <<snapshot_complete, rewrite_failed>>
      /\ UNCHANGED <<next_block, snapshot_pending, rewriting>>
  BY Zenon DEF FinishSnapshot
<1>2. /\ UNCHANGED <<issued, acked, opened, pending, writing, syncing, dirty, healthy,
                     stopping, rewrite_pending, worker, worker_batch, rewriter,
                     rewriter_batch, file, temp, shadow, policy>>
      /\ FileInv' /\ ShadowInv'
  BY <1>1, ProducerFrame
<1>3. snapshot_complete' \in BOOLEAN /\ rewrite_failed' \in BOOLEAN
  BY <1>1, Zenon DEF KindInv
<1>4. KindInv'
  BY <1>1, <1>2, <1>3, SMTT(30) DEF KindInv
<1>5. FlagInv'
  BY <1>1, <1>2 DEF FlagInv
<1>6. CASE Promising'
  <2>1. rewriting /\ rewrite_failed' = FALSE
    BY <1>2, <1>6, <1>3 DEF Promising, FlagInv
  <2>2. /\ Promising /\ rewriting /\ main = "built"
        /\ snapshot_complete' = TRUE /\ rewrite_failed' = rewrite_failed
    BY <1>1, <1>2, <1>6, <2>1, Zenon DEF Promising, KindInv
  <2>3. DeltaInv'
    BY <1>2, <2>2, DeltaFrame, SMTT(30)
  <2>4. Produced' = Produced /\ BlockLength' = BlockLength
    BY <1>1, <1>2, ZenonT(20) DEF Produced, BlockLength
  <2>5. BlockInv'
    BY <1>1, <1>2, <2>2, <2>4 DEF BlockInv
  <2>6. SwapInv'
    BY <1>2, <2>2 DEF SwapInv
  <2> QED
    BY <1>2, <1>4, <1>5, <2>3, <2>5, <2>6, SMTT(30)
<1>7. CASE ~Promising'
  <2>1. SwapInv'
    BY <1>1, <1>2, SMTT(30) DEF SwapInv
  <2> QED
    BY <1>2, <1>4, <1>5, <1>7, <2>1, Abandoned, SMTT(30)
<1> QED
  BY <1>6, <1>7

(* WaitUntilRewriteIdle keeps IInv.                                        *)
LEMMA WaitUntilRewriteIdleStep == ASSUME IInv, WaitUntilRewriteIdle PROVE IInv'
<1> USE DEF IInv
<1>1. /\ main = "await" /\ ProducerLeaves
      /\ main' \in {main, "ready"}
      /\ UNCHANGED <<next_block, snapshot_complete, snapshot_pending, rewriting, rewrite_failed>>
  BY DEF WaitUntilRewriteIdle, rewriteVars, snapshotVars
<1>2. /\ UNCHANGED <<issued, acked, opened, pending, writing, syncing, dirty, healthy,
                     stopping, rewrite_pending, worker, worker_batch, rewriter,
                     rewriter_batch, file, temp, shadow, policy>>
      /\ FileInv' /\ ShadowInv'
  BY <1>1, ProducerFrame, ZenonT(20)
<1>3. SwapInv' /\ DeltaInv' /\ KindInv' /\ FlagInv'
  BY <1>1, <1>2, DeltaFrame, SMTT(20) DEF SwapInv, KindInv, FlagInv
<1>4. BlockInv'
  BY <1>1, <1>2, Zenon DEF BlockInv, Promising, Produced, BlockLength
<1> QED
  BY <1>2, <1>3, <1>4

(* The destructor keeps IInv.                                              *)
LEMMA DestroyStep == ASSUME IInv, Destroy PROVE IInv'
<1> USE DEF IInv
<1>1. /\ main \in {"ready", "join_rewriter", "join_worker"}
      /\ main' \in {"join_rewriter", "join_worker", "closed"}
      /\ stopping' \in BOOLEAN /\ (stopping => stopping')
      /\ UNCHANGED <<next_block, issued, acked, opened, pending, writing, syncing, dirty,
                     healthy, rewriting, rewrite_failed, snapshot_complete, snapshot_pending,
                     rewrite_pending, worker, worker_batch, rewriter, rewriter_batch,
                     file, temp, shadow, policy>>
  BY Zenon DEF Destroy, queueVars, ioVars, rewriteVars, snapshotVars, deltaVars, workerVars,
         rewriterVars, diskVars, fixedVars, KindInv
<1>2. FileInv' /\ DeltaInv' /\ ShadowInv'
  BY <1>1, FileFrame, DeltaFrame, ShadowSame, ZenonT(20)
<1>3. SwapInv' /\ KindInv' /\ FlagInv'
  BY <1>1 DEF SwapInv, KindInv, FlagInv
<1>4. BlockInv'
  BY <1>1, Zenon DEF BlockInv, Promising, Produced, BlockLength
<1> QED
  BY <1>2, <1>3, <1>4

-----------------------------------------------------------------------------
(* What the worker's steps leave alone.                                    *)
LEMMA WorkerFrame ==
    ASSUME IInv, WorkerLeaves
    PROVE  /\ UNCHANGED <<main, next_block, issued, acked, opened, stopping, rewriting,
                          rewrite_failed, snapshot_complete, snapshot_pending,
                          rewrite_pending, rewriter, rewriter_batch, temp, shadow, policy>>
           /\ (healthy' => healthy) => DeltaInv' /\ BlockInv'
<1>1. UNCHANGED <<main, next_block, issued, acked, opened, stopping, rewriting,
                  rewrite_failed, snapshot_complete, snapshot_pending,
                  rewrite_pending, rewriter, rewriter_batch, temp, shadow, policy>>
  BY Zenon DEF WorkerLeaves, callerVars, rewriteVars, snapshotVars, deltaVars, rewriterVars,
               fixedVars
<1>2. ASSUME healthy' => healthy, Promising' PROVE DeltaInv' /\ BlockInv'
  BY <1>1, <1>2, Zenon DEF IInv, DeltaInv, BlockInv, Promising, DeltaLength, BlockLength, Produced
<1> QED
  BY <1>1, <1>2, Abandoned

(* The kinds survive a worker's step that keeps its own variables' kinds.  *)
LEMMA WorkerKinds ==
    ASSUME KindInv,
           UNCHANGED <<main, next_block, issued, acked, opened, stopping, rewriting,
                       rewrite_failed, snapshot_complete, snapshot_pending,
                       rewrite_pending, rewriter, rewriter_batch, temp, shadow, policy>>,
           healthy' = healthy \/ healthy' \in BOOLEAN, writing' = writing \/ writing' \in BOOLEAN,
           syncing' = syncing \/ syncing' \in BOOLEAN, dirty' = dirty \/ dirty' \in BOOLEAN,
           worker' \in {worker, "loop", "write", "sync", "synced", "sync_failed", "done"},
           pending' \in {pending, <<>>},
           worker_batch' \in {worker_batch, pending, <<>>} \/ worker_batch' \in Seq(Nat),
           file' = file \/ file' \in LogFile
    PROVE  KindInv'
<1>1. pending' \in Seq(Nat) /\ worker_batch' \in Seq(Nat)
  BY CountsEmpty, Zenon DEF KindInv
<1>2. healthy' \in BOOLEAN /\ writing' \in BOOLEAN /\ syncing' \in BOOLEAN /\ dirty' \in BOOLEAN
  BY Zenon DEF KindInv
<1>3. worker' \in {"loop", "write", "sync", "synced", "sync_failed", "done"} /\ file' \in LogFile
  BY Zenon DEF KindInv
<1> QED
  BY <1>1, <1>2, <1>3, ZenonT(30) DEF KindInv

(* The worker's steps that touch no file.                                  *)
LEMMA WorkerWaitStep == ASSUME IInv, WorkerWait \/ BeginSync \/ WorkerReturn PROVE IInv'
<1> USE DEF IInv
<1>1. /\ worker = "loop" /\ MutexFree /\ WorkerLeaves
      /\ \/ worker' = worker /\ syncing' = syncing
         \/ worker' = "sync" /\ syncing' = TRUE
         \/ worker' = "done" /\ syncing' = syncing
      /\ UNCHANGED <<worker_batch, pending, writing, dirty, healthy, file>>
  BY DEF WorkerWait, BeginSync, WorkerReturn, queueVars, ioVars
<1>2. /\ UNCHANGED <<main, next_block, issued, acked, opened, stopping, rewriting,
                     rewrite_failed, snapshot_complete, snapshot_pending,
                     rewrite_pending, rewriter, rewriter_batch, temp, shadow, policy>>
      /\ DeltaInv' /\ BlockInv'
  BY <1>1, WorkerFrame, ZenonT(20)
<1>3. FileInv' /\ ShadowInv'
  BY <1>1, <1>2, FileFrame, ShadowSame, ZenonT(20)
<1>4. syncing' \in BOOLEAN /\ worker' \in {"loop", "sync", "done"}
  BY <1>1, ZenonT(30) DEF KindInv
<1>5. KindInv'
  BY <1>1, <1>2, <1>4, WorkerKinds, ZenonT(20)
<1>6. FlagInv' /\ SwapInv'
  BY <1>1, <1>2, SMTT(30) DEF FlagInv, SwapInv, MutexFree
<1> QED
  BY <1>2, <1>3, <1>5, <1>6, SMTT(30)

(* The worker that takes the queue as its batch keeps IInv.                *)
LEMMA BeginWriteStep == ASSUME IInv, BeginWrite PROVE IInv'
<1> USE DEF IInv
<1>1. /\ worker = "loop" /\ MutexFree /\ healthy /\ WorkerLeaves
      /\ worker_batch' = pending /\ pending' = <<>> /\ writing' = TRUE /\ worker' = "write"
      /\ UNCHANGED <<syncing, dirty, healthy, file>>
  BY DEF BeginWrite
<1>2. /\ UNCHANGED <<main, next_block, issued, acked, opened, stopping, rewriting,
                     rewrite_failed, snapshot_complete, snapshot_pending,
                     rewrite_pending, rewriter, rewriter_batch, temp, shadow, policy>>
      /\ DeltaInv' /\ BlockInv'
  BY <1>1, WorkerFrame
<1>3. worker_batch = <<>> /\ policy # "always"
  BY <1>1 DEF FlagInv
<1>4. Reaches(file) \in Nat /\ Len(pending) \in Nat
  BY KindFacts, ZenonT(30)
<1>5. FileInv'
  BY <1>1, <1>2, <1>3, <1>4, CountsEmpty, SMTT(30) DEF FileInv
<1>6. ShadowInv'
  BY <1>1, <1>2, ShadowSame, Zenon
<1>7. KindInv'
  BY <1>1, <1>2, WorkerKinds, ZenonT(20)
<1>8. FlagInv' /\ SwapInv'
  BY <1>1, <1>2, <1>3, SMTT(30) DEF FlagInv, SwapInv, MutexFree
<1> QED
  BY <1>2, <1>5, <1>6, <1>7, <1>8, SMTT(30)

(* WriteBatch keeps IInv: the record it writes is the next of the log.     *)
LEMMA WorkerWriteStep == ASSUME IInv, WorkerWrite PROVE IInv'
<1> USE DEF IInv
<1>1. /\ worker = "write" /\ worker_batch # <<>> /\ WorkerLeaves
      /\ file' = WithRecord(file, Head(worker_batch)) /\ worker_batch' = Tail(worker_batch)
      /\ UNCHANGED <<worker, pending, writing, syncing, dirty, healthy>>
  BY DEF WorkerWrite, queueVars, ioVars
<1>2. /\ UNCHANGED <<main, next_block, issued, acked, opened, stopping, rewriting,
                     rewrite_failed, snapshot_complete, snapshot_pending,
                     rewrite_pending, rewriter, rewriter_batch, temp, shadow, policy>>
      /\ DeltaInv' /\ BlockInv'
  BY <1>1, WorkerFrame, ZenonT(20)
<1>3. /\ file \in LogFile /\ Counts(file.records, file.base) /\ Reaches(file) \in Nat
      /\ Len(pending) \in Nat /\ Len(worker_batch) \in Nat /\ issued \in Nat
      /\ file.synced \in Nat /\ Len(file.records) \in Nat
      /\ file.synced <= Len(file.records)
  <2>1. Counts(file.records, file.base)
    BY Zenon DEF FileInv
  <2>2. file.synced <= Len(file.records)
    BY Zenon DEF ShadowInv, SoundLog
  <2> QED
    BY <2>1, <2>2, KindFacts, Zenon
<1>4. /\ Head(worker_batch) = Reaches(file) + 1 /\ worker_batch' \in Seq(Nat)
      /\ Len(worker_batch') = Len(worker_batch) - 1
      /\ Counts(worker_batch', Reaches(file) + 1)
  BY <1>1, <1>3, CountsTail, ZenonT(20) DEF KindInv, FileInv
<1>5. /\ file' \in LogFile /\ file'.base = file.base /\ file'.blocks = file.blocks
      /\ file'.lost = file.lost /\ file'.synced = file.synced /\ Len(file'.records) = Len(file.records) + 1
      /\ Counts(file'.records, file'.base) /\ Reaches(file') = Reaches(file) + 1
  BY <1>1, <1>3, <1>4, WithRecordFields, SMTT(30)
<1>6. /\ Reaches(file') + Len(worker_batch') = Reaches(file) + Len(worker_batch)
  BY <1>3, <1>4, <1>5, SMTT(20)
<1>7. FileInv'
  <2>1. /\ Counts(pending, Reaches(file) + Len(worker_batch))
        /\ Reaches(file) + Len(worker_batch) + Len(pending) <= issued
        /\ healthy => issued = Reaches(file) + Len(worker_batch) + Len(pending)
    BY Zenon DEF FileInv
  <2>2. Counts(pending', Reaches(file') + Len(worker_batch'))
    BY <1>1, <1>6, <2>1, Zenon
  <2>3. Counts(worker_batch', Reaches(file'))
    BY <1>4, <1>5, Zenon
  <2>4. /\ Reaches(file') + Len(worker_batch') + Len(pending') <= issued'
        /\ healthy' => issued' = Reaches(file') + Len(worker_batch') + Len(pending')
    BY <1>1, <1>2, <1>6, <2>1, Zenon
  <2> QED
    BY <1>5, <2>2, <2>3, <2>4, Zenon DEF FileInv
<1>8. Reaches(file) + Len(worker_batch) + Len(pending) <= issued
  BY Zenon DEF FileInv
<1>9. Len(worker_batch') \in Nat /\ Reaches(file') \in Nat
  BY <1>4, <1>5, FileFields, SMTT(30)
<1>10. Reaches(file') <= issued'
  BY <1>2, <1>3, <1>6, <1>8, <1>9, SMTT(20)
<1>11. SoundLog(file)'
  <2>1. /\ Counts(file.blocks, 0) /\ Len(file.blocks) <= SnapshotLength(file.base)
        /\ file.lost <= file.base
    BY Zenon DEF SoundLog, ShadowInv
  <2>2. /\ Counts(file'.blocks, 0) /\ Len(file'.blocks) <= SnapshotLength(file'.base)
        /\ file'.lost <= file'.base
    BY <1>5, <2>1, Zenon
  <2>3. file'.synced <= Len(file'.records)
    BY <1>3, <1>5
  <2> QED
    BY <1>5, <1>10, <2>2, <2>3, Zenon DEF SoundLog
<1>12. rewriter \notin {"rename", "dirsync"}
  BY <1>1, ZenonT(20) DEF SwapInv
<1>13. ASSUME NEW f \in shadow PROVE SoundLog(f)'
  BY <1>2, <1>13, SMTT(30) DEF ShadowInv, SoundLog
<1>14. ShadowInv'
  BY <1>1, <1>2, <1>11, <1>13, ZenonT(20) DEF ShadowInv
<1>15. KindInv'
  BY <1>1, <1>2, <1>4, <1>5, WorkerKinds, ZenonT(20)
<1>16. FlagInv' /\ SwapInv'
  BY <1>1, <1>2, <1>12 DEF FlagInv, SwapInv
<1> QED
  BY <1>2, <1>7, <1>14, <1>15, <1>16

(* The end of WriteBatch keeps IInv, whether it wrote all or failed.       *)
LEMMA WorkerWroteStep == ASSUME IInv, WorkerWrote PROVE IInv'
<1> USE DEF IInv
<1>1. /\ worker = "write" /\ MutexFree /\ WorkerLeaves /\ file' = file
  BY SMTT(30) DEF WorkerWrote
<1>2. /\ UNCHANGED <<main, next_block, issued, acked, opened, stopping, rewriting,
                     rewrite_failed, snapshot_complete, snapshot_pending,
                     rewrite_pending, rewriter, rewriter_batch, temp, shadow, policy>>
      /\ (healthy' => healthy) => DeltaInv' /\ BlockInv'
  BY <1>1, WorkerFrame, SMTT(30)
<1>3. CASE /\ worker_batch = <<>> /\ writing' = FALSE /\ dirty' = TRUE /\ worker' = "loop"
           /\ UNCHANGED <<worker_batch, pending, syncing, healthy>>
  <2>1. FileInv' /\ ShadowInv'
    BY <1>1, <1>2, <1>3, FileFrame, ShadowSame, ZenonT(20)
  <2>2. KindInv'
    BY <1>1, <1>2, <1>3, WorkerKinds, ZenonT(30)
  <2>3. FlagInv' /\ SwapInv'
    BY <1>1, <1>2, <1>3, SMTT(30) DEF FlagInv, SwapInv
  <2> QED
    BY <1>2, <1>3, <2>1, <2>2, <2>3, ZenonT(20)
<1>4. CASE /\ FailLocked("write") /\ worker' = "done" /\ worker_batch' = <<>>
  <2>1. /\ ~healthy' /\ healthy' \in BOOLEAN /\ pending' = <<>>
        /\ ~writing' /\ writing' \in BOOLEAN /\ ~syncing' /\ syncing' \in BOOLEAN
        /\ dirty' \in BOOLEAN
    BY <1>4, Zenon DEF FailLocked
  <2>2. FileInv'
    BY <1>1, <1>2, <1>4, <2>1, QueueDropped, ZenonT(20)
  <2>3. ShadowInv'
    BY <1>1, <1>2, <2>1, ShadowSame, ZenonT(20)
  <2>4. KindInv'
    BY <1>1, <1>2, <1>4, <2>1, WorkerKinds, ZenonT(20)
  <2>5. FlagInv' /\ SwapInv'
    BY <1>1, <1>2, <1>4, <2>1, ZenonT(20) DEF FlagInv, SwapInv, MutexFree
  <2> QED
    BY <1>2, <2>1, <2>2, <2>3, <2>4, <2>5
<1> QED
  BY <1>3, <1>4, Zenon DEF WorkerWrote, queueVars

(* The worker's SyncFile keeps IInv.                                       *)
LEMMA WorkerSyncStep == ASSUME IInv, WorkerSync PROVE IInv'
<1> USE DEF IInv
<1>1. /\ worker = "sync" /\ WorkerLeaves /\ worker' \in {"synced", "sync_failed"}
      /\ file' \in {file, Synced(file)}
      /\ UNCHANGED <<worker_batch, pending, writing, syncing, dirty, healthy>>
  BY DEF WorkerSync, queueVars, ioVars
<1>2. /\ UNCHANGED <<main, next_block, issued, acked, opened, stopping, rewriting,
                     rewrite_failed, snapshot_complete, snapshot_pending,
                     rewrite_pending, rewriter, rewriter_batch, temp, shadow, policy>>
      /\ DeltaInv' /\ BlockInv'
  BY <1>1, WorkerFrame, SMTT(30)
<1>3. file \in LogFile /\ Len(file.records) \in Nat
  BY KindFacts, ZenonT(30)
<1>4. /\ file' \in LogFile /\ file'.base = file.base /\ file'.blocks = file.blocks
      /\ file'.lost = file.lost /\ file'.records = file.records /\ file'.synced \in {file.synced, Len(file.records)}
      /\ Reaches(file') = Reaches(file)
  BY <1>1, <1>3, SyncedFields, ZenonT(20)
<1>5. FileInv'
  BY <1>1, <1>2, <1>4, ZenonT(20) DEF FileInv
<1>6. SoundLog(file)'
  <2>1. SoundLog(file)
    BY Zenon DEF ShadowInv
  <2>2. file'.synced <= Len(file'.records)
    <3>1. file.synced <= Len(file.records)
      BY <2>1, Zenon DEF SoundLog
    <3> QED
      BY <1>3, <1>4, <3>1
  <2> QED
    BY <1>2, <1>4, <2>1, <2>2, Zenon DEF SoundLog
<1>7. ASSUME NEW f \in shadow PROVE SoundLog(f)'
  BY <1>2, <1>7 DEF ShadowInv, SoundLog
<1>8. ShadowInv'
  BY <1>1, <1>2, <1>6, <1>7, ZenonT(20) DEF ShadowInv
<1>9. KindInv'
  BY <1>1, <1>2, <1>4, WorkerKinds, ZenonT(30)
<1>10. FlagInv' /\ SwapInv'
  BY <1>1, <1>2 DEF FlagInv, SwapInv
<1> QED
  BY <1>2, <1>5, <1>8, <1>9, <1>10

(* The end of SyncFile keeps IInv, also when FailLocked drops the queue.   *)
LEMMA WorkerSyncedStep == ASSUME IInv, WorkerSynced PROVE IInv'
<1> USE DEF IInv
<1>1. /\ worker \in {"synced", "sync_failed"} /\ MutexFree /\ WorkerLeaves
      /\ UNCHANGED <<worker_batch, file>>
  BY SMTT(30) DEF WorkerSynced
<1>2. /\ UNCHANGED <<main, next_block, issued, acked, opened, stopping, rewriting,
                     rewrite_failed, snapshot_complete, snapshot_pending,
                     rewrite_pending, rewriter, rewriter_batch, temp, shadow, policy>>
      /\ (healthy' => healthy) => DeltaInv' /\ BlockInv'
  BY <1>1, WorkerFrame, SMTT(30)
<1>3. CASE /\ syncing' = FALSE /\ dirty' = FALSE /\ worker' = "loop"
           /\ UNCHANGED <<pending, writing, healthy>>
  <2>1. FileInv' /\ ShadowInv'
    BY <1>1, <1>2, <1>3, FileFrame, ShadowSame, ZenonT(20)
  <2>2. KindInv'
    BY <1>1, <1>2, <1>3, WorkerKinds, ZenonT(30)
  <2>3. FlagInv' /\ SwapInv'
    BY <1>1, <1>2, <1>3 DEF FlagInv, SwapInv
  <2> QED
    BY <1>2, <1>3, <2>1, <2>2, <2>3, ZenonT(20)
<1>4. CASE FailLocked("sync") /\ worker' = "done"
  <2>1. /\ ~healthy' /\ healthy' \in BOOLEAN /\ pending' = <<>>
        /\ ~writing' /\ writing' \in BOOLEAN /\ ~syncing' /\ syncing' \in BOOLEAN
        /\ dirty' \in BOOLEAN
    BY <1>4, Zenon DEF FailLocked
  <2>2. FileInv'
    BY <1>1, <1>2, <1>4, <2>1, QueueDropped, ZenonT(20)
  <2>3. ShadowInv'
    BY <1>1, <1>2, <2>1, ShadowSame, ZenonT(20)
  <2>4. KindInv'
    BY <1>1, <1>2, <1>4, <2>1, WorkerKinds, ZenonT(20)
  <2>5. FlagInv' /\ SwapInv'
    BY <1>1, <1>2, <1>4, <2>1 DEF FlagInv, SwapInv, MutexFree
  <2> QED
    BY <1>2, <2>1, <2>2, <2>3, <2>4, <2>5
<1> QED
  BY <1>3, <1>4, Zenon DEF WorkerSynced, queueVars

-----------------------------------------------------------------------------
(* The condition variables.  NoLostWakeup is inductive once it is known    *)
(* that only the waits of the code put a thread to sleep.                  *)
WakeInv ==
    /\ NoLostWakeup
    /\ "main" \in asleep => main \in {"snapshot", "await"}
    /\ "rewriter" \in asleep => rewriter \in {"snapshot", "delta"}

(* What each thread has seen when it is asleep.                            *)
WorkerWaits == "worker" \in asleep => pending = <<>> /\ ~stopping

MainWaits ==
    "main" \in asleep =>
        \/ main = "snapshot" /\ ~SnapshotWaitOver
        \/ main = "await" /\ rewriting

RewriterWaits ==
    "rewriter" \in asleep =>
        \/ /\ rewriter = "snapshot" /\ healthy /\ ~rewrite_failed /\ ~stopping
           /\ snapshot_pending = <<>> /\ ~snapshot_complete
        \/ rewriter = "delta" /\ DeltaDrained /\ ~WriterIdle

(* NoLostWakeup, thread by thread.                                         *)
LEMMA WakeByThread == WakeInv <=> WorkerWaits /\ MainWaits /\ RewriterWaits
BY DEF WakeInv, NoLostWakeup, WorkerWaits, MainWaits, RewriterWaits

(* The same of the next state.                                             *)
LEMMA WakeByThreadNext == WakeInv' <=> WorkerWaits' /\ MainWaits' /\ RewriterWaits'
BY DEF WakeInv, NoLostWakeup, WorkerWaits, MainWaits, RewriterWaits

(* A step that touches neither a wait nor what it waits for.               *)
LEMMA MainFrame ==
    ASSUME MainWaits,
           UNCHANGED <<main, next_block, stopping, rewriting, rewrite_failed,
                       snapshot_pending, snapshot_pending_bytes>>,
           "main" \in asleep' => "main" \in asleep
    PROVE  MainWaits'
BY DEF MainWaits, SnapshotWaitOver, SnapshotRefused, SnapshotHasRoom

(* Likewise for the rewrite thread.                                        *)
LEMMA RewriterSleeps ==
    ASSUME RewriterWaits,
           UNCHANGED <<rewriter, healthy, stopping, rewrite_failed, snapshot_pending,
                       snapshot_complete, rewrite_pending>>,
           ~WriterIdle => ~WriterIdle',
           "rewriter" \in asleep' => "rewriter" \in asleep
    PROVE  RewriterWaits'
BY Zenon DEF RewriterWaits, DeltaDrained

(* A step that notifies rewrite_state_changed_ wakes both its waiters.     *)
LEMMA BothWoken ==
    ASSUME asleep' = asleep \ rewrite_state_changed
           \/ asleep' = asleep \ (work_available \cup rewrite_state_changed)
    PROVE  MainWaits' /\ RewriterWaits' /\ ("worker" \in asleep' => "worker" \in asleep)
BY DEF MainWaits, RewriterWaits, rewrite_state_changed

(* BufferRewriteCommandLocked wakes the rewrite thread whenever one is     *)
(* asleep that can still succeed.                                          *)
LEMMA BufferingWakes ==
    ASSUME IInv, RewriterWaits, asleep' \subseteq asleep \ WokenByBuffering,
           rewriter' = rewriter
    PROVE  RewriterWaits'
<1>1. "rewriter" \in asleep => rewriter # "none" /\ ~rewrite_failed
  BY DEF RewriterWaits, DeltaDrained
<1>2. "rewriter" \in asleep => Buffering
  BY <1>1 DEF IInv, FlagInv, Buffering
<1>3. "rewriter" \notin asleep'
  BY <1>2, ZenonT(20) DEF WokenByBuffering, rewrite_state_changed
<1> QED
  BY <1>3 DEF RewriterWaits

(* Append with the "always" policy: a failure wakes everyone, and so does  *)
(* a command for the delta queue.                                          *)
LEMMA AppendAlwaysWakes == ASSUME IInv, WakeInv, AppendAlways PROVE WakeInv'
<1>1. WorkerWaits /\ MainWaits /\ RewriterWaits
  BY WakeByThread
<1>2. /\ main = "ready" /\ UNCHANGED <<main, stopping, rewriter, snapshot_pending,
                                       snapshot_complete>>
  BY Zenon DEF AppendAlways, CanAppend, AppendLeaves, snapshotVars, rewriterVars
<1>3. CASE /\ asleep' = asleep \ WokenByBuffering
           /\ UNCHANGED <<healthy, pending, writing, syncing>>
  <2>1. WorkerWaits'
    BY <1>1, <1>2, <1>3 DEF WorkerWaits
  <2>2. MainWaits'
    BY <1>1, <1>2, <1>3 DEF MainWaits
  <2>3. RewriterWaits'
    BY <1>1, <1>2, <1>3, BufferingWakes
  <2> QED
    BY <2>1, <2>2, <2>3, WakeByThreadNext
<1>4. CASE /\ asleep' = asleep \ rewrite_state_changed
           /\ pending' = <<>>
  BY <1>1, <1>2, <1>4, BothWoken, WakeByThreadNext, ZenonT(20) DEF WorkerWaits
<1> QED
  BY <1>3, <1>4 DEF AppendAlways, FailLocked, Notify, queueVars, ioVars

(* Append with a queue notifies the worker as well.                        *)
LEMMA AppendQueuedWakes == ASSUME IInv, WakeInv, AppendQueued PROVE WakeInv'
<1>1. WorkerWaits /\ MainWaits /\ RewriterWaits
  BY WakeByThread
<1>2. /\ main = "ready" /\ UNCHANGED <<main, stopping, rewriter, snapshot_pending,
                                       snapshot_complete>>
  BY Zenon DEF AppendQueued, CanAppend, AppendLeaves, snapshotVars, rewriterVars
<1>3. CASE /\ asleep' = asleep \ (WokenByBuffering \cup work_available)
           /\ UNCHANGED <<healthy, writing, syncing>>
  <2>1. WorkerWaits'
    BY <1>1, <1>2, <1>3 DEF WorkerWaits, work_available
  <2>2. MainWaits'
    BY <1>1, <1>2, <1>3 DEF MainWaits
  <2>3. RewriterWaits'
    BY <1>1, <1>2, <1>3, BufferingWakes
  <2> QED
    BY <2>1, <2>2, <2>3, WakeByThreadNext
<1>4. CASE /\ asleep' = asleep \ rewrite_state_changed
           /\ pending' = <<>>
  BY <1>1, <1>2, <1>4, BothWoken, WakeByThreadNext DEF WorkerWaits
<1> QED
  BY <1>3, <1>4 DEF AppendQueued, FailLocked, Notify, ioVars

(* StartRewrite finds no rewrite thread, and no one asleep but the worker. *)
LEMMA StartRewriteWakes == ASSUME IInv, WakeInv, StartRewrite PROVE WakeInv'
<1>1. WorkerWaits /\ MainWaits /\ RewriterWaits
  BY WakeByThread
<1>2. /\ main = "ready" /\ ~rewriting /\ UNCHANGED <<asleep, pending, stopping>>
  BY Zenon DEF StartRewrite, queueVars
<1>3. "main" \notin asleep /\ "rewriter" \notin asleep
  BY <1>1, <1>2 DEF MainWaits, RewriterWaits, IInv, FlagInv
<1>4. WorkerWaits' /\ MainWaits' /\ RewriterWaits'
  BY <1>1, <1>2, <1>3 DEF WorkerWaits, MainWaits, RewriterWaits
<1> QED
  BY <1>4, WakeByThreadNext

(* CreateTemp starts a rewrite thread that is awake, or notifies.          *)
LEMMA CreateTempWakes == ASSUME IInv, WakeInv, CreateTemp PROVE WakeInv'
<1>1. WorkerWaits /\ MainWaits /\ RewriterWaits
  BY WakeByThread
<1>2. /\ main = "create" /\ UNCHANGED <<pending, stopping>>
      /\ asleep' = asleep \/ asleep' = asleep \ rewrite_state_changed
  BY DEF CreateTemp, queueVars, Notify
<1>3. "main" \notin asleep /\ "rewriter" \notin asleep
  BY <1>1, <1>2 DEF MainWaits, RewriterWaits, IInv, FlagInv
<1>4. asleep' \subseteq asleep
  BY <1>2
<1>5. WorkerWaits' /\ MainWaits' /\ RewriterWaits'
  BY <1>1, <1>2, <1>3, <1>4, Zenon DEF WorkerWaits, MainWaits, RewriterWaits
<1> QED
  BY <1>5, WakeByThreadNext

(* The producer sleeps on a full queue, and notifies what it queues.       *)
LEMMA QueueSnapshotBlockWakes == ASSUME IInv, WakeInv, QueueSnapshotBlock PROVE WakeInv'
<1>1. WorkerWaits /\ MainWaits /\ RewriterWaits
  BY WakeByThread
<1>2. /\ main = "snapshot" /\ "main" \notin asleep /\ ProducerLeaves
      /\ UNCHANGED <<snapshot_complete, rewriting, rewrite_failed>>
  BY DEF QueueSnapshotBlock, Awake, rewriteVars
<1>3. UNCHANGED <<pending, stopping, healthy, writing, syncing, rewriter, rewrite_pending>>
  BY <1>2 DEF ProducerLeaves, queueVars, ioVars, rewriterVars, deltaVars
<1>4. CASE /\ ~SnapshotWaitOver /\ asleep' = asleep \cup {"main"}
           /\ UNCHANGED <<main, next_block, snapshot_pending, snapshot_pending_bytes>>
  <2>1. MainWaits'
    BY <1>2, <1>3, <1>4
    DEF MainWaits, SnapshotWaitOver, SnapshotRefused, SnapshotHasRoom
  <2>2. RewriterWaits'
    BY <1>1, <1>2, <1>3, <1>4, RewriterSleeps DEF WriterIdle
  <2>3. WorkerWaits'
    BY <1>1, <1>3, <1>4 DEF WorkerWaits
  <2> QED
    BY <2>1, <2>2, <2>3, WakeByThreadNext
<1>5. CASE main' = "unbuilt" /\ UNCHANGED <<asleep, snapshot_pending>>
  <2>1. MainWaits' /\ WorkerWaits'
    BY <1>1, <1>2, <1>3, <1>5 DEF MainWaits, WorkerWaits
  <2>2. RewriterWaits'
    BY <1>1, <1>2, <1>3, <1>5, RewriterSleeps DEF WriterIdle
  <2> QED
    BY <2>1, <2>2, WakeByThreadNext
<1>6. CASE asleep' = asleep \ rewrite_state_changed
  BY <1>1, <1>3, <1>6, BothWoken, WakeByThreadNext DEF WorkerWaits
<1> QED
  BY <1>4, <1>5, <1>6 DEF QueueSnapshotBlock, Notify

(* The end of the snapshot is reached awake.                               *)
LEMMA BuildSnapshotWakes == ASSUME IInv, WakeInv, BuildSnapshot PROVE WakeInv'
<1>1. WorkerWaits /\ MainWaits /\ RewriterWaits
  BY WakeByThread
<1>2. /\ "main" \notin asleep /\ ProducerLeaves
      /\ UNCHANGED <<asleep, snapshot_pending, snapshot_complete, rewrite_failed>>
  BY DEF BuildSnapshot, Awake, rewriteVars, snapshotVars
<1>3. UNCHANGED <<pending, stopping, healthy, writing, syncing, rewriter, rewrite_pending>>
  BY <1>2 DEF ProducerLeaves, queueVars, ioVars, rewriterVars, deltaVars
<1>4. WorkerWaits' /\ MainWaits'
  BY <1>1, <1>2, <1>3 DEF WorkerWaits, MainWaits
<1>5. RewriterWaits'
  BY <1>1, <1>2, <1>3, RewriterSleeps DEF WriterIdle
<1> QED
  BY <1>4, <1>5, WakeByThreadNext

(* FinishSnapshot notifies whatever it decides.                            *)
LEMMA FinishSnapshotWakes == ASSUME IInv, WakeInv, FinishSnapshot PROVE WakeInv'
<1>1. WorkerWaits
  BY WakeByThread
<1>2. asleep' = asleep \ rewrite_state_changed /\ UNCHANGED <<pending, stopping>>
  BY DEF FinishSnapshot, Notify, ProducerLeaves, queueVars
<1> QED
  BY <1>1, <1>2, BothWoken, WakeByThreadNext DEF WorkerWaits

(* WaitUntilRewriteIdle sleeps only while a rewrite is under way.          *)
LEMMA WaitUntilRewriteIdleWakes == ASSUME IInv, WakeInv, WaitUntilRewriteIdle PROVE WakeInv'
<1>1. WorkerWaits /\ MainWaits /\ RewriterWaits
  BY WakeByThread
<1>2. /\ main = "await" /\ "main" \notin asleep /\ ProducerLeaves
      /\ UNCHANGED <<snapshot_pending, snapshot_complete, rewriting, rewrite_failed>>
      /\ \/ rewriting /\ asleep' = asleep \cup {"main"} /\ main' = main
         \/ UNCHANGED asleep
  BY DEF WaitUntilRewriteIdle, Awake, rewriteVars, snapshotVars
<1>3. UNCHANGED <<pending, stopping, healthy, writing, syncing, rewriter, rewrite_pending>>
  BY <1>2 DEF ProducerLeaves, queueVars, ioVars, rewriterVars, deltaVars
<1>4. WorkerWaits' /\ MainWaits'
  BY <1>1, <1>2, <1>3 DEF WorkerWaits, MainWaits
<1>5. RewriterWaits'
  BY <1>1, <1>2, <1>3, RewriterSleeps DEF WriterIdle
<1> QED
  BY <1>4, <1>5, WakeByThreadNext

(* The destructor wakes all three when it sets stopping_.                  *)
LEMMA DestroyWakes == ASSUME IInv, WakeInv, Destroy PROVE WakeInv'
<1>1. WorkerWaits /\ MainWaits /\ RewriterWaits
  BY WakeByThread
<1>2. UNCHANGED <<pending, healthy, writing, syncing, rewriter, rewrite_pending,
                  snapshot_pending, snapshot_complete, rewrite_failed>>
  BY DEF Destroy, queueVars, ioVars, rewriterVars, deltaVars, snapshotVars, rewriteVars
<1>3. CASE asleep' = asleep \ (work_available \cup rewrite_state_changed)
  <2>1. "worker" \notin asleep'
    BY <1>3 DEF work_available
  <2> QED
    BY <1>3, <2>1, BothWoken, WakeByThreadNext DEF WorkerWaits
<1>4. CASE main \in {"join_rewriter", "join_worker"} /\ UNCHANGED <<stopping, asleep>>
  <2>1. WorkerWaits' /\ MainWaits'
    BY <1>1, <1>2, <1>4 DEF WorkerWaits, MainWaits
  <2>2. RewriterWaits'
    BY <1>1, <1>2, <1>4, RewriterSleeps DEF WriterIdle
  <2> QED
    BY <2>1, <2>2, WakeByThreadNext
<1> QED
  BY <1>3, <1>4, ZenonT(20) DEF Destroy, Notify

(* What the worker's steps leave alone of the waits of the two others.     *)
LEMMA WorkerKeepsWaits ==
    ASSUME WakeInv, WorkerLeaves, UNCHANGED healthy,
           ~WriterIdle => ~WriterIdle',
           "main" \in asleep' => "main" \in asleep,
           "rewriter" \in asleep' => "rewriter" \in asleep
    PROVE  MainWaits' /\ RewriterWaits' /\ UNCHANGED stopping
<1>1. UNCHANGED <<main, next_block, stopping, rewriting, rewrite_failed, snapshot_pending,
                  snapshot_pending_bytes, snapshot_complete, rewriter, rewrite_pending>>
  BY DEF WorkerLeaves, callerVars, rewriteVars, snapshotVars, deltaVars, rewriterVars
<1>2. MainWaits /\ RewriterWaits
  BY WakeByThread
<1>3. MainWaits'
  BY <1>1, <1>2, MainFrame
<1>4. RewriterWaits'
  BY <1>1, <1>2, RewriterSleeps
<1> QED
  BY <1>1, <1>3, <1>4

(* The worker sleeps with an empty queue, and the locked head of Run       *)
(* raises a flag whenever it takes the queue or starts a sync.             *)
LEMMA WorkerLoopWakes ==
    ASSUME IInv, WakeInv, WorkerWait \/ BeginSync \/ BeginWrite \/ WorkerReturn
    PROVE  WakeInv'
<1>1. WorkerWaits
  BY WakeByThread
<1>2. CASE WorkerWait
  <2>1. /\ WorkerLeaves /\ asleep' = asleep \cup {"worker"} /\ pending = <<>> /\ ~stopping
        /\ UNCHANGED <<healthy, pending, writing, syncing>>
    BY <1>2 DEF WorkerWait, WorkerWakeUp, queueVars, ioVars
  <2>2. MainWaits' /\ RewriterWaits' /\ UNCHANGED stopping
    BY <2>1, WorkerKeepsWaits DEF WriterIdle
  <2> QED
    BY <2>1, <2>2, WakeByThreadNext DEF WorkerWaits
<1>3. CASE BeginSync
  <2>1. /\ WorkerLeaves /\ asleep' = asleep \ {"worker"} /\ syncing' = TRUE
        /\ UNCHANGED <<healthy, pending, writing>>
    BY <1>3 DEF BeginSync, queueVars
  <2>2. MainWaits' /\ RewriterWaits'
    BY <2>1, WorkerKeepsWaits DEF WriterIdle
  <2> QED
    BY <2>1, <2>2, WakeByThreadNext DEF WorkerWaits
<1>4. CASE BeginWrite
  <2>1. /\ WorkerLeaves /\ asleep' = asleep /\ writing' = TRUE /\ "worker" \notin asleep
        /\ UNCHANGED <<healthy, syncing>>
    BY <1>4 DEF BeginWrite, Awake
  <2>2. MainWaits' /\ RewriterWaits'
    BY <2>1, WorkerKeepsWaits DEF WriterIdle
  <2> QED
    BY <2>1, <2>2, WakeByThreadNext DEF WorkerWaits
<1>5. CASE WorkerReturn
  <2>1. WorkerLeaves /\ UNCHANGED <<asleep, healthy, pending, writing, syncing>>
    BY <1>5 DEF WorkerReturn, queueVars, ioVars
  <2>2. MainWaits' /\ RewriterWaits' /\ UNCHANGED stopping
    BY <2>1, WorkerKeepsWaits DEF WriterIdle
  <2> QED
    BY <1>1, <2>1, <2>2, WakeByThreadNext DEF WorkerWaits
<1> QED
  BY <1>2, <1>3, <1>4, <1>5

(* The worker's system calls wake no one; what follows them notifies the   *)
(* others whether the call succeeded or FailLocked ran.                    *)
LEMMA WorkerIOWakes ==
    ASSUME IInv, WakeInv, WorkerWrite \/ WorkerWrote \/ WorkerSync \/ WorkerSynced
    PROVE  WakeInv'
<1>1. WorkerWaits
  BY WakeByThread
<1>2. CASE WorkerWrite \/ WorkerSync
  <2>1. WorkerLeaves /\ UNCHANGED <<asleep, healthy, pending, writing, syncing>>
    BY <1>2 DEF WorkerWrite, WorkerSync, queueVars, ioVars
  <2>2. MainWaits' /\ RewriterWaits' /\ UNCHANGED stopping
    BY <2>1, WorkerKeepsWaits DEF WriterIdle
  <2> QED
    BY <1>1, <2>1, <2>2, WakeByThreadNext DEF WorkerWaits
<1>3. CASE WorkerWrote \/ WorkerSynced
  <2>1. /\ asleep' = asleep \ rewrite_state_changed /\ UNCHANGED stopping
        /\ pending' = pending \/ pending' = <<>>
    BY <1>3, Zenon DEF WorkerWrote, WorkerSynced, Notify, WorkerLeaves, FailLocked, queueVars
  <2> QED
    BY <1>1, <2>1, BothWoken, WakeByThreadNext DEF WorkerWaits
<1> QED
  BY <1>2, <1>3, ZenonT(20)

(* What the rewrite thread's steps leave alone of the producer's wait.     *)
LEMMA RewriterKeepsWaits ==
    ASSUME WakeInv, RewriterLeaves, UNCHANGED <<pending, rewriteVars>>,
           UNCHANGED <<snapshot_pending, snapshot_pending_bytes>>,
           asleep' \subseteq asleep \cup {"rewriter"}
    PROVE  WorkerWaits' /\ MainWaits'
<1>1. UNCHANGED <<main, next_block, stopping, rewriting, rewrite_failed>>
  BY DEF RewriterLeaves, callerVars, rewriteVars
<1>2. MainWaits /\ WorkerWaits
  BY WakeByThread
<1>3. MainWaits'
  BY <1>1, <1>2, MainFrame
<1> QED
  BY <1>1, <1>2, <1>3 DEF WorkerWaits

(* The first loop of RunRewrite: it sleeps on an empty snapshot queue, and *)
(* wakes the producer when it empties a full one.                          *)
LEMMA TakeSnapshotWakes == ASSUME IInv, WakeInv, TakeSnapshot PROVE WakeInv'
<1>1. WorkerWaits /\ "rewriter" \notin asleep
  BY WakeByThread DEF TakeSnapshot, Awake
<1>2. /\ RewriterLeaves /\ UNCHANGED <<pending, rewriteVars, healthy, snapshot_complete>>
      /\ UNCHANGED stopping
  BY Zenon DEF TakeSnapshot, Unfinished, queueVars, RewriterLeaves
<1>3. CASE /\ rewriter = "snapshot" /\ healthy /\ ~rewrite_failed /\ ~stopping
           /\ snapshot_pending = <<>> /\ ~snapshot_complete
           /\ asleep' = asleep \cup {"rewriter"}
           /\ UNCHANGED <<rewriter, snapshot_pending, snapshot_pending_bytes>>
  <2>1. RewriterWaits'
    BY <1>2, <1>3 DEF RewriterWaits, rewriteVars
  <2>2. WorkerWaits' /\ MainWaits'
    BY <1>2, <1>3, RewriterKeepsWaits
  <2> QED
    BY <2>1, <2>2, WakeByThreadNext
<1>4. CASE UNCHANGED <<asleep, snapshot_pending, snapshot_pending_bytes>>
  <2>1. RewriterWaits'
    BY <1>1, <1>4 DEF RewriterWaits
  <2>2. WorkerWaits' /\ MainWaits'
    BY <1>2, <1>4, RewriterKeepsWaits
  <2> QED
    BY <2>1, <2>2, WakeByThreadNext
<1>5. CASE asleep' = asleep \ rewrite_state_changed
  BY <1>1, <1>2, <1>5, BothWoken, WakeByThreadNext DEF WorkerWaits
<1> QED
  BY <1>3, <1>4, <1>5 DEF TakeSnapshot, Notify, rewriterVars

(* The rewrite thread writes its temporary file awake.                     *)
LEMMA RewriterWriteWakes == ASSUME IInv, WakeInv, RewriterWrite PROVE WakeInv'
<1>1. RewriterWaits
  BY WakeByThread
<1>2. /\ RewriterLeaves /\ UNCHANGED <<asleep, pending, rewriteVars>>
      /\ UNCHANGED <<snapshot_pending, snapshot_pending_bytes>>
      /\ rewriter \in {"write_snapshot", "write_delta"}
  BY DEF RewriterWrite, Unfinished, queueVars, snapshotVars
<1>3. RewriterWaits'
  BY <1>1, <1>2 DEF RewriterWaits
<1>4. WorkerWaits' /\ MainWaits'
  BY <1>2, RewriterKeepsWaits
<1> QED
  BY <1>3, <1>4, WakeByThreadNext

(* The second loop sleeps on an empty delta queue and a busy writer.       *)
LEMMA TakeDeltaWakes == ASSUME IInv, WakeInv, TakeDelta PROVE WakeInv'
<1>1. rewriter = "delta" /\ "rewriter" \notin asleep
  BY DEF TakeDelta, Awake
<1>2. /\ RewriterLeaves /\ UNCHANGED <<pending, rewriteVars, healthy, writing, syncing>>
      /\ UNCHANGED <<snapshot_pending, snapshot_pending_bytes>>
  BY DEF TakeDelta, queueVars, snapshotVars, ioVars
<1>3. CASE /\ DeltaDrained /\ ~WriterIdle /\ asleep' = asleep \cup {"rewriter"}
           /\ UNCHANGED <<rewriter, rewrite_pending>>
  <2>1. RewriterWaits'
    BY <1>1, <1>2, <1>3 DEF RewriterWaits, rewriteVars, DeltaDrained, WriterIdle
  <2>2. WorkerWaits' /\ MainWaits'
    BY <1>2, <1>3, RewriterKeepsWaits
  <2> QED
    BY <2>1, <2>2, WakeByThreadNext
<1>4. CASE UNCHANGED asleep
  <2>1. RewriterWaits'
    BY <1>1, <1>4 DEF RewriterWaits
  <2>2. WorkerWaits' /\ MainWaits'
    BY <1>2, <1>4, RewriterKeepsWaits, ZenonT(20)
  <2> QED
    BY <2>1, <2>2, WakeByThreadNext
<1> QED
  BY <1>3, <1>4 DEF TakeDelta, rewriterVars, deltaVars

(* Every end of a rewrite notifies; its steps before the end are taken by  *)
(* a thread that is awake.                                                 *)
LEMMA SwapWakes ==
    ASSUME IInv, WakeInv, SyncTemp \/ Rename \/ SyncParentDirectory \/ AbortRewrite
    PROVE  WakeInv'
<1>1. WorkerWaits /\ RewriterWaits
  BY WakeByThread, ZenonT(20)
<1>2. "rewriter" \notin asleep
  BY <1>1 DEF RewriterWaits, SyncTemp, Rename, SyncParentDirectory, AbortRewrite, Awake
<1>3. RewriterLeaves /\ UNCHANGED stopping /\ (pending' = pending \/ pending' = <<>>)
  BY Zenon DEF SyncTemp, Rename, SyncParentDirectory, AbortRewrite, RewriterLeaves,
               FailLocked, queueVars
<1>4. CASE asleep' = asleep \ rewrite_state_changed
           \/ asleep' = asleep \ (work_available \cup rewrite_state_changed)
  BY <1>1, <1>3, <1>4, BothWoken, WakeByThreadNext DEF WorkerWaits
<1>5. CASE UNCHANGED <<rewriteVars, snapshotVars, asleep, pending>>
  <2>1. RewriterWaits'
    BY <1>2, <1>5 DEF RewriterWaits
  <2>2. WorkerWaits' /\ MainWaits'
    BY <1>3, <1>5, RewriterKeepsWaits DEF snapshotVars
  <2> QED
    BY <2>1, <2>2, WakeByThreadNext
<1> QED
  BY <1>4, <1>5, ZenonT(20)
  DEF SyncTemp, Rename, SyncParentDirectory, AbortRewrite, RewriteFails, Notify, queueVars

(* No step loses a wakeup.                                                 *)
LEMMA StepWakes == ASSUME IInv, WakeInv, [Next]_vars PROVE WakeInv'
<1>1. CASE AppendAlways \/ AppendQueued
  BY <1>1, AppendAlwaysWakes, AppendQueuedWakes
<1>2. CASE Main
  BY <1>2, StartRewriteWakes, CreateTempWakes, QueueSnapshotBlockWakes, BuildSnapshotWakes,
     FinishSnapshotWakes, WaitUntilRewriteIdleWakes, DestroyWakes, Zenon DEF Main
<1>3. CASE Run
  BY <1>3, WorkerLoopWakes, WorkerIOWakes, Zenon DEF Run
<1>4. CASE RunRewrite
  BY <1>4, TakeSnapshotWakes, RewriterWriteWakes, TakeDeltaWakes, SwapWakes, Zenon
  DEF RunRewrite
<1>5. CASE Open
  <2>1. asleep' = {}
    BY <1>5, Zenon DEF Open, OpenFile
  <2> QED
    BY <2>1, WakeByThreadNext DEF WorkerWaits, MainWaits, RewriterWaits
<1>6. CASE UNCHANGED vars
  <2>1. /\ UNCHANGED <<asleep, main, next_block, stopping, rewriting, rewrite_failed>>
        /\ UNCHANGED <<snapshot_pending, snapshot_pending_bytes, snapshot_complete>>
        /\ UNCHANGED <<rewriter, healthy, rewrite_pending, pending, writing, syncing>>
    BY <1>6, Zenon
    DEF vars, callerVars, queueVars, ioVars, healthVars, rewriteVars, snapshotVars,
        deltaVars, rewriterVars
  <2>2. WorkerWaits /\ MainWaits /\ RewriterWaits
    BY WakeByThread
  <2>3. WorkerWaits' /\ MainWaits'
    BY <2>1, <2>2, MainFrame DEF WorkerWaits
  <2>4. RewriterWaits'
    BY <2>1, <2>2, RewriterSleeps DEF WriterIdle
  <2> QED
    BY <2>3, <2>4, WakeByThreadNext
<1> QED
  BY <1>1, <1>2, <1>3, <1>4, <1>5, <1>6, Zenon DEF Next, Closed
=============================================================================
