---------------------------- MODULE AofDurability ----------------------------
(***************************************************************************)
(* The steps of the rewrite thread and of a restart, which complete the    *)
(* proof of IInv: fd_ is replaced only while the worker is idle, and no    *)
(* thread sleeps on a condition that holds.  Then what the append-only     *)
(* file promises its callers: the log is complete, an acknowledged command *)
(* of the "always" policy and every command accepted before a shutdown are *)
(* on disk, what survives a crash is only ever cut off by a shutdown       *)
(* during a rewrite, and the whole implements DurableLog.                  *)
(***************************************************************************)
EXTENDS AofInvariant

-----------------------------------------------------------------------------
(* What the rewrite thread's steps before the swap leave alone.            *)
LEMMA RewriterFrame ==
    ASSUME IInv, RewriterLeaves,
           UNCHANGED <<rewriteVars, queueVars, ioVars, healthy, file, shadow>>,
           rewriter # "dirsync"
    PROVE  /\ UNCHANGED <<main, next_block, issued, acked, opened, stopping, worker,
                          worker_batch, policy, rewriting, rewrite_failed, pending, writing,
                          syncing, dirty, healthy, file, shadow>>
           /\ FileInv' /\ ShadowInv'
<1> USE DEF IInv
<1>1. UNCHANGED <<main, next_block, issued, acked, opened, stopping, worker,
                  worker_batch, policy, rewriting, rewrite_failed, pending, writing,
                  syncing, dirty, healthy, file, shadow>>
  BY Zenon DEF RewriterLeaves, callerVars, workerVars, fixedVars, rewriteVars, queueVars, ioVars
<1>2. FileInv'
  BY <1>1, FileFrame, SMTT(30)
<1>3. ASSUME NEW f \in {file} \cup shadow PROVE SoundLog(f)'
  BY <1>1, <1>3 DEF ShadowInv, SoundLog
<1>4. ShadowInv'
  BY <1>1, <1>3 DEF ShadowInv
<1> QED
  BY <1>1, <1>2, <1>4

(* The first loop of RunRewrite keeps IInv: it moves on from a whole       *)
(* snapshot, or when the rewrite has failed, or for a shutdown.            *)
LEMMA TakeSnapshotStep == ASSUME IInv, TakeSnapshot PROVE IInv'
<1> USE DEF IInv
<1>1. /\ rewriter = "snapshot" /\ RewriterLeaves /\ Unfinished
      /\ UNCHANGED <<snapshot_complete, temp>>
  BY DEF TakeSnapshot
<1>2. /\ UNCHANGED <<main, next_block, issued, acked, opened, stopping, worker,
                     worker_batch, policy, rewriting, rewrite_failed, pending, writing,
                     syncing, dirty, healthy, file, shadow>>
      /\ FileInv' /\ ShadowInv' /\ rewrite_pending' = rewrite_pending
  BY <1>1, RewriterFrame DEF Unfinished
<1>3. \/ UNCHANGED <<rewriter, rewriter_batch, snapshot_pending>>
      \/ /\ rewriter' = "delta" /\ (~healthy \/ rewrite_failed \/ stopping)
         /\ UNCHANGED <<rewriter_batch, snapshot_pending>>
      \/ /\ rewriter' = "delta" /\ snapshot_pending = <<>> /\ snapshot_complete
         /\ UNCHANGED <<rewriter_batch, snapshot_pending>>
      \/ /\ rewriter' = "write_snapshot" /\ rewriter_batch' = snapshot_pending
         /\ snapshot_pending' = <<>>
  BY DEF TakeSnapshot, LeaveLoop, rewriterVars
<1>4. /\ rewriter' \in {"snapshot", "delta", "write_snapshot"}
      /\ rewriter_batch' \in Seq(Nat) /\ snapshot_pending' \in Seq(Nat)
  BY <1>1, <1>3, CountsEmpty, ZenonT(30) DEF KindInv
<1>5. KindInv'
  BY <1>1, <1>2, <1>4, SMTT(30) DEF KindInv
<1>6. FlagInv' /\ SwapInv'
  BY <1>1, <1>2, <1>3, SMTT(30) DEF FlagInv, SwapInv
<1>7. ASSUME Promising' PROVE DeltaInv' /\ BlockInv'
  <2>1. Promising /\ rewriter' \in {"snapshot", "delta", "write_snapshot"}
    BY <1>1, <1>2, <1>3, <1>7 DEF Promising
  <2>2. DeltaLength = 0 /\ DeltaLength' = 0 /\ BlockLength = 0
    BY <1>1, <2>1, SMTT(30) DEF DeltaLength, BlockLength
  <2>3. DeltaInv'
    BY <1>1, <1>2, <2>1, <2>2 DEF DeltaInv
  <2>4. Len(temp.blocks) \in Nat /\ Len(snapshot_pending) \in Nat
    BY FileFields DEF KindInv
  <2>5. /\ BlockLength' + Len(snapshot_pending') = Len(snapshot_pending)
        /\ BlockLength' \in Nat
    BY <1>1, <1>3, <2>1, <2>4, CountsEmpty, SMTT(30) DEF BlockLength
  <2>6. Produced' = Produced
    <3>1. Produced' = Len(temp.blocks) + BlockLength' + Len(snapshot_pending')
      BY <1>1 DEF Produced
    <3>2. Len(snapshot_pending') \in Nat
      BY <1>4
    <3> QED
      BY <2>2, <2>4, <2>5, <3>1, <3>2, SMTT(20) DEF Produced
  <2>7. /\ rewriter' = "write_snapshot" => Counts(rewriter_batch', Len(temp.blocks))
        /\ Counts(snapshot_pending', Len(temp.blocks) + BlockLength')
    <3>1. Counts(snapshot_pending, Len(temp.blocks))
      BY <2>1, <2>2, <2>4, SMTT(30) DEF BlockInv
    <3>2. CASE rewriter' = "write_snapshot"
      BY <1>1, <1>3, <3>1, <3>2, CountsEmpty, SMTT(30)
    <3>3. CASE rewriter' # "write_snapshot"
      <4>1. BlockLength' = 0 /\ snapshot_pending' = snapshot_pending
        BY <1>1, <1>3, <3>3, SMTT(30) DEF BlockLength
      <4> QED
        BY <3>1, <3>3, <4>1, <2>4, SMTT(30)
    <3> QED
      BY <3>2, <3>3
  <2>8. /\ stopping => snapshot_complete
        /\ rewriter' = "delta" => snapshot_complete /\ (snapshot_pending' = <<>> \/ stopping)
    <3>1. stopping => snapshot_complete
      BY <2>1, Zenon DEF BlockInv, FlagInv
    <3> QED
      BY <1>1, <1>3, <2>1, <3>1 DEF Promising
  <2>9. BlockInv'
    BY <1>1, <1>2, <1>3, <2>1, <2>6, <2>7, <2>8, SMTT(30) DEF BlockInv
  <2> QED
    BY <2>3, <2>9, SMTT(30)
<1> QED
  BY <1>2, <1>5, <1>6, <1>7, Abandoned, SMTT(30)

(* A block or a record goes from the batch to the temporary file.          *)
LEMMA WriteAnyway ==
    ASSUME KindInv, rewriter_batch # <<>>,
           \/ temp' = [temp EXCEPT !.blocks = Append(temp.blocks, Head(rewriter_batch))]
           \/ temp' = WithRecord(temp, Head(rewriter_batch))
    PROVE  temp' \in LogFile /\ Tail(rewriter_batch) \in Seq(Nat)
<1>1. /\ temp \in LogFile /\ Head(rewriter_batch) \in Nat /\ Tail(rewriter_batch) \in Seq(Nat)
  BY SMTT(20) DEF KindInv
<1>2. temp.blocks \in Seq(Nat) /\ temp.records \in Seq(Nat)
  BY <1>1, FileFields
<1>3. /\ Append(temp.blocks, Head(rewriter_batch)) \in Seq(Nat)
      /\ Append(temp.records, Head(rewriter_batch)) \in Seq(Nat)
  BY <1>1, <1>2
<1>4. [temp EXCEPT !.blocks = Append(temp.blocks, Head(rewriter_batch))] \in LogFile
  BY <1>1, <1>3, NewBlocks, Zenon
<1>5. WithRecord(temp, Head(rewriter_batch)) \in LogFile
  BY <1>1, <1>3, NewRecords, Zenon DEF WithRecord
<1> QED
  BY <1>1, <1>4, <1>5, Zenon

(* While the rewrite can succeed, the batch and the file stay consecutive. *)
LEMMA WriteBlock ==
    ASSUME IInv, rewriter = "write_snapshot", rewriter_batch # <<>>, Promising,
           temp' = [temp EXCEPT !.blocks = Append(temp.blocks, Head(rewriter_batch))],
           rewriter_batch' = Tail(rewriter_batch),
           UNCHANGED <<main, next_block, issued, stopping, rewriter, rewrite_failed, healthy,
                       snapshot_complete, snapshot_pending, rewrite_pending>>
    PROVE  temp' \in LogFile /\ rewriter_batch' \in Seq(Nat) /\ DeltaInv' /\ BlockInv'
<1> USE DEF IInv
<1> DEFINE k == Len(temp.blocks)
<1>1. /\ temp \in LogFile /\ k \in Nat /\ temp.blocks \in Seq(Nat)
      /\ Len(rewriter_batch) \in Nat /\ Len(snapshot_pending) \in Nat
  BY KindFacts, Zenon
<1>2. /\ Counts(temp.blocks, 0) /\ Counts(rewriter_batch, k)
      /\ Counts(snapshot_pending, k + Len(rewriter_batch))
      /\ Produced = k + Len(rewriter_batch) + Len(snapshot_pending)
  BY DEF BlockInv, BlockLength, Produced
<1>3. /\ Head(rewriter_batch) = k + 1 /\ rewriter_batch' \in Seq(Nat)
      /\ Len(rewriter_batch') = Len(rewriter_batch) - 1
      /\ Counts(rewriter_batch', k + 1)
  BY <1>1, <1>2, CountsTail, Zenon DEF KindInv
<1>4. /\ Append(temp.blocks, k + 1) \in Seq(Nat) /\ Len(Append(temp.blocks, k + 1)) = k + 1
      /\ Counts(Append(temp.blocks, k + 1), 0)
  BY <1>1, <1>2, CountsAppendOne
<1>5. temp' \in LogFile
  BY WriteAnyway
<1>6. /\ temp'.blocks = Append(temp.blocks, k + 1) /\ temp'.base = temp.base
      /\ temp'.records = temp.records /\ temp'.lost = temp.lost
  BY <1>1, <1>3, SMTT(30) DEF LogFile
<1>7. Reaches(temp') = Reaches(temp)
  BY <1>6 DEF Reaches
<1>8. Promising'
  BY DEF Promising
<1>9. DeltaInv'
  BY <1>6, <1>7, <1>8, SMTT(30) DEF DeltaInv, DeltaLength
<1>10. BlockLength' = Len(rewriter_batch') /\ Len(temp'.blocks) = k + 1
  BY <1>4, <1>6 DEF BlockLength
<1>11. /\ Len(temp'.blocks) + BlockLength' = k + Len(rewriter_batch)
       /\ Produced' = Produced
  BY <1>1, <1>2, <1>3, <1>10, SMTT(30) DEF Produced
<1>12. BlockInv'
  BY <1>2, <1>3, <1>4, <1>6, <1>8, <1>10, <1>11, SMTT(30) DEF BlockInv
<1> QED
  BY <1>3, <1>5, <1>9, <1>12, SMTT(30)

(* A command of the delta queue written to the temporary file is its next  *)
(* one.                                                                    *)
LEMMA WriteDelta ==
    ASSUME IInv, rewriter = "write_delta", rewriter_batch # <<>>, Promising,
           temp' = WithRecord(temp, Head(rewriter_batch)),
           rewriter_batch' = Tail(rewriter_batch),
           UNCHANGED <<main, next_block, issued, stopping, rewriter, rewrite_failed, healthy,
                       snapshot_complete, snapshot_pending, rewrite_pending>>
    PROVE  temp' \in LogFile /\ rewriter_batch' \in Seq(Nat) /\ DeltaInv' /\ BlockInv'
<1> USE DEF IInv
<1> DEFINE k == Reaches(temp)
<1>1. /\ temp \in LogFile /\ k \in Nat
      /\ Len(rewriter_batch) \in Nat /\ Len(rewrite_pending) \in Nat
  BY KindFacts, Zenon
<1>2. /\ Counts(temp.records, temp.base) /\ Counts(rewriter_batch, k)
      /\ Counts(rewrite_pending, k + Len(rewriter_batch))
      /\ issued = k + Len(rewriter_batch) + Len(rewrite_pending)
  BY DEF DeltaInv, DeltaLength
<1>3. /\ Head(rewriter_batch) = k + 1 /\ rewriter_batch' \in Seq(Nat)
      /\ Len(rewriter_batch') = Len(rewriter_batch) - 1
      /\ Counts(rewriter_batch', k + 1)
  BY <1>1, <1>2, CountsTail, Zenon DEF KindInv
<1>4. /\ temp' \in LogFile /\ temp'.base = temp.base /\ temp'.blocks = temp.blocks
      /\ temp'.lost = temp.lost /\ Counts(temp'.records, temp'.base) /\ Reaches(temp') = k + 1
  BY <1>1, <1>2, <1>3, WithRecordFields, SMTT(20)
<1>5. Promising'
  BY DEF Promising
<1>6. DeltaLength' = Len(rewriter_batch')
  BY DEF DeltaLength
<1>7. Reaches(temp') + DeltaLength' = k + Len(rewriter_batch)
  BY <1>1, <1>3, <1>4, <1>6, SMTT(30)
<1>8. DeltaInv'
  <2>1. Counts(rewriter_batch', Reaches(temp'))
    BY <1>3, <1>4, Zenon
  <2>2. Counts(rewrite_pending', Reaches(temp') + DeltaLength')
    BY <1>2, <1>7, Zenon
  <2>3. issued' = Reaches(temp') + DeltaLength' + Len(rewrite_pending')
    BY <1>2, <1>7, Zenon
  <2> QED
    BY <1>4, <2>1, <2>2, <2>3, Zenon DEF DeltaInv
<1>9. BlockInv'
  BY <1>4, <1>5, SMTT(30) DEF BlockInv, BlockLength, Produced
<1> QED
  BY <1>3, <1>4, <1>8, <1>9, SMTT(30)

(* WriteBatch on the temporary file keeps IInv.                            *)
LEMMA RewriterWriteStep == ASSUME IInv, RewriterWrite PROVE IInv'
<1> USE DEF IInv
<1>1. /\ rewriter \in {"write_snapshot", "write_delta"} /\ RewriterLeaves /\ Unfinished
      /\ UNCHANGED <<snapshot_complete, snapshot_pending>>
  BY SMTT(30) DEF RewriterWrite, snapshotVars
<1>2. /\ UNCHANGED <<main, next_block, issued, acked, opened, stopping, worker,
                     worker_batch, policy, rewriting, rewrite_failed, pending, writing,
                     syncing, dirty, healthy, file, shadow>>
      /\ FileInv' /\ ShadowInv' /\ rewrite_pending' = rewrite_pending
  BY <1>1, RewriterFrame, SMTT(30) DEF Unfinished
<1>3. ASSUME temp' \in LogFile, rewriter_batch' \in Seq(Nat), DeltaInv', BlockInv',
             rewriter' \in {rewriter, "snapshot", "delta", "abort"}
      PROVE  IInv'
  <2>1. KindInv'
    BY <1>1, <1>2, <1>3, SMTT(30) DEF KindInv
  <2>2. FlagInv' /\ SwapInv'
    BY <1>1, <1>2, <1>3, SMTT(30) DEF FlagInv, SwapInv
  <2> QED
    BY <1>2, <1>3, <2>1, <2>2, SMTT(30)
<1>4. CASE /\ rewriter = "write_snapshot" /\ rewriter_batch # <<>>
           /\ temp' = [temp EXCEPT !.blocks = Append(@, Head(rewriter_batch))]
           /\ rewriter_batch' = Tail(rewriter_batch) /\ rewriter' = rewriter
  <2>1. CASE Promising
    BY <1>1, <1>2, <1>3, <1>4, <2>1, WriteBlock, SMTT(30)
  <2>2. CASE ~Promising
    <3>1. ~Promising'
      BY <1>2, <1>4, <2>2, SMTT(30) DEF Promising
    <3> QED
      BY <1>3, <1>4, <3>1, WriteAnyway, Abandoned, SMTT(30)
  <2> QED
    BY <2>1, <2>2, SMTT(30)
<1>5. CASE /\ rewriter = "write_delta" /\ rewriter_batch # <<>>
           /\ temp' = WithRecord(temp, Head(rewriter_batch))
           /\ rewriter_batch' = Tail(rewriter_batch) /\ rewriter' = rewriter
  <2>1. CASE Promising
    BY <1>1, <1>2, <1>3, <1>5, <2>1, WriteDelta, SMTT(30)
  <2>2. CASE ~Promising
    <3>1. ~Promising'
      BY <1>2, <1>5, <2>2, SMTT(30) DEF Promising
    <3> QED
      BY <1>3, <1>5, <3>1, WriteAnyway, Abandoned, SMTT(30)
  <2> QED
    BY <2>1, <2>2
<1>6. CASE /\ rewriter_batch = <<>>
           /\ rewriter' = IF rewriter = "write_snapshot" THEN "snapshot" ELSE "delta"
           /\ UNCHANGED <<temp, rewriter_batch>>
  <2>1. /\ Len(rewriter_batch) = 0 /\ DeltaLength = 0 /\ DeltaLength' = 0
        /\ BlockLength = 0 /\ BlockLength' = 0
    BY <1>1, <1>6, CountsEmpty DEF DeltaLength, BlockLength
  <2>2. Promising' => Promising
    BY <1>1, <1>2, <1>6 DEF Promising
  <2>3. rewriter' \in {"snapshot", "delta"} /\ (rewriter' = "delta" => rewriter = "write_delta")
    BY <1>1, <1>6, SMTT(30)
  <2>4. DeltaInv'
    BY <1>2, <1>6, <2>1, <2>2, <2>3, ZenonT(20) DEF DeltaInv
  <2>5. BlockInv'
    BY <1>1, <1>2, <1>6, <2>1, <2>2, <2>3, ZenonT(20) DEF BlockInv, Produced
  <2> QED
    BY <1>3, <1>6, <2>3, <2>4, <2>5, SMTT(30) DEF KindInv
<1>7. CASE rewriter' = "abort" /\ rewriter_batch' = <<>> /\ temp' = temp
  <2>1. DeltaInv' /\ BlockInv'
    BY <1>7, Abandoned DEF Promising
  <2> QED
    BY <1>3, <1>7, <2>1, CountsEmpty, SMTT(30) DEF KindInv
<1> QED
  BY <1>4, <1>5, <1>6, <1>7 DEF RewriterWrite

(* The second loop of RunRewrite keeps IInv.                               *)
LEMMA TakeDeltaStep == ASSUME IInv, TakeDelta PROVE IInv'
<1> USE DEF IInv
<1>1. /\ rewriter = "delta" /\ RewriterLeaves
      /\ UNCHANGED <<rewriteVars, queueVars, ioVars, healthy, file, shadow>>
      /\ UNCHANGED <<snapshot_complete, snapshot_pending, temp>>
  BY Zenon DEF TakeDelta, snapshotVars, diskVars
<1>2. /\ UNCHANGED <<main, next_block, issued, acked, opened, stopping, worker,
                     worker_batch, policy, rewriting, rewrite_failed, pending, writing,
                     syncing, dirty, healthy, file, shadow>>
      /\ FileInv' /\ ShadowInv'
  BY <1>1, RewriterFrame
<1>3. \/ UNCHANGED <<rewriter, rewriter_batch, rewrite_pending>>
      \/ rewriter' = "abort" /\ UNCHANGED <<rewriter_batch, rewrite_pending>>
      \/ /\ rewriter' = "write_delta" /\ rewriter_batch' = rewrite_pending
         /\ rewrite_pending' = <<>>
  BY DEF TakeDelta, LeaveLoop, rewriterVars, deltaVars
<1>4. /\ rewriter' \in {"delta", "abort", "write_delta"}
      /\ rewriter_batch' \in Seq(Nat) /\ rewrite_pending' \in Seq(Nat)
  BY <1>1, <1>3, CountsEmpty, ZenonT(30) DEF KindInv
<1>5. KindInv'
  BY <1>1, <1>2, <1>4, SMTT(20) DEF KindInv
<1>6. FlagInv' /\ SwapInv'
  BY <1>1, <1>2, <1>4, SMTT(30) DEF FlagInv, SwapInv
<1>7. CASE rewriter' = "abort"
  BY <1>2, <1>5, <1>6, <1>7, Abandoned, SMTT(30) DEF Promising
<1>8. CASE UNCHANGED <<rewriter, rewriter_batch, rewrite_pending>>
  BY <1>1, <1>2, <1>5, <1>6, <1>8, DeltaFrame, BlockFrame, SMTT(30)
<1>9. CASE /\ rewriter' = "write_delta" /\ rewriter_batch' = rewrite_pending
           /\ rewrite_pending' = <<>>
  <2>1. /\ Promising' => Promising
        /\ DeltaLength = 0 /\ DeltaLength' = Len(rewrite_pending)
        /\ BlockLength = 0 /\ BlockLength' = 0 /\ Len(rewrite_pending') = 0
    BY <1>1, <1>2, <1>9, CountsEmpty, SMTT(30) DEF Promising, DeltaLength, BlockLength
  <2>2. Reaches(temp) \in Nat /\ Len(rewrite_pending) \in Nat
    BY KindFacts, Zenon
  <2>3. DeltaInv'
    BY <1>1, <1>2, <1>9, <2>1, <2>2, CountsEmpty, SMTT(20) DEF DeltaInv
  <2>4. BlockInv'
    BY <1>1, <1>2, <1>9, <2>1, ZenonT(20) DEF BlockInv, Produced
  <2> QED
    BY <1>2, <1>5, <1>6, <2>3, <2>4, SMTT(30)
<1> QED
  BY <1>3, <1>7, <1>8, <1>9

-----------------------------------------------------------------------------
(* The end of a rewrite.                                                   *)
LEMMA NoFileIsFile == NoFile \in LogFile
BY CountsEmpty DEF NoFile, LogFile

(* A rewrite that ends, with a failed log or a healthy one.                *)
LEMMA RewriteOver ==
    ASSUME KindInv, FlagInv, rewriter # "none",
           \E status, error : FinishRewriteLocked(status, error),
           rewriter' = "none", temp' \in LogFile,
           UNCHANGED <<main, next_block, issued, acked, opened, stopping, worker,
                       worker_batch, policy, rewriter_batch>>,
           dirty' \in BOOLEAN, file' \in LogFile,
           \/ UNCHANGED <<healthy, pending, writing, syncing>>
           \/ /\ healthy' = FALSE /\ pending' = <<>> /\ writing' = FALSE /\ syncing' = FALSE
    PROVE  KindInv' /\ FlagInv' /\ SwapInv' /\ DeltaInv' /\ BlockInv'
<1>1. /\ snapshot_pending' = <<>> /\ rewrite_pending' = <<>> /\ snapshot_complete' = FALSE
      /\ rewriting' = FALSE /\ rewrite_failed' \in BOOLEAN
  BY DEF FinishRewriteLocked
<1>2. /\ healthy' \in BOOLEAN /\ writing' \in BOOLEAN /\ syncing' \in BOOLEAN
      /\ pending' \in Seq(Nat)
  BY CountsEmpty, Zenon DEF KindInv
<1>3. KindInv'
  BY <1>1, <1>2, CountsEmpty, ZenonT(30) DEF KindInv
<1>4. FlagInv'
  BY <1>1 DEF FlagInv
<1>5. SwapInv' /\ ~Promising'
  BY DEF SwapInv, Promising
<1> QED
  BY <1>3, <1>4, <1>5, Abandoned, SMTT(30)

(* A rewrite that gives up keeps IInv.                                     *)
LEMMA AbortRewriteStep == ASSUME IInv, AbortRewrite PROVE IInv'
<1> USE DEF IInv
<1>1. /\ rewriter = "abort" /\ temp' = NoFile /\ FinishRewriteLocked("failed", rewriter_error)
      /\ rewriter' = "none"
      /\ UNCHANGED <<main, next_block, issued, acked, opened, stopping, worker,
                     worker_batch, policy, rewriter_batch, file, dirty, healthy, pending,
                     writing, syncing, shadow>>
  BY ZenonT(20) DEF AbortRewrite, ThreadEnds, RewriterLeaves, callerVars, workerVars, fixedVars, queueVars, ioVars
<1>2. KindInv' /\ FlagInv' /\ SwapInv' /\ DeltaInv' /\ BlockInv'
  BY <1>1, RewriteOver, NoFileIsFile DEF KindInv
<1>3. FileInv'
  BY <1>1, FileFrame, SMTT(20)
<1>4. ShadowInv'
  BY <1>1, Zenon DEF ShadowInv, SoundLog
<1> QED
  BY <1>2, <1>3, <1>4, SMTT(30)

(* The sync of the temporary file keeps IInv: the worker is idle and the   *)
(* delta empty.                                                            *)
LEMMA SyncTempStep == ASSUME IInv, SyncTemp PROVE IInv'
<1> USE DEF IInv
<1>1. /\ rewriter = "delta" /\ DeltaDrained /\ WriterIdle
      /\ UNCHANGED <<main, next_block, issued, acked, opened, stopping, worker,
                     worker_batch, policy, rewriter_batch, file, dirty, healthy, pending,
                     writing, syncing, shadow>>
  BY DEF SyncTemp, RewriterLeaves, callerVars, workerVars, fixedVars, queueVars, ioVars
<1>2. FileInv'
  BY <1>1, FileFrame
<1>3. CASE temp' = Synced(temp) /\ rewriter' = "rename"
           /\ UNCHANGED <<rewriteVars, snapshotVars, deltaVars>>
  <2>1. UNCHANGED <<rewriting, rewrite_failed, snapshot_complete, snapshot_pending,
                    rewrite_pending>>
    BY <1>3 DEF rewriteVars, snapshotVars, deltaVars
  <2>2. /\ healthy /\ ~rewrite_failed /\ rewrite_pending = <<>>
        /\ ~writing /\ ~syncing /\ pending = <<>>
    BY <1>1, SMTT(30) DEF DeltaDrained, WriterIdle
  <2>3. worker \in {"loop", "done"}
    BY <2>2 DEF FlagInv, KindInv
  <2>4. Promising /\ Promising'
    BY <1>1, <1>3, <2>1, <2>2, SMTT(30) DEF Promising
  <2>5. /\ temp' \in LogFile /\ temp'.base = temp.base /\ temp'.blocks = temp.blocks
        /\ temp'.records = temp.records /\ Reaches(temp') = Reaches(temp)
        /\ temp'.lost = temp.lost /\ temp'.synced = Len(temp'.records)
    BY <1>3, SyncedFields, ZenonT(20) DEF KindInv
  <2>6. KindInv'
    BY <1>1, <1>3, <2>1, <2>5, ZenonT(20) DEF KindInv
  <2>7. FlagInv'
    BY <1>1, <1>3, <2>1, ZenonT(20) DEF FlagInv
  <2>8. SwapInv'
    BY <1>1, <1>3, <2>1, <2>2, <2>3, <2>4, <2>5, ZenonT(20) DEF SwapInv, BlockInv
  <2>9. DeltaLength' = DeltaLength /\ BlockLength' = BlockLength /\ Produced' = Produced
    BY <1>1, <1>3, <2>1, <2>5, ZenonT(20) DEF DeltaLength, BlockLength, Produced
  <2>10. DeltaInv'
    BY <1>1, <1>3, <2>1, <2>4, <2>5, <2>9, ZenonT(20) DEF DeltaInv
  <2>11. BlockInv'
    BY <1>1, <1>3, <2>1, <2>4, <2>5, <2>9, ZenonT(20) DEF BlockInv
  <2>12. ShadowInv'
    BY <1>1, <1>3 DEF ShadowInv, SoundLog
  <2> QED
    BY <1>2, <2>6, <2>7, <2>8, <2>10, <2>11, <2>12, SMTT(30)
<1>4. CASE (\E error \in {"write", "sync"} : RewriteFails(error)) /\ temp' = NoFile
  <2>1. (\E status, error : FinishRewriteLocked(status, error)) /\ rewriter' = "none"
    BY <1>4, ZenonT(30) DEF RewriteFails, ThreadEnds
  <2>2. KindInv' /\ FlagInv' /\ SwapInv' /\ DeltaInv' /\ BlockInv'
    BY <1>1, <1>4, <2>1, RewriteOver, NoFileIsFile, SMTT(20) DEF KindInv
  <2>3. ShadowInv'
    BY <1>1, <2>1, ZenonT(30) DEF ShadowInv, SoundLog
  <2> QED
    BY <1>2, <2>2, <2>3
<1> QED
  BY <1>3, <1>4, SMTT(30) DEF SyncTemp

(* What the temporary file is when it takes the log's place: it ends with  *)
(* the same command, and lacks only the blocks of the snapshot that a      *)
(* shutdown left in the queue.                                             *)
LEMMA TempIsSound ==
    ASSUME IInv, rewriter = "rename"
    PROVE  /\ temp \in LogFile /\ Counts(temp.blocks, 0) /\ temp.lost <= temp.base
           /\ Counts(snapshot_pending, Len(temp.blocks))
           /\ Len(temp.blocks) + Len(snapshot_pending) = SnapshotLength(temp.base)
           /\ Len(temp.blocks) <= SnapshotLength(temp.base)
           /\ snapshot_pending = <<>> \/ stopping
           /\ CutShort(temp) => stopping
           /\ Counts(temp.records, temp.base) /\ Reaches(temp) = issued
           /\ Reaches(file) = issued /\ worker_batch = <<>> /\ pending = <<>>
           /\ healthy /\ worker \in {"loop", "done"} /\ temp.synced = Len(temp.records)
<1> USE DEF IInv
<1>1. /\ healthy /\ ~rewrite_failed /\ worker \in {"loop", "done"} /\ pending = <<>>
      /\ rewrite_pending = <<>> /\ worker_batch = <<>> /\ Promising
      /\ temp.synced = Len(temp.records)
  BY DEF SwapInv, FlagInv, Promising
<1>2. /\ Len(pending) = 0 /\ Len(worker_batch) = 0 /\ Len(rewrite_pending) = 0
  BY <1>1, CountsEmpty, SMTT(30)
<1>3. /\ Reaches(temp) \in Nat /\ Reaches(file) \in Nat /\ Len(temp.blocks) \in Nat
      /\ Len(snapshot_pending) \in Nat
  BY KindFacts, Zenon
<1>4. /\ Counts(temp.records, temp.base) /\ Reaches(temp) = issued /\ Reaches(file) = issued
      /\ temp.lost <= temp.base
  <2>1. /\ Counts(temp.records, temp.base) /\ temp.lost <= temp.base /\ DeltaLength = 0
        /\ issued = Reaches(temp) + DeltaLength + Len(rewrite_pending)
        /\ issued = Reaches(file) + Len(worker_batch) + Len(pending)
    BY <1>1, ZenonT(20) DEF DeltaInv, DeltaLength, FileInv
  <2> QED
    BY <1>2, <1>3, <2>1
<1>5. /\ snapshot_pending = <<>> \/ stopping
      /\ Counts(temp.blocks, 0) /\ BlockLength = 0
      /\ Counts(snapshot_pending, Len(temp.blocks) + BlockLength)
      /\ SnapshotLength(temp.base) = Len(temp.blocks) + BlockLength + Len(snapshot_pending)
  BY <1>1, ZenonT(20) DEF BlockInv, BlockLength, Produced
<1>6. /\ Len(temp.blocks) + BlockLength = Len(temp.blocks)
      /\ Len(temp.blocks) + Len(snapshot_pending) = SnapshotLength(temp.base)
      /\ Len(temp.blocks) <= SnapshotLength(temp.base)
      /\ Len(temp.blocks) < SnapshotLength(temp.base) => Len(snapshot_pending) # 0
  BY <1>3, <1>5
<1>7. Counts(snapshot_pending, Len(temp.blocks)) /\ (CutShort(temp) => stopping)
  BY <1>5, <1>6, CountsEmpty, Zenon DEF CutShort
<1>8. temp \in LogFile
  BY Zenon DEF KindInv
<1> QED
  BY <1>1, <1>4, <1>5, <1>6, <1>7, <1>8, Zenon

(* The rename keeps IInv: the file that replaces the log reaches as far.   *)
LEMMA RenameStep == ASSUME IInv, Rename PROVE IInv'
<1> USE DEF IInv
<1>1. /\ rewriter = "rename" /\ temp' = NoFile
      /\ UNCHANGED <<main, next_block, issued, acked, opened, stopping, worker,
                     worker_batch, policy, rewriter_batch, healthy, pending,
                     writing, syncing>>
  BY DEF Rename, RewriterLeaves, callerVars, workerVars, fixedVars, queueVars
<1>2. CASE /\ file' = temp /\ shadow' = {file} /\ dirty' = FALSE /\ rewriter' = "dirsync"
           /\ UNCHANGED <<rewriteVars, snapshotVars, deltaVars>>
  <2>1. UNCHANGED <<rewriting, rewrite_failed, snapshot_complete, snapshot_pending,
                    rewrite_pending>>
    BY <1>2, ZenonT(20) DEF rewriteVars, snapshotVars, deltaVars
  <2>2. /\ temp \in LogFile /\ Counts(temp.blocks, 0) /\ temp.lost <= temp.base
        /\ Len(temp.blocks) <= SnapshotLength(temp.base)
        /\ Counts(temp.records, temp.base) /\ Reaches(temp) = issued
        /\ Reaches(file) = issued /\ worker_batch = <<>> /\ pending = <<>>
        /\ temp.synced = Len(temp.records) /\ Len(temp.records) \in Nat /\ issued \in Nat
    BY <1>1, TempIsSound, FileFields, ZenonT(20) DEF KindInv
  <2>3. FileInv'
    BY <1>1, <1>2, <2>2, CountsEmpty, ZenonT(20) DEF FileInv
  <2>4. SoundLog(file) /\ SoundLog(temp)
    <3>1. SoundLog(file)
      BY Zenon DEF ShadowInv
    <3>2. temp.synced <= Len(temp.records) /\ Reaches(temp) <= issued
      BY <2>2
    <3> QED
      BY <2>2, <3>1, <3>2, Zenon DEF SoundLog
  <2>5. ASSUME NEW f, SoundLog(f) PROVE SoundLog(f)'
    BY <1>1, <2>5, SMTT(30) DEF SoundLog
  <2>6. ShadowInv'
    BY <1>2, <2>4, <2>5 DEF ShadowInv
  <2>7. KindInv'
    BY <1>1, <1>2, <2>1, <2>2, NoFileIsFile, ZenonT(30) DEF KindInv
  <2>8. FlagInv' /\ SwapInv'
    BY <1>1, <1>2, <2>1 DEF FlagInv, SwapInv
  <2>9. DeltaInv' /\ BlockInv'
    BY <1>2, Abandoned, SMTT(30) DEF Promising
  <2> QED
    BY <2>3, <2>6, <2>7, <2>8, <2>9
<1>3. CASE RewriteFails("rename") /\ UNCHANGED <<file, shadow, dirty>>
  <2>1. (\E status, error : FinishRewriteLocked(status, error)) /\ rewriter' = "none"
    BY <1>3, ZenonT(30) DEF RewriteFails, ThreadEnds
  <2>2. KindInv' /\ FlagInv' /\ SwapInv' /\ DeltaInv' /\ BlockInv'
    BY <1>1, <1>3, <2>1, RewriteOver, NoFileIsFile, ZenonT(20) DEF KindInv
  <2>3. FileInv'
    BY <1>1, <1>3, FileFrame
  <2>4. ShadowInv'
    BY <1>1, <1>3, <2>1, ZenonT(30) DEF ShadowInv, SoundLog
  <2> QED
    BY <2>2, <2>3, <2>4
<1> QED
  BY <1>2, <1>3, ZenonT(30) DEF Rename

(* The sync of the directory keeps IInv, also when it fails the log.       *)
LEMMA SyncParentDirectoryStep == ASSUME IInv, SyncParentDirectory PROVE IInv'
<1> USE DEF IInv
<1>1. /\ rewriter = "dirsync" /\ rewriter' = "none"
      /\ \E status, error : FinishRewriteLocked(status, error)
      /\ UNCHANGED <<main, next_block, issued, acked, opened, stopping, worker,
                     worker_batch, policy, rewriter_batch, file, temp>>
  BY SMTT(30) DEF SyncParentDirectory, RewriteFails, ThreadEnds, RewriterLeaves, callerVars, workerVars, fixedVars
<1>2. \/ shadow' = {} /\ UNCHANGED <<healthy, pending, writing, syncing, dirty>>
      \/ /\ healthy' = FALSE /\ pending' = <<>> /\ writing' = FALSE /\ syncing' = FALSE
         /\ dirty' = FALSE /\ shadow' = shadow
  BY DEF SyncParentDirectory, FailLocked, queueVars, ioVars
<1>3. temp' \in LogFile /\ file' \in LogFile /\ dirty' \in BOOLEAN
  BY <1>1, <1>2, Zenon DEF KindInv
<1>4. KindInv' /\ FlagInv' /\ SwapInv' /\ DeltaInv' /\ BlockInv'
  BY <1>1, <1>2, <1>3, RewriteOver, ZenonT(30)
<1>5. pending = <<>>
  BY <1>1, ZenonT(20) DEF SwapInv
<1>6. FileInv'
  <2>1. CASE UNCHANGED <<healthy, pending>>
    BY <1>1, <2>1, FileFrame, Zenon
  <2>2. CASE healthy' = FALSE /\ pending' = <<>>
    BY <1>1, <2>2, QueueDropped, Zenon
  <2> QED
    BY <1>2, <2>1, <2>2, Zenon
<1>7. ASSUME NEW f \in {file} \cup shadow PROVE SoundLog(f)'
  <2>1. SoundLog(f)
    BY <1>7, Zenon DEF ShadowInv
  <2> QED
    BY <1>1, <2>1, Zenon DEF SoundLog
<1>8. ShadowInv'
  BY <1>1, <1>2, <1>7 DEF ShadowInv
<1> QED
  BY <1>4, <1>6, <1>8

-----------------------------------------------------------------------------
(* A log whose object was just made and that holds what the file holds.    *)
Fresh ==
    /\ main = "ready" /\ next_block = 1
    /\ issued = Reaches(file) /\ acked = Reaches(file) /\ opened = Reaches(file)
    /\ healthy = TRUE /\ stopping = FALSE
    /\ pending = <<>> /\ writing = FALSE /\ syncing = FALSE /\ dirty = FALSE
    /\ rewriting = FALSE /\ rewrite_failed = FALSE /\ snapshot_complete = FALSE
    /\ snapshot_pending = <<>> /\ rewrite_pending = <<>>
    /\ worker = (IF policy = "always" THEN "done" ELSE "loop") /\ worker_batch = <<>>
    /\ rewriter = "none" /\ rewriter_batch = <<>>
    /\ temp = NoFile /\ shadow = {}

(* A log that was just opened on a sound file satisfies IInv.              *)
LEMMA FreshIsFine ==
    ASSUME Fresh, SoundLog(file), issued \in 0..MaxAppends PROVE IInv
<1>1. file \in LogFile /\ Reaches(file) \in Nat /\ issued \in Nat
  BY FileFields DEF SoundLog, Fresh
<1>2. worker \in {"loop", "done"}
  BY Zenon DEF Fresh
<1>3. KindInv
  BY <1>1, <1>2, NoFileIsFile, CountsEmpty, ZenonT(30) DEF Fresh, KindInv
<1>4. FlagInv
  BY <1>2, Zenon DEF Fresh, FlagInv
<1>5. SwapInv /\ ~Promising
  BY ZenonT(20) DEF Fresh, SwapInv, Promising
<1>6. FileInv
  <2>1. /\ pending = <<>> /\ worker_batch = <<>> /\ issued = Reaches(file)
        /\ Counts(file.records, file.base)
    BY Zenon DEF Fresh, SoundLog
  <2>2. /\ Len(pending) = 0 /\ Len(worker_batch) = 0
        /\ Counts(worker_batch, Reaches(file))
        /\ Counts(pending, Reaches(file) + Len(worker_batch))
    BY <2>1, CountsEmpty, Zenon
  <2>3. Reaches(file) + 0 + 0 = Reaches(file) /\ Reaches(file) <= Reaches(file)
    BY <1>1
  <2>4. /\ Reaches(file) + Len(worker_batch) + Len(pending) <= issued
        /\ issued = Reaches(file) + Len(worker_batch) + Len(pending)
    BY <2>1, <2>2, <2>3, Zenon
  <2> QED
    BY <2>1, <2>2, <2>4, Zenon DEF FileInv
<1>7. DeltaInv /\ BlockInv
  BY <1>5, SMTT(30) DEF DeltaInv, BlockInv
<1>8. ShadowInv
  BY DEF Fresh, ShadowInv
<1> QED
  BY <1>3, <1>4, <1>5, <1>6, <1>7, <1>8, ZenonT(20) DEF IInv

(* The first start opens an empty file.                                    *)
LEMMA InitIsFresh ==
    ASSUME Init PROVE Fresh /\ SoundLog(file) /\ issued \in 0..MaxAppends
<1>1. /\ file.base = 0 /\ file.blocks = <<>> /\ file.records = <<>> /\ file.synced = 0
      /\ file.lost = 0 /\ file \in LogFile
  BY NoFileIsFile, SMTT(30) DEF Init, NoFile
<1>2. Reaches(file) = 0 /\ issued = 0
  BY <1>1, CountsEmpty, SMTT(30) DEF Reaches, Init
<1>3. SoundLog(file)
  <2>1. SnapshotLength(0) = 0 /\ 0 <= 0
    BY DEF SnapshotLength
  <2> QED
    BY <1>1, <1>2, <2>1, CountsEmpty, Zenon DEF SoundLog
<1>4. Fresh
  BY <1>2 DEF Init, Fresh
<1>5. 0 \in 0..MaxAppends
  BY AofAssumption DEF AofAssumption
<1> QED
  BY <1>2, <1>3, <1>4, <1>5, Zenon

(* Init implies IInv.                                                      *)
LEMMA InitIInv == Init => IInv
BY InitIsFresh, FreshIsFine

(* What a crash leaves is a sound log again, of commands that were issued. *)
LEMMA SurvivorIsSound ==
    ASSUME IInv, NEW f \in AfterPowerLoss \cup AfterExit
    PROVE  SoundLog(f)
<1> USE DEF IInv
<1>1. issued \in Nat
  BY KindFacts, Zenon
<1>2. CASE f \in AfterPowerLoss
  <2>1. PICK g \in {file} \cup shadow : \E n \in g.synced..Len(g.records) : f = Kept(g, n)
    BY <1>2, Zenon DEF AfterPowerLoss
  <2>2. PICK n \in g.synced..Len(g.records) : f = Kept(g, n)
    BY <2>1
  <2>3. SoundLog(g)
    BY ZenonT(20) DEF ShadowInv
  <2>4. /\ g \in LogFile /\ g.base \in Nat /\ g.synced \in Nat /\ Len(g.records) \in Nat
        /\ Counts(g.records, g.base)
    BY <2>3, FileFields DEF SoundLog
  <2>5. n \in 0..Len(g.records) /\ n \in Nat /\ n <= Len(g.records)
    BY <2>4, SMTT(30)
  <2>6. /\ f \in LogFile /\ f.base = g.base /\ f.blocks = g.blocks /\ f.synced = n
        /\ f.lost = g.lost
        /\ Len(f.records) = n /\ Counts(f.records, g.base) /\ Reaches(f) = g.base + n
    BY <2>2, <2>4, <2>5, KeptFields, ZenonT(20)
  <2>7. Reaches(f) <= issued
    BY <1>1, <2>3, <2>4, <2>5, <2>6 DEF SoundLog, Reaches
  <2> QED
    BY <2>3, <2>5, <2>6, <2>7 DEF SoundLog
<1>3. CASE f \in AfterExit
  <2>1. SoundLog(file) /\ file \in LogFile /\ Len(file.records) \in Nat
    BY FileFields, ZenonT(20) DEF ShadowInv, SoundLog
  <2>2. CASE f = Synced(file)
    <3>1. /\ f \in LogFile /\ f.base = file.base /\ f.blocks = file.blocks
          /\ f.records = file.records /\ f.synced = Len(file.records) /\ f.lost = file.lost
          /\ Reaches(f) = Reaches(file)
      BY <2>1, <2>2, SyncedFields
    <3> QED
      BY <2>1, <3>1 DEF SoundLog
  <2> QED
    BY <1>3, <2>1, <2>2, ZenonT(20) DEF AfterExit
<1> QED
  BY <1>2, <1>3, Zenon

(* A restart opens what the crash left.                                    *)
LEMMA OpenIsFresh ==
    ASSUME IInv, Open PROVE (Fresh /\ SoundLog(file) /\ issued \in 0..MaxAppends)'
<1>1. PICK f \in AfterPowerLoss \cup AfterExit : OpenFile(f)
  BY Zenon DEF Open
<1>2. SoundLog(f) /\ issued \in 0..MaxAppends
  BY SurvivorIsSound, Zenon DEF IInv, KindInv
<1>3. file' = f /\ issued' = Reaches(f) /\ Reaches(f) \in Nat
  <2>1. file' = f /\ issued' = Reaches(f)
    BY <1>1, Zenon DEF OpenFile
  <2>2. f \in LogFile
    BY <1>2, Zenon DEF SoundLog
  <2> QED
    BY <2>1, <2>2, FileFields, Zenon
<1>4. SoundLog(file)' /\ issued' \in 0..MaxAppends
  <2>1. Reaches(f) <= issued
    BY <1>2, Zenon DEF SoundLog
  <2>2. Reaches(f) \in 0..MaxAppends /\ Reaches(f) <= Reaches(f)
    BY <1>2, <1>3, <2>1, AofAssumption DEF AofAssumption
  <2> QED
    BY <1>2, <1>3, <2>2, Zenon DEF SoundLog
<1>5. Fresh'
  BY <1>1 DEF OpenFile, Fresh
<1> QED
  BY <1>4, <1>5

(* A crash and the restart after it keep IInv.                             *)
LEMMA OpenStep == ASSUME IInv, Open PROVE IInv'
<1>1. (Fresh /\ SoundLog(file) /\ issued \in 0..MaxAppends => IInv)'
  BY FreshIsFine, PTL
<1> QED
  BY <1>1, OpenIsFresh

-----------------------------------------------------------------------------
(* Every step of the callers, the two threads and a restart keeps IInv.    *)
LEMMA StepIInv == IInv /\ [Next]_vars => IInv'
<1> SUFFICES ASSUME IInv, [Next]_vars PROVE IInv'
  OBVIOUS
<1>1. CASE UNCHANGED vars
  <2>1. UNCHANGED <<main, next_block, issued, acked, opened, pending, writing, syncing, dirty,
                    healthy, stopping, rewriting, rewrite_failed, snapshot_complete,
                    snapshot_pending, rewrite_pending, worker, worker_batch, rewriter,
                    rewriter_batch, file, temp, shadow, policy>>
    BY <1>1, ZenonT(20) DEF vars, callerVars, queueVars, ioVars, healthVars, rewriteVars, snapshotVars,
                deltaVars, workerVars, rewriterVars, diskVars, fixedVars
  <2>2. FileInv' /\ DeltaInv' /\ BlockInv' /\ ShadowInv'
    BY <2>1, FileFrame, DeltaFrame, BlockFrame, ShadowSame, ZenonT(20) DEF IInv
  <2>3. KindInv' /\ FlagInv' /\ SwapInv'
    BY <2>1, SMTT(30) DEF IInv, KindInv, FlagInv, SwapInv
  <2> QED
    BY <2>2, <2>3, ZenonT(20) DEF IInv
<1>2. CASE Main
  BY SMTT(30), <1>2, StartRewriteStep, CreateTempStep, QueueSnapshotBlockStep, BuildSnapshotStep,
     FinishSnapshotStep, WaitUntilRewriteIdleStep, DestroyStep DEF Main
<1>3. CASE Run
  BY SMTT(30), <1>3, WorkerWaitStep, BeginWriteStep, WorkerWriteStep, WorkerWroteStep, WorkerSyncStep,
     WorkerSyncedStep DEF Run
<1>4. CASE RunRewrite
  BY SMTT(30), <1>4, TakeSnapshotStep, RewriterWriteStep, TakeDeltaStep, SyncTempStep, RenameStep,
     SyncParentDirectoryStep, AbortRewriteStep DEF RunRewrite
<1> QED
  BY <1>1, <1>2, <1>3, <1>4, AppendAlwaysStep, AppendQueuedStep, OpenStep, SMTT(30) DEF Next, Closed

(* IInv holds in every reachable state, for every policy, size and limit.  *)
THEOREM Invariant == Spec => []IInv
<1> QED
  BY InitIInv, StepIInv, PTL DEF Spec

(* fd_ is replaced and closed only when the worker has no system call on   *)
(* it, although FailLocked clears the flags that say so.                   *)
THEOREM SwapIsSafe == Spec => []NoSwapDuringIO
<1>1. IInv => NoSwapDuringIO
  BY DEF IInv, SwapInv, FlagInv, NoSwapDuringIO
<1> QED
  BY <1>1, Invariant, PTL

(* No wakeup is lost: no thread sleeps on work_available_ or               *)
(* rewrite_state_changed_ while what it waits for is true, however the     *)
(* steps of the three threads interleave.                                  *)
THEOREM WakeupsAreKept == Spec => []NoLostWakeup
<1>1. Init => WakeInv
  BY DEF Init, WakeInv, NoLostWakeup
<1>2. IInv /\ WakeInv /\ [Next]_vars => WakeInv'
  BY StepWakes
<1>3. WakeInv => NoLostWakeup
  BY DEF WakeInv
<1> QED
  BY <1>1, <1>2, <1>3, Invariant, PTL DEF Spec

-----------------------------------------------------------------------------

(* A healthy log has acknowledged all that it was given.                   *)
AckInv ==
    /\ acked <= issued
    /\ healthy => acked = issued

(* dirty_ is set whenever something was written and not synced.            *)
SyncInv ==
    /\ policy = "always" => ~dirty
    /\ healthy /\ ~dirty /\ worker # "write" =>
          file.synced = Len(file.records) \/ Reaches(file) <= opened
    /\ worker = "synced" => file.synced = Len(file.records)
    /\ healthy /\ worker = "sync" => dirty

(* The destructor's joins, and what a worker that returned has done.       *)
JoinInv ==
    /\ main \in {"join_rewriter", "join_worker", "closed"} => stopping
    /\ main \in {"join_worker", "closed"} => rewriter = "none"
    /\ main = "closed" => worker = "done"
    /\ policy # "always" /\ healthy /\ worker = "done" => pending = <<>> /\ ~dirty /\ stopping

Covers(n) == \A f \in {file} \cup shadow : n <= f.base + f.synced

(* Under "always" what was acknowledged is synced.                         *)
CoverInv == policy = "always" /\ acked > opened => Covers(acked)

(* From mkstemp to the rename. *)
Writes(thread) == thread \in {"snapshot", "write_snapshot", "delta", "write_delta", "rename"}

(* What may be lost was lost before Open, or is lost by this shutdown.     *)
LostInv ==
    /\ \A f \in {file} \cup shadow :
          f.lost <= opened /\ (CutShort(f) => f.base <= opened \/ stopping)
    /\ Writes(rewriter) => temp.lost = Lost(file) /\ temp.lost <= opened

DInv == IInv /\ AckInv /\ SyncInv /\ JoinInv /\ CoverInv /\ LostInv

(* Two files with the same snapshot, of the same history. *)
SameBase(f, g) == g.base = f.base /\ g.lost = f.lost /\ g.blocks = f.blocks

(* They may have lost the same commands.                                   *)
LEMMA SameBaseSameLoss ==
    ASSUME NEW f, NEW g, SameBase(f, g)
    PROVE  Lost(g) = Lost(f) /\ (CutShort(g) => CutShort(f))
BY Zenon DEF SameBase, Lost, CutShort

(* A step that replaces no snapshot loses nothing.                         *)
LEMMA LostFrame ==
    ASSUME LostInv, SameBase(file, file'), shadow' \subseteq shadow, opened' = opened,
           stopping => stopping',
           Writes(rewriter)' => Writes(rewriter) /\ temp'.lost = temp.lost
    PROVE  LostInv'
<1>1. Lost(file') = Lost(file) /\ file'.base = file.base /\ file'.lost = file.lost
      /\ (CutShort(file') => CutShort(file))
  BY SameBaseSameLoss, Zenon DEF SameBase
<1>2. /\ file.lost <= opened /\ (CutShort(file) => file.base <= opened \/ stopping)
      /\ \A f \in shadow : f.lost <= opened /\ (CutShort(f) => f.base <= opened \/ stopping)
  BY Zenon DEF LostInv
<1>3. \A f \in {file'} \cup shadow' :
        f.lost <= opened' /\ (CutShort(f) => f.base <= opened' \/ stopping')
  BY <1>1, <1>2, Zenon
<1>4. Writes(rewriter)' => temp'.lost = Lost(file') /\ temp'.lost <= opened'
  BY <1>1, Zenon DEF LostInv
<1> QED
  BY <1>3, <1>4, Zenon DEF LostInv

(* A command of the "always" policy is written and synced, or the log      *)
(* fails without acknowledging it.                                         *)
LEMMA AppendAlwaysEffect ==
    ASSUME DInv, AppendAlways
    PROVE  /\ policy = "always" /\ healthy /\ shadow = {} /\ shadow' = {}
           /\ issued \in Nat /\ issued < MaxAppends /\ issued' = issued + 1
           /\ UNCHANGED <<policy, main, stopping, opened, worker, rewriter, rewriting, temp>>
           /\ ~stopping /\ file' \in LogFile /\ SameBase(file, file')
           /\ \/ /\ acked' = issued' /\ healthy' = healthy /\ dirty' = dirty
                 /\ file'.synced = Len(file'.records) /\ Reaches(file') = issued'
              \/ /\ ~healthy' /\ acked' = acked /\ ~dirty'
                 /\ file'.synced = file.synced
<1>1. /\ policy = "always" /\ CanAppend /\ issued' = issued + 1 /\ AppendLeaves
  BY DEF AppendAlways
<1>2. /\ issued \in Nat /\ issued + 1 \in Nat /\ issued < MaxAppends
      /\ healthy /\ shadow = {} /\ file \in LogFile /\ Counts(file.records, file.base)
  BY <1>1, AppendSetting DEF DInv, CanAppend
<1>3. UNCHANGED <<policy, main, stopping, opened, worker, rewriter, rewriting, temp, shadow>>
  BY <1>1, ZenonT(30) DEF AppendLeaves, workerVars, rewriterVars, fixedVars
<1>4. Reaches(file) = issued
  <2>1. /\ worker_batch = <<>> /\ pending = <<>>
        /\ issued = Reaches(file) + Len(worker_batch) + Len(pending)
    BY <1>1, <1>2, ZenonT(20) DEF DInv, IInv, FlagInv, FileInv
  <2>2. Len(worker_batch) = 0 /\ Len(pending) = 0 /\ Reaches(file) \in Nat
    BY <2>1, CountsEmpty, KindFacts, Zenon DEF DInv, IInv
  <2> QED
    BY <2>1, <2>2
<1> DEFINE g == WithRecord(file, issued + 1)
<1>5. /\ g \in LogFile /\ SameBase(file, g) /\ g.synced = file.synced
      /\ Reaches(g) = issued + 1 /\ SameBase(file, file)
  BY <1>2, <1>4, WithRecordFields DEF SameBase
<1>6. /\ Synced(g) \in LogFile /\ SameBase(file, Synced(g))
      /\ Synced(g).synced = Len(Synced(g).records) /\ Reaches(Synced(g)) = issued + 1
  <2> HIDE DEF g
  <2> QED
    BY <1>5, SyncedFields DEF SameBase
<1>7. \/ file' = Synced(g) /\ acked' = issued + 1 /\ healthy' = healthy /\ dirty' = dirty
      \/ ~healthy' /\ acked' = acked /\ ~dirty' /\ file' \in {file, g}
  BY ZenonT(20) DEF AppendAlways, FailLocked, ioVars
<1>8. ~stopping
  BY <1>1 DEF CanAppend
<1> HIDE DEF g
<1> QED
  BY <1>1, <1>2, <1>3, <1>5, <1>6, <1>7, <1>8, ZenonT(30)

(* Append under "always" keeps the durability invariants.                  *)
LEMMA AppendAlwaysDurable ==
    ASSUME DInv, AppendAlways PROVE AckInv' /\ SyncInv' /\ JoinInv' /\ CoverInv' /\ LostInv'
<1> USE AppendAlwaysEffect
<1>1. /\ acked \in Nat /\ issued' \in Nat /\ file'.base \in Nat /\ file'.synced \in Nat
      /\ Len(file'.records) \in Nat
  <2>1. file' \in LogFile /\ issued \in Nat /\ issued' = issued + 1
    BY Zenon
  <2>2. issued' \in Nat
    BY <2>1
  <2>3. acked \in Nat
    BY Zenon DEF DInv, IInv, KindInv
  <2> QED
    BY <2>1, <2>2, <2>3, FileFields, Zenon
<1>2. AckInv'
  <2>1. acked <= issued
    BY Zenon DEF DInv, AckInv
  <2>2. issued \in Nat /\ issued' = issued + 1 /\ acked' \in {issued', acked}
        /\ (healthy' => acked' = issued')
    BY ZenonT(20)
  <2>3. acked' <= issued'
    BY <1>1, <2>1, <2>2
  <2> QED
    BY <2>2, <2>3, Zenon DEF AckInv
<1>3. SyncInv'
  BY DEF DInv, SyncInv, IInv, FlagInv
<1>4. JoinInv'
  BY DEF DInv, JoinInv
<1>5. CoverInv'
  <2>1. CASE acked' = issued' /\ file'.synced = Len(file'.records) /\ Reaches(file') = issued'
    BY <1>1, <2>1, SMTT(30) DEF CoverInv, Covers, Reaches
  <2>2. CASE acked' = acked /\ file'.synced = file.synced
    <3>1. file'.base = file.base
      BY Zenon DEF SameBase
    <3> QED
      BY <1>1, <2>2, <3>1, SMTT(30) DEF DInv, CoverInv, Covers
  <2> QED
    BY <2>1, <2>2, Zenon
<1>6. LostInv'
  <2>1. shadow' \subseteq shadow /\ rewriter' = rewriter /\ temp' = temp /\ opened' = opened
        /\ stopping' = stopping /\ SameBase(file, file')
    BY Zenon
  <2> QED
    BY <2>1, LostFrame, Zenon DEF DInv, Writes
<1> QED
  BY <1>2, <1>3, <1>4, <1>5, <1>6, ZenonT(20)

(* A command of the other policies is queued, or fails the log.            *)
LEMMA AppendQueuedEffect ==
    ASSUME DInv, AppendQueued
    PROVE  /\ policy # "always" /\ healthy
           /\ issued \in Nat /\ issued < MaxAppends /\ issued' = issued + 1
           /\ UNCHANGED <<policy, main, stopping, opened, worker, rewriter, rewriting, temp,
                          file, shadow>>
           /\ main = "ready" /\ ~stopping
           /\ \/ acked' = issued' /\ healthy' = healthy /\ dirty' = dirty
              \/ ~healthy' /\ acked' = acked
<1>1. /\ policy # "always" /\ CanAppend /\ issued' = issued + 1 /\ AppendLeaves /\ file' = file
  BY DEF AppendQueued
<1>2. issued \in Nat /\ issued < MaxAppends /\ healthy /\ main = "ready" /\ ~stopping
  BY <1>1, AppendSetting DEF DInv, CanAppend
<1>3. UNCHANGED <<policy, main, stopping, opened, worker, rewriter, rewriting, temp, shadow>>
  BY <1>1, Zenon DEF AppendLeaves, workerVars, rewriterVars, fixedVars
<1>4. \/ acked' = issued' /\ healthy' = healthy /\ dirty' = dirty
      \/ ~healthy' /\ acked' = acked
  BY DEF AppendQueued, FailLocked, ioVars
<1> QED
  BY <1>1, <1>2, <1>3, <1>4, ZenonT(30)

(* Append under the other policies keeps the durability invariants.        *)
LEMMA AppendQueuedDurable ==
    ASSUME DInv, AppendQueued PROVE AckInv' /\ SyncInv' /\ JoinInv' /\ CoverInv' /\ LostInv'
<1> USE AppendQueuedEffect
<1>1. acked \in Nat /\ issued' \in Nat
  BY DEF DInv, IInv, KindInv
<1>2. AckInv'
  BY <1>1 DEF DInv, AckInv
<1>3. SyncInv'
  BY DEF DInv, SyncInv
<1>4. JoinInv'
  BY DEF DInv, JoinInv
<1>5. CoverInv'
  BY SMTT(30) DEF CoverInv
<1>6. LostInv'
  BY LostFrame, Zenon DEF DInv, Writes, SameBase
<1> QED
  BY <1>2, <1>3, <1>4, <1>5, <1>6, ZenonT(20)

(* The rewrite's steps on the main thread touch neither log nor flags.     *)
LEMMA MainEffect ==
    ASSUME Main
    PROVE  UNCHANGED <<policy, issued, acked, opened, healthy, dirty, worker, pending, file, shadow>>
<1> USE DEF Main
<1>1. CASE StartRewrite
  BY <1>1, SMTT(30) DEF StartRewrite, queueVars, ioVars, workerVars, diskVars
<1>2. CASE CreateTemp
  BY <1>2 DEF CreateTemp, queueVars, ioVars, workerVars, fixedVars
<1>3. CASE QueueSnapshotBlock \/ BuildSnapshot \/ FinishSnapshot \/ WaitUntilRewriteIdle
  <2>1. ProducerLeaves
    BY <1>3, ZenonT(20) DEF QueueSnapshotBlock, BuildSnapshot, FinishSnapshot, WaitUntilRewriteIdle
  <2> QED
    BY <2>1, ZenonT(30) DEF ProducerLeaves, queueVars, ioVars, workerVars, diskVars, fixedVars
<1>4. CASE Destroy
  BY <1>4, ZenonT(20) DEF Destroy, queueVars, ioVars, workerVars, diskVars, fixedVars
<1> QED
  BY <1>1, <1>2, <1>3, <1>4, ZenonT(20)

(* The destructor leaves a join only when the thread it waits for is over. *)
LEMMA MainJoins == ASSUME DInv, Main PROVE JoinInv'
<1> USE DEF DInv, JoinInv
<1>1. UNCHANGED <<policy, healthy, dirty, worker, pending>>
  BY MainEffect, ZenonT(20)
<1>2. CASE StartRewrite
  BY <1>1, <1>2, SMTT(30) DEF StartRewrite, rewriterVars
<1>3. CASE CreateTemp
  BY <1>1, <1>3, SMTT(30) DEF CreateTemp
<1>4. CASE QueueSnapshotBlock \/ BuildSnapshot \/ FinishSnapshot \/ WaitUntilRewriteIdle
  <2>1. /\ main \in {"snapshot", "built", "unbuilt", "await"}
        /\ main' \in {"snapshot", "built", "unbuilt", "await", "ready"}
    BY <1>4, ZenonT(20) DEF QueueSnapshotBlock, BuildSnapshot, FinishSnapshot, WaitUntilRewriteIdle
  <2>2. ProducerLeaves
    BY <1>4, SMTT(30) DEF QueueSnapshotBlock, BuildSnapshot, FinishSnapshot, WaitUntilRewriteIdle
  <2>3. stopping' = stopping
    BY <2>2 DEF ProducerLeaves
  <2> QED
    BY <1>1, <2>1, <2>3, ZenonT(20)
<1>5. CASE Destroy
  <2>1. rewriter' = rewriter
    BY <1>5, ZenonT(20) DEF Destroy, rewriterVars
  <2>2. \/ main = "ready" /\ stopping' = TRUE /\ main' = "join_rewriter"
        \/ /\ main = "join_rewriter" /\ rewriter = "none" /\ main' = "join_worker"
           /\ stopping' = stopping
        \/ /\ main = "join_worker" /\ worker = "done" /\ main' = "closed"
           /\ stopping' = stopping
    BY <1>5, ZenonT(20) DEF Destroy
  <2> QED
    BY <1>1, <2>1, <2>2, ZenonT(20)
<1> QED
  BY <1>2, <1>3, <1>4, <1>5, SMTT(30) DEF Main

(* A rewrite starts on a log that has lost nothing since Open.             *)
LEMMA MainLoses == ASSUME DInv, Main PROVE LostInv'
<1>1. UNCHANGED <<opened, file, shadow>> /\ SameBase(file, file') /\ LostInv
  BY MainEffect, Zenon DEF DInv, SameBase
<1>2. CASE /\ stopping => stopping'
           /\ rewriter' = rewriter /\ temp' = temp
  BY <1>1, <1>2, LostFrame, Zenon DEF Writes
<1>3. CASE StartRewrite
  BY <1>2, <1>3, Zenon DEF StartRewrite, rewriterVars, diskVars
<1>4. CASE CreateTemp
  <2>1. /\ main = "create" /\ stopping' = stopping
        /\ \/ temp' = [NoFile EXCEPT !.base = issued, !.lost = Lost(file)]
           \/ rewriter' = rewriter /\ temp' = temp
    BY <1>4, Zenon DEF CreateTemp
  <2>2. CASE temp' = [NoFile EXCEPT !.base = issued, !.lost = Lost(file)]
    <3>1. temp'.lost = Lost(file)
      BY <2>2 DEF NoFile
    <3>2. ~stopping
      BY <2>1, Zenon DEF DInv, IInv, FlagInv
    <3>3. Lost(file) <= opened
      BY <3>2, Zenon DEF DInv, LostInv, Lost
    <3> QED
      BY <1>1, <2>1, <3>1, <3>3, Zenon DEF LostInv
  <2> QED
    BY <1>2, <2>1, <2>2, Zenon
<1>5. CASE QueueSnapshotBlock \/ BuildSnapshot \/ FinishSnapshot \/ WaitUntilRewriteIdle
  <2>1. ProducerLeaves
    BY <1>5, ZenonT(20) DEF QueueSnapshotBlock, BuildSnapshot, FinishSnapshot, WaitUntilRewriteIdle
  <2> QED
    BY <1>2, <2>1, Zenon DEF ProducerLeaves, rewriterVars, diskVars
<1>6. CASE Destroy
  <2>1. rewriter' = rewriter /\ temp' = temp
    BY <1>6, ZenonT(20) DEF Destroy, rewriterVars, diskVars
  <2>2. stopping => stopping'
    BY <1>6, ZenonT(30) DEF Destroy
  <2> QED
    BY <1>2, <2>1, <2>2, Zenon
<1> QED
  BY <1>3, <1>4, <1>5, <1>6, Zenon DEF Main

(* The steps of the main thread keep the durability invariants.            *)
LEMMA MainDurable ==
    ASSUME DInv, Main PROVE AckInv' /\ SyncInv' /\ JoinInv' /\ CoverInv' /\ LostInv'
<1>1. UNCHANGED <<policy, issued, acked, opened, healthy, dirty, worker, file, shadow>>
  BY MainEffect, ZenonT(20)
<1>2. AckInv' /\ SyncInv' /\ CoverInv'
  BY <1>1 DEF DInv, AckInv, SyncInv, CoverInv, Covers
<1> QED
  BY <1>2, MainJoins, MainLoses, Zenon

-----------------------------------------------------------------------------
(* The worker.  Only its sync raises what is certain to survive.           *)
LEMMA RunEffect ==
    ASSUME DInv, Run
    PROVE  /\ UNCHANGED <<policy, main, stopping, issued, acked, opened, rewriter, rewriting,
                          temp, shadow>>
           /\ policy # "always" /\ worker # "done"
           /\ file' \in LogFile /\ SameBase(file, file')
           /\ file'.synced = file.synced \/ file'.synced = Len(file.records)
           /\ healthy' => healthy
<1>1. WorkerLeaves
  BY DEF Run, WorkerWait, BeginSync, BeginWrite, WorkerReturn, WorkerWrite, WorkerWrote,
         WorkerSync, WorkerSynced
<1>2. UNCHANGED <<policy, main, stopping, issued, acked, opened, rewriter, rewriting,
                  temp, shadow>>
  BY <1>1, ZenonT(30) DEF WorkerLeaves, callerVars, rewriterVars, rewriteVars, fixedVars
<1>3. worker # "done"
  BY DEF Run, WorkerWait, BeginSync, BeginWrite, WorkerReturn, WorkerWrite, WorkerWrote,
         WorkerSync, WorkerSynced
<1>4. policy # "always"
  BY <1>3, SMTT(30) DEF DInv, IInv, FlagInv
<1>5. file \in LogFile /\ KindInv
  BY ZenonT(20) DEF DInv, IInv, KindInv
<1>6. CASE WorkerWrite
  <2>1. file' = WithRecord(file, Head(worker_batch)) /\ worker_batch # <<>> /\ healthy' = healthy
    BY <1>6 DEF WorkerWrite
  <2>2. Head(worker_batch) \in Nat
    BY <1>5, <2>1, SMTT(30) DEF KindInv
  <2>3. Append(file.records, Head(worker_batch)) \in Seq(Nat)
    BY <1>5, <2>2, FileFields
  <2>4. file' \in LogFile
    BY <1>5, <2>1, <2>3, NewRecords, Zenon DEF WithRecord
  <2>5. SameBase(file, file') /\ file'.synced = file.synced
    BY <1>5, <2>1, SMTT(30) DEF WithRecord, LogFile, SameBase
  <2> QED
    BY <1>2, <1>3, <1>4, <2>1, <2>4, <2>5, ZenonT(20)
<1>7. CASE WorkerSync
  <2>1. file' \in {file, Synced(file)} /\ healthy' = healthy
    BY <1>7 DEF WorkerSync
  <2>2. SameBase(file, file') /\ file' \in LogFile
        /\ (file'.synced = file.synced \/ file'.synced = Len(file.records))
    BY <1>5, <2>1, SyncedFields, Zenon DEF SameBase
  <2> QED
    BY <1>2, <1>3, <1>4, <2>1, <2>2, ZenonT(20)
<1>8. CASE WorkerWait \/ BeginSync \/ BeginWrite \/ WorkerReturn \/ WorkerWrote \/ WorkerSynced
  <2>1. file' = file /\ (healthy' => healthy)
    BY <1>8, SMTT(20)
    DEF WorkerWait, BeginSync, BeginWrite, WorkerReturn, WorkerWrote, WorkerSynced, FailLocked
  <2>2. SameBase(file, file')
    BY <2>1, Zenon DEF SameBase
  <2> QED
    BY <1>2, <1>3, <1>4, <1>5, <2>1, <2>2, ZenonT(20)
<1> QED
  BY <1>6, <1>7, <1>8, ZenonT(20) DEF Run

(* The steps of the worker keep the durability invariants.                 *)
LEMMA RunDurable ==
    ASSUME DInv, Run PROVE AckInv' /\ SyncInv' /\ JoinInv' /\ CoverInv' /\ LostInv'
<1>1. /\ UNCHANGED <<policy, main, stopping, issued, acked, opened, rewriter, temp, shadow>>
      /\ policy # "always" /\ worker # "done" /\ (healthy' => healthy)
      /\ SameBase(file, file')
  BY RunEffect, Zenon
<1>2. AckInv' /\ CoverInv' /\ LostInv'
  <2>1. LostInv'
    BY <1>1, LostFrame, Zenon DEF DInv, Writes
  <2> QED
    BY <1>1, <2>1, ZenonT(20) DEF DInv, AckInv, CoverInv
<1> USE DEF DInv, SyncInv, JoinInv
<1>3. CASE WorkerWait
  BY <1>1, <1>2, <1>3, ZenonT(20) DEF WorkerWait, queueVars, ioVars
<1>4. CASE BeginSync
  <2>1. /\ worker = "loop" /\ worker' = "sync" /\ dirty
        /\ UNCHANGED <<dirty, healthy, file>>
    BY <1>4, ZenonT(20) DEF BeginSync, WaitHasDeadline, ShouldSyncAtStop
  <2> QED
    BY <1>1, <1>2, <2>1, SMTT(30)
<1>5. CASE BeginWrite
  BY <1>1, <1>2, <1>5, ZenonT(20) DEF BeginWrite
<1>6. CASE WorkerReturn
  <2>1. /\ worker = "loop" /\ worker' = "done" /\ UNCHANGED <<dirty, healthy, file, pending>>
        /\ ~healthy \/ (pending = <<>> /\ stopping /\ ~dirty)
    BY <1>6, ZenonT(20) DEF WorkerReturn, ShouldSyncAtStop, queueVars, ioVars
  <2> QED
    BY <1>1, <1>2, <2>1, SMTT(30)
<1>7. CASE WorkerWrite
  BY <1>1, <1>2, <1>7, ZenonT(20) DEF WorkerWrite, queueVars, ioVars
<1>8. CASE WorkerWrote
  BY <1>1, <1>2, <1>8, ZenonT(20) DEF WorkerWrote, FailLocked
<1>9. CASE WorkerSync
  <2>1. /\ worker = "sync" /\ UNCHANGED <<dirty, healthy>>
        /\ \/ file' = Synced(file) /\ worker' = "synced"
           \/ worker' = "sync_failed" /\ file' = file
    BY <1>9, ZenonT(20) DEF WorkerSync, ioVars
  <2>2. file' = Synced(file) => file'.synced = Len(file'.records)
    BY SyncedFields, ZenonT(20) DEF IInv, KindInv
  <2> QED
    BY <1>1, <1>2, <2>1, <2>2, ZenonT(20)
<1>10. CASE WorkerSynced
  <2>1. /\ file' = file
        /\ \/ worker = "synced" /\ worker' = "loop" /\ dirty' = FALSE
           \/ worker' = "done" /\ healthy' = FALSE /\ dirty' = FALSE
    BY <1>10 DEF WorkerSynced, FailLocked
  <2> QED
    BY <1>1, <1>2, <2>1, ZenonT(20)
<1> QED
  BY <1>3, <1>4, <1>5, <1>6, <1>7, <1>8, <1>9, <1>10, ZenonT(30) DEF Run


-----------------------------------------------------------------------------
(* The rewrite thread.  It puts a file that is synced to its end in the    *)
(* place of the log, or leaves the log as it is.                           *)
LEMMA RewriteEffect ==
    ASSUME KindInv, RunRewrite
    PROVE  /\ UNCHANGED <<policy, main, stopping, issued, acked, opened, worker>>
           /\ rewriter # "none" /\ (rewriting' = rewriting \/ rewriting' = FALSE)
           /\ Writes(rewriter)' => Writes(rewriter) /\ temp'.lost = temp.lost
           /\ \/ UNCHANGED <<healthy, dirty, pending, file, shadow>>
              \/ /\ rewriter = "rename" /\ file' = temp /\ shadow' = {file} /\ dirty' = FALSE
                 /\ UNCHANGED <<healthy, pending, rewriting>> /\ rewriter' = "dirsync"
              \/ shadow' = {} /\ UNCHANGED <<healthy, dirty, pending, file>>
              \/ /\ ~healthy' /\ dirty' = FALSE /\ pending' = <<>>
                 /\ UNCHANGED <<file, shadow>>
<1>1. RewriterLeaves /\ rewriter # "none"
  BY DEF RunRewrite, TakeSnapshot, RewriterWrite, TakeDelta, SyncTemp, Rename,
         SyncParentDirectory, AbortRewrite
<1>2. UNCHANGED <<policy, main, stopping, issued, acked, opened, worker>>
  BY <1>1, Zenon DEF RewriterLeaves, callerVars, workerVars, fixedVars
<1>3. CASE TakeSnapshot
  <2>1. Unfinished /\ rewriter = "snapshot" /\ temp' = temp
    BY <1>3, ZenonT(20) DEF TakeSnapshot
  <2> QED
    BY <1>1, <1>2, <2>1, ZenonT(20) DEF Unfinished, queueVars, ioVars, rewriteVars, Writes
<1>4. CASE RewriterWrite
  <2>1. /\ Unfinished /\ rewriter \in {"write_snapshot", "write_delta"}
        /\ \/ temp' = [temp EXCEPT !.blocks = Append(@, Head(rewriter_batch))]
           \/ temp' = WithRecord(temp, Head(rewriter_batch))
           \/ temp' = temp
    BY <1>4, ZenonT(20) DEF RewriterWrite
  <2>2. temp'.lost = temp.lost
    BY <2>1, Zenon DEF KindInv, LogFile, WithRecord
  <2> QED
    BY <1>1, <1>2, <2>1, <2>2, ZenonT(20) DEF Unfinished, queueVars, ioVars, rewriteVars, Writes
<1>5. CASE TakeDelta
  <2>1. /\ rewriter = "delta"
        /\ UNCHANGED <<rewriteVars, queueVars, ioVars, healthy, file, temp, shadow>>
    BY <1>5, ZenonT(20) DEF TakeDelta, diskVars
  <2> QED
    BY <1>1, <1>2, <2>1, ZenonT(20) DEF queueVars, ioVars, rewriteVars, Writes
<1>6. CASE SyncTemp \/ AbortRewrite
  <2>1. /\ UNCHANGED <<queueVars, ioVars, healthy, file, shadow>>
        /\ \/ rewriter = "delta" /\ temp' = Synced(temp) /\ UNCHANGED rewriteVars
           \/ rewriter' = "none" /\ rewriting' = FALSE
    BY <1>6, ZenonT(20) DEF SyncTemp, AbortRewrite, RewriteFails, ThreadEnds, FinishRewriteLocked
  <2>2. temp' = Synced(temp) => temp'.lost = temp.lost
    BY SyncedFields, Zenon DEF KindInv
  <2> QED
    BY <1>1, <1>2, <2>1, <2>2, ZenonT(20) DEF queueVars, ioVars, rewriteVars, Writes
<1>7. CASE Rename
  <2>1. UNCHANGED <<pending, healthy>>
    BY <1>7 DEF Rename, queueVars
  <2>2. \/ /\ rewriter = "rename" /\ file' = temp /\ shadow' = {file} /\ dirty' = FALSE
           /\ rewriter' = "dirsync" /\ rewriting' = rewriting
        \/ UNCHANGED <<file, shadow, dirty>> /\ rewriter' = "none" /\ rewriting' = FALSE
    BY <1>7, ZenonT(20) DEF Rename, RewriteFails, ThreadEnds, FinishRewriteLocked, rewriteVars
  <2> QED
    BY <1>1, <1>2, <2>1, <2>2, ZenonT(20) DEF Writes
<1>8. CASE SyncParentDirectory
  <2>1. file' = file /\ rewriter' = "none" /\ rewriting' = FALSE
    BY <1>8, ZenonT(20)
    DEF SyncParentDirectory, RewriteFails, ThreadEnds, FinishRewriteLocked
  <2>2. \/ shadow' = {} /\ UNCHANGED <<healthy, queueVars, ioVars>>
        \/ FailLocked("directory_sync") /\ shadow' = shadow
    BY <1>8 DEF SyncParentDirectory
  <2> QED
    BY <1>1, <1>2, <2>1, <2>2, ZenonT(20) DEF FailLocked, queueVars, ioVars, Writes
<1> QED
  BY <1>3, <1>4, <1>5, <1>6, <1>7, <1>8, ZenonT(30) DEF RunRewrite

(* The steps of the rewrite thread keep the durability invariants.         *)
LEMMA RewriteDurable ==
    ASSUME DInv, RunRewrite PROVE AckInv' /\ SyncInv' /\ JoinInv' /\ CoverInv'
<1> USE DEF DInv
<1>1. /\ UNCHANGED <<policy, main, stopping, issued, acked, opened, worker>>
      /\ main \notin {"join_worker", "closed"} /\ KindInv
  BY RewriteEffect, ZenonT(20) DEF JoinInv, IInv
<1>2. CASE UNCHANGED <<healthy, dirty, pending, file, shadow>>
  BY <1>1, <1>2 DEF AckInv, SyncInv, JoinInv, CoverInv, Covers
<1>3. CASE /\ rewriter = "rename" /\ file' = temp /\ shadow' = {file} /\ dirty' = FALSE
           /\ UNCHANGED <<healthy, pending>>
  <2>1. /\ healthy /\ worker \in {"loop", "done"} /\ temp.synced = Len(temp.records)
        /\ Reaches(temp) = issued
    BY <1>3, TempIsSound, ZenonT(20) DEF IInv, SwapInv
  <2>2. AckInv' /\ JoinInv' /\ SyncInv'
    BY <1>1, <1>3, <2>1, SMTT(30) DEF AckInv, SyncInv, JoinInv
  <2>3. ASSUME policy = "always", acked > opened PROVE Covers(acked)'
    <3>1. acked <= file.base + file.synced /\ acked <= temp.base + temp.synced
      BY <2>1, <2>3, ZenonT(20) DEF CoverInv, Covers, AckInv, Reaches
    <3> QED
      BY <1>1, <1>3, <3>1, SMTT(30) DEF Covers
  <2> QED
    BY <1>1, <2>2, <2>3, ZenonT(20) DEF CoverInv
<1>4. CASE shadow' = {} /\ UNCHANGED <<healthy, dirty, pending, file>>
  BY <1>1, <1>4, ZenonT(20) DEF AckInv, SyncInv, JoinInv, CoverInv, Covers
<1>5. CASE /\ ~healthy' /\ dirty' = FALSE /\ pending' = <<>>
           /\ UNCHANGED <<file, shadow>>
  BY <1>1, <1>5, SMTT(30) DEF AckInv, SyncInv, JoinInv, CoverInv, Covers
<1> QED
  BY <1>1, <1>2, <1>3, <1>4, <1>5, RewriteEffect, Zenon

(* The rename puts a snapshot that lacks blocks in the place of the log    *)
(* only during a shutdown.                                                 *)
LEMMA RewriteLoses == ASSUME DInv, RunRewrite PROVE LostInv'
<1>1. KindInv /\ LostInv
  BY Zenon DEF DInv, IInv
<1>2. /\ UNCHANGED <<opened, stopping>>
      /\ Writes(rewriter)' => Writes(rewriter) /\ temp'.lost = temp.lost
  BY <1>1, RewriteEffect, Zenon
<1>3. CASE file' = file /\ shadow' \subseteq shadow
  BY <1>1, <1>2, <1>3, LostFrame, Zenon DEF SameBase
<1>4. CASE rewriter = "rename" /\ file' = temp /\ shadow' = {file} /\ rewriter' = "dirsync"
  <2>1. temp.lost <= opened /\ (CutShort(temp) => stopping)
    BY <1>1, <1>4, TempIsSound, Zenon DEF DInv, LostInv, Writes
  <2>2. file.lost <= opened /\ (CutShort(file) => file.base <= opened \/ stopping)
    BY <1>1, Zenon DEF LostInv
  <2>3. ~Writes(rewriter')
    BY <1>4 DEF Writes
  <2> QED
    BY <1>2, <1>4, <2>1, <2>2, <2>3, Zenon DEF LostInv, Writes
<1> QED
  BY <1>1, <1>3, <1>4, RewriteEffect, Zenon

-----------------------------------------------------------------------------
(* A start, after a crash or the first.                                    *)
LEMMA FreshDurable ==
    ASSUME Fresh, SoundLog(file), issued \in 0..MaxAppends PROVE DInv
<1>1. IInv
  BY FreshIsFine
<1>2. AckInv /\ CoverInv
  BY SMTT(30) DEF Fresh, AckInv, CoverInv
<1>3. SyncInv
  BY ZenonT(30) DEF Fresh, SyncInv, SoundLog
<1>4. JoinInv
  BY DEF Fresh, JoinInv
<1>5. LostInv
  <2>1. /\ shadow = {} /\ ~Writes(rewriter) /\ opened = file.base + Len(file.records)
    BY DEF Fresh, Writes, Reaches
  <2>2. /\ file.base \in Nat /\ file.lost \in Nat /\ Len(file.records) \in Nat
        /\ file.lost <= file.base
    BY FileFields, Zenon DEF SoundLog
  <2>3. file.base <= opened /\ file.lost <= opened
    BY <2>1, <2>2
  <2> QED
    BY <2>1, <2>3, Zenon DEF LostInv
<1> QED
  BY <1>1, <1>2, <1>3, <1>4, <1>5, Zenon DEF DInv

(* Every step keeps DInv.                                                  *)
LEMMA StepDInv == DInv /\ [Next]_vars => DInv'
<1> SUFFICES ASSUME DInv, [Next]_vars PROVE DInv'
  OBVIOUS
<1>1. IInv'
  BY StepIInv, ZenonT(20) DEF DInv
<1>2. CASE UNCHANGED vars
  <2>1. UNCHANGED <<policy, main, stopping, issued, acked, opened, healthy, dirty, pending,
                    worker, rewriter, file, temp, shadow>>
    BY <1>2 DEF vars, callerVars, queueVars, ioVars, healthVars, workerVars, rewriterVars,
                diskVars, fixedVars
  <2>2. LostInv'
    BY <2>1, LostFrame, Zenon DEF DInv, SameBase, Writes
  <2> QED
    BY <1>1, <2>1, <2>2, ZenonT(20) DEF DInv, AckInv, SyncInv, JoinInv, CoverInv, Covers
<1>3. CASE Open
  <2>1. (Fresh /\ SoundLog(file) /\ issued \in 0..MaxAppends => DInv)'
    BY FreshDurable, PTL
  <2> QED
    BY <1>3, <2>1, OpenIsFresh DEF DInv
<1>4. CASE AppendAlways
  BY <1>1, <1>4, AppendAlwaysDurable, Zenon DEF DInv
<1>5. CASE AppendQueued
  BY <1>1, <1>5, AppendQueuedDurable, ZenonT(20) DEF DInv
<1>6. CASE Main
  BY <1>1, <1>6, MainDurable, Zenon DEF DInv
<1>7. CASE Run
  BY <1>1, <1>7, RunDurable, Zenon DEF DInv
<1>8. CASE RunRewrite
  BY <1>1, <1>8, RewriteDurable, RewriteLoses, Zenon DEF DInv
<1> QED
  BY <1>2, <1>3, <1>4, <1>5, <1>6, <1>7, <1>8, SMTT(30) DEF Next, Closed

(* IInv and the durability invariants hold in every reachable state.       *)
THEOREM Durability == Spec => []DInv
<1>1. Init => DInv
  BY InitIsFresh, FreshDurable, SMTT(30)
<1> QED
  BY <1>1, StepDInv, PTL DEF Spec

-----------------------------------------------------------------------------
(* Two consecutive runs are one.                                           *)
LEMMA CountsConcat ==
    ASSUME NEW s \in Seq(Nat), NEW t \in Seq(Nat), Counts(s, 0), Counts(t, Len(s))
    PROVE  IsRun(s \o t, 0) /\ Len(s \o t) = Len(s) + Len(t)
<1>1. /\ s \o t \in Seq(Nat) /\ Len(s \o t) = Len(s) + Len(t)
      /\ Len(s) \in Nat /\ Len(t) \in Nat
  OBVIOUS
<1>2. ASSUME NEW i \in 1..Len(s \o t) PROVE (s \o t)[i] = 0 + i
  <2>1. CASE i <= Len(s)
    <3>1. i \in 1..Len(s) /\ (s \o t)[i] = s[i]
      BY <1>1, <2>1
    <3> QED
      BY <3>1 DEF Counts
  <2>2. CASE i > Len(s)
    <3>1. i - Len(s) \in 1..Len(t) /\ (s \o t)[i] = t[i - Len(s)]
      BY <1>1, <2>2
    <3>2. t[i - Len(s)] = Len(s) + (i - Len(s))
      BY <3>1, Zenon DEF Counts
    <3> QED
      BY <1>1, <3>1, <3>2
  <2> QED
    BY <1>1, <2>1, <2>2
<1>3. Counts(s \o t, 0)
  BY <1>2 DEF Counts
<1> QED
  BY <1>1, <1>3, CountsIsFunction, Zenon DEF IsRun

(* For every policy, size and limit: the log, and the file it replaced,    *)
(* hold every command since Open once and in order, and so will the file   *)
(* about to replace it, unless a shutdown leaves blocks of its snapshot in *)
(* the queue.                                                              *)
THEOREM LogIsComplete == Spec => []LogComplete
<1>1. ASSUME NEW f, SoundLog(f) PROVE IsLog(f)
  <2>1. /\ f.blocks \in Seq(Nat) /\ f.records \in Seq(Nat)
        /\ Counts(f.blocks, 0) /\ Counts(f.records, f.base)
        /\ Len(f.blocks) <= SnapshotLength(f.base) /\ f.base \in Nat
    BY <1>1, FileFields, Zenon DEF SoundLog
  <2>2. 0 \in Nat
    OBVIOUS
  <2>3. IsRun(f.blocks, 0) /\ IsRun(f.records, f.base)
    BY <2>1, <2>2, CountsIsFunction, Zenon DEF IsRun
  <2> QED
    BY <2>1, <2>3, Zenon DEF IsLog
<1>2. DInv => LogComplete
  <2> SUFFICES ASSUME DInv PROVE LogComplete
    OBVIOUS
  <2>1. ASSUME NEW f \in {file} \cup shadow PROVE IsLog(f) /\ (Lost(f) <= opened \/ stopping)
    <3>1. SoundLog(f)
      BY Zenon DEF DInv, IInv, ShadowInv
    <3>2. f.lost <= opened /\ (CutShort(f) => f.base <= opened \/ stopping)
      BY Zenon DEF DInv, LostInv
    <3> QED
      BY <1>1, <3>1, <3>2, Zenon DEF Lost
  <2>2. ASSUME rewriter = "rename"
        PROVE  /\ Reaches(file) = issued /\ Reaches(temp) = issued
               /\ IsRun(temp.records, temp.base)
               /\ IsRun(temp.blocks \o snapshot_pending, 0)
               /\ Len(temp.blocks \o snapshot_pending) = SnapshotLength(temp.base)
               /\ snapshot_pending = <<>> \/ stopping
    <3>1. /\ temp.blocks \in Seq(Nat) /\ temp.records \in Seq(Nat) /\ temp.base \in Nat
          /\ snapshot_pending \in Seq(Nat)
      BY FileFields, Zenon DEF DInv, IInv, KindInv
    <3>2. /\ Counts(temp.blocks, 0) /\ Counts(snapshot_pending, Len(temp.blocks))
          /\ Len(temp.blocks) + Len(snapshot_pending) = SnapshotLength(temp.base)
          /\ snapshot_pending = <<>> \/ stopping
          /\ Counts(temp.records, temp.base) /\ Reaches(file) = issued /\ Reaches(temp) = issued
      BY <2>2, TempIsSound, Zenon DEF DInv
    <3>3. IsRun(temp.records, temp.base)
      BY <3>1, <3>2, CountsIsFunction, Zenon DEF IsRun
    <3>4. /\ IsRun(temp.blocks \o snapshot_pending, 0)
          /\ Len(temp.blocks \o snapshot_pending) = Len(temp.blocks) + Len(snapshot_pending)
      BY <3>1, <3>2, CountsConcat, Zenon
    <3> QED
      BY <3>2, <3>3, <3>4, Zenon
  <2> QED
    BY <2>1, <2>2, Zenon DEF LogComplete, Logs
<1> QED
  BY <1>2, Durability, PTL

(* A command of this process that every file holds is certain to survive,  *)
(* or was cut off by the shutdown.                                         *)
LEMMA CoveredIsCertain ==
    ASSUME DInv, NEW n \in opened + 1..acked, Covers(acked)
    PROVE  OnDisk(n) /\ (n \in Certain \/ CutOffByShutdown(n))
<1>1. opened \in Nat /\ acked \in Nat /\ acked <= issued /\ issued \in 0..MaxAppends
  BY Zenon DEF DInv, IInv, KindInv, AckInv
<1>2. n \in Nat /\ opened < n /\ n <= acked /\ n \in 1..MaxAppends
  BY <1>1, AofAssumption DEF AofAssumption
<1>3. ASSUME NEW f \in {file} \cup shadow
      PROVE  /\ n <= f.base + f.synced
             /\ Lost(f) < n \/ (stopping /\ CutShort(f) /\ n <= f.base)
  <2>1. f.base \in Nat /\ f.synced \in Nat /\ f.lost \in Nat
    BY FileFields, Zenon DEF DInv, IInv, ShadowInv, SoundLog
  <2>2. acked <= f.base + f.synced
    BY Zenon DEF Covers
  <2>3. f.lost <= opened /\ (CutShort(f) => f.base <= opened \/ stopping)
    BY Zenon DEF DInv, LostInv
  <2>4. n <= f.base + f.synced /\ f.lost < n /\ (f.base <= opened => f.base < n)
        /\ (f.base < n \/ n <= f.base)
    BY <1>1, <1>2, <2>1, <2>2, <2>3
  <2> QED
    BY <2>3, <2>4, Zenon DEF Lost
<1>4. OnDisk(n)
  BY <1>3, Zenon DEF OnDisk, Logs
<1> QED
  BY <1>2, <1>3, <1>4, Zenon DEF Certain, CutOffByShutdown, Logs

(* For every size and limit: under "always" Append acknowledges only what  *)
(* is on disk and no crash loses, also while a rewrite replaces the file;  *)
(* a shutdown alone may cut it off.                                        *)
THEOREM AlwaysDurable == Spec => []AlwaysIsDurable
<1>1. DInv => AlwaysIsDurable
  <2> SUFFICES ASSUME DInv, policy = "always", NEW n \in opened + 1..acked
               PROVE  OnDisk(n) /\ (n \in Certain \/ CutOffByShutdown(n))
    BY Zenon DEF AlwaysIsDurable
  <2>1. acked > opened
    BY DEF DInv, IInv, KindInv
  <2> QED
    BY <2>1, CoveredIsCertain, Zenon DEF DInv, CoverInv
<1> QED
  BY <1>1, Durability, PTL

(* For every size and limit: what a healthy log accepted before the        *)
(* destructor joined its threads is on disk, whichever the policy, and     *)
(* survives unless the shutdown cut the snapshot of a rewrite short.       *)
THEOREM ShutdownIsDurable == Spec => []ShutdownDrains
<1>1. DInv => ShutdownDrains
  <2> SUFFICES ASSUME DInv, main = "closed", healthy, NEW n \in opened + 1..acked
               PROVE  OnDisk(n) /\ (n \in Certain \/ CutOffByShutdown(n))
    BY ZenonT(20) DEF ShutdownDrains
  <2> USE DEF DInv
  <2>1. /\ acked = issued /\ acked \in Nat /\ opened \in Nat
        /\ worker = "done" /\ shadow = {} /\ worker_batch = <<>>
    BY DEF AckInv, JoinInv, IInv, KindInv, FlagInv, ShadowInv
  <2>2. acked > opened
    BY <2>1
  <2>3. CASE policy = "always"
    BY <2>2, <2>3, CoveredIsCertain, Zenon DEF CoverInv
  <2>4. CASE policy # "always"
    <3>1. pending = <<>> /\ ~dirty
      BY <2>1, <2>4, ZenonT(20) DEF JoinInv
    <3>2. file \in LogFile /\ Reaches(file) \in Nat
      BY KindFacts, Zenon DEF IInv
    <3>3. Reaches(file) = issued
      <4>1. issued = Reaches(file) + Len(worker_batch) + Len(pending)
        BY Zenon DEF IInv, FileInv
      <4>2. Len(worker_batch) = 0 /\ Len(pending) = 0
        BY <2>1, <3>1, CountsEmpty, Zenon
      <4> QED
        BY <3>2, <4>1, <4>2
    <3>4. file.synced = Len(file.records)
      BY <2>1, <2>2, <3>1, <3>3 DEF SyncInv
    <3>5. Covers(acked)
      BY <2>1, <3>2, <3>3, <3>4 DEF Covers, Reaches
    <3> QED
      BY <3>5, CoveredIsCertain, Zenon
  <2> QED
    BY <2>3, <2>4, Zenon
<1> QED
  BY <1>1, Durability, PTL

-----------------------------------------------------------------------------
(* The refinement: what each step does to the commands certain to survive. *)
(* A command that the files of the next state hold stays certain.          *)
LEMMA CertainGrows ==
    ASSUME IInv',
           \A n \in Certain : \A f \in {file'} \cup shadow' :
               Lost(f) < n /\ n <= f.base + f.synced
    PROVE  Abstract!Grows
<1>1. Certain \subseteq Certain'
  BY Zenon DEF Certain, OnDisk, Logs
<1>2. ASSUME NEW n \in Certain' PROVE n \in 1..issued'
  <2>1. n \in 1..MaxAppends /\ n <= file'.base + file'.synced
    BY Zenon DEF Certain, OnDisk, Logs
  <2>2. SoundLog(file)'
    BY Zenon DEF IInv, ShadowInv
  <2>3. /\ file' \in LogFile /\ file'.synced <= Len(file'.records)
        /\ file'.base + Len(file'.records) <= issued'
    BY <2>2, Zenon DEF SoundLog, Reaches
  <2>4. file'.base \in Nat /\ file'.synced \in Nat /\ Len(file'.records) \in Nat
    BY <2>3, FileFields, Zenon
  <2>5. issued' \in 0..MaxAppends /\ MaxAppends \in Nat
    BY AofAssumption, Zenon DEF AofAssumption, IInv, KindInv
  <2> QED
    BY <2>1, <2>3, <2>4, <2>5
<1> QED
  BY <1>1, <1>2, Zenon DEF Abstract!Grows

(* What is certain is in every file that may come back.                    *)
LEMMA CertainIsHeld ==
    ASSUME IInv, NEW n \in Certain, NEW f \in {file} \cup shadow
    PROVE  /\ Lost(f) < n /\ n <= f.base + f.synced /\ n \in Nat /\ n <= issued
           /\ f.base \in Nat /\ f.synced \in Nat /\ Len(f.records) \in Nat
           /\ f.synced <= Len(f.records)
<1>1. n \in 1..MaxAppends /\ Lost(f) < n /\ n <= f.base + f.synced
  BY Zenon DEF Certain, OnDisk, Logs
<1>2. SoundLog(f)
  BY Zenon DEF IInv, ShadowInv
<1>3. f \in LogFile /\ f.synced <= Len(f.records) /\ f.base + Len(f.records) <= issued
  BY <1>2, Zenon DEF SoundLog, Reaches
<1>4. f.base \in Nat /\ f.synced \in Nat /\ Len(f.records) \in Nat
  BY <1>3, FileFields, Zenon
<1>5. issued \in Nat
  BY KindFacts, Zenon DEF IInv
<1>6. n \in Nat /\ n <= issued
  BY <1>1, <1>3, <1>4, <1>5
<1> QED
  BY <1>1, <1>3, <1>4, <1>6, Zenon

(* A step that only lengthens the synced part of the log.                  *)
LEMMA FileGrows ==
    ASSUME IInv, IInv', SameBase(file, file'), shadow' \subseteq shadow,
           file'.synced = file.synced \/ file'.synced = Len(file.records)
    PROVE  Abstract!Grows
<1>1. ASSUME NEW n \in Certain
      PROVE  Lost(file') < n /\ n <= file'.base + file'.synced
  <2>1. Lost(file') = Lost(file) /\ file'.base = file.base
    BY SameBaseSameLoss, Zenon DEF SameBase
  <2>2. /\ Lost(file) < n /\ n <= file.base + file.synced /\ n \in Nat
        /\ file.base \in Nat /\ file.synced \in Nat /\ Len(file.records) \in Nat
        /\ file.synced <= Len(file.records)
    BY CertainIsHeld, Zenon
  <2>3. n <= file'.base + file'.synced
    BY <2>1, <2>2
  <2> QED
    BY <2>1, <2>2, <2>3, Zenon
<1>2. \A n \in Certain : \A f \in {file'} \cup shadow' :
        Lost(f) < n /\ n <= f.base + f.synced
  BY <1>1, CertainIsHeld, Zenon
<1> QED
  BY <1>2, CertainGrows, Zenon

(* A step that leaves the files alone leaves what is certain alone.        *)
LEMMA CertainStays ==
    ASSUME UNCHANGED <<file, shadow>> PROVE Certain' = Certain
BY Zenon DEF Certain, OnDisk, Logs

(* Every step of the worker is Persist.                                    *)
LEMMA RunPersists == ASSUME DInv, IInv', Run PROVE Abstract!Persist
<1>1. /\ UNCHANGED <<policy, stopping, rewriting, issued, acked, shadow>>
      /\ SameBase(file, file')
      /\ file'.synced = file.synced \/ file'.synced = Len(file.records)
  BY RunEffect, ZenonT(20)
<1>2. Abstract!Grows
  BY <1>1, FileGrows, Zenon DEF DInv
<1> QED
  BY <1>1, <1>2, Zenon DEF Abstract!Persist

(* The rename is Persist, or CutOff when the snapshot lacks blocks.        *)
LEMMA RenameCuts ==
    ASSUME DInv, IInv', rewriter = "rename", file' = temp, shadow' = {file},
           UNCHANGED <<policy, stopping, rewriting, issued, acked>>
    PROVE  Abstract!Persist \/ Abstract!CutOff
<1>1. /\ temp \in LogFile /\ temp.synced = Len(temp.records) /\ Reaches(temp) = issued
      /\ CutShort(temp) => stopping
  BY TempIsSound, Zenon DEF DInv
<1>2. /\ temp.base \in Nat /\ Len(temp.records) \in Nat /\ Len(temp.blocks) \in Nat
      /\ issued = temp.base + temp.synced /\ issued \in Nat
  BY <1>1, FileFields, KindFacts, Zenon DEF DInv, IInv, Reaches
<1>3. temp.lost = Lost(file)
  BY Zenon DEF DInv, LostInv, Writes
<1>4. CASE ~CutShort(temp)
  <2>1. Lost(temp) = Lost(file)
    BY <1>3, <1>4, Zenon DEF Lost
  <2>2. \A n \in Certain : \A f \in {file'} \cup shadow' :
          Lost(f) < n /\ n <= f.base + f.synced
    BY <1>2, <2>1, CertainIsHeld, Zenon DEF DInv
  <2>3. Abstract!Grows
    BY <2>2, CertainGrows, Zenon
  <2> QED
    BY <2>3, Zenon DEF Abstract!Persist
<1>5. CASE CutShort(temp)
  <2>1. rewriting /\ stopping
    BY <1>1, <1>5, Zenon DEF DInv, IInv, FlagInv
  <2>2. temp.base \in 1..issued
    <3>1. temp.base # 0
      BY <1>2, <1>5 DEF CutShort, SnapshotLength
    <3> QED
      BY <1>1, <1>2, <3>1
  <2>3. Lost(temp) = temp.base
    BY <1>5, Zenon DEF Lost
  <2>4. ASSUME NEW n \in Certain' PROVE n \in Certain \ (1..temp.base)
    <3>1. /\ n \in 1..MaxAppends /\ Lost(temp) < n /\ Lost(file) < n
          /\ n <= file.base + file.synced
      BY Zenon DEF Certain, OnDisk, Logs
    <3>2. shadow = {}
      BY Zenon DEF DInv, IInv, ShadowInv, SwapInv
    <3>3. n \in Certain
      BY <3>1, <3>2, Zenon DEF Certain, OnDisk, Logs
    <3>4. n \notin 1..temp.base
      BY <1>2, <2>3, <3>1
    <3> QED
      BY <3>3, <3>4, Zenon
  <2>5. ASSUME NEW n \in Certain \ (1..temp.base) PROVE n \in Certain'
    <3>1. n \in Certain /\ n \notin 1..temp.base
      BY Zenon
    <3>2. /\ n \in 1..MaxAppends /\ n \in Nat /\ Lost(file) < n /\ n <= issued
          /\ n <= file.base + file.synced
      BY <3>1, CertainIsHeld, Zenon DEF DInv, Certain
    <3>3. Lost(temp) < n
      BY <1>2, <2>3, <3>1, <3>2
    <3> QED
      BY <1>2, <3>2, <3>3, Zenon DEF Certain, OnDisk, Logs
  <2>6. Certain' = Certain \ (1..temp.base)
    BY <2>4, <2>5, Zenon
  <2> QED
    BY <2>1, <2>2, <2>6, Zenon DEF Abstract!CutOff
<1> QED
  BY <1>4, <1>5, Zenon

(* Every step of the rewrite thread is Persist, CutOff, EndCompaction or a *)
(* stutter.                                                                *)
LEMMA RewritePersists ==
    ASSUME DInv, IInv', RunRewrite
    PROVE  Abstract!Persist \/ Abstract!CutOff \/ Abstract!EndCompaction
<1>1. /\ UNCHANGED <<policy, stopping, issued, acked>> /\ rewriting
      /\ rewriting' = rewriting \/ rewriting' = FALSE
  BY RewriteEffect, Zenon DEF DInv, IInv, FlagInv
<1>2. CASE file' = file /\ shadow' \subseteq shadow
  <2>1. Abstract!Grows
    BY <1>2, FileGrows, Zenon DEF DInv, SameBase
  <2> QED
    BY <1>1, <2>1, Zenon DEF Abstract!Persist, Abstract!EndCompaction
<1>3. CASE rewriter = "rename" /\ file' = temp /\ shadow' = {file} /\ rewriting' = rewriting
  BY <1>1, <1>3, RenameCuts, Zenon
<1>4. \/ file' = file /\ shadow' \subseteq shadow
      \/ rewriter = "rename" /\ file' = temp /\ shadow' = {file} /\ rewriting' = rewriting
  BY RewriteEffect, Zenon DEF DInv, IInv
<1> QED
  BY <1>2, <1>3, <1>4, Zenon

(* The steps of the main thread: a compaction begins, its temporary file   *)
(* cannot be made, or the shutdown begins.                                 *)
LEMMA MainCompacts ==
    ASSUME DInv, IInv', Main
    PROVE  \/ Abstract!BeginCompaction \/ Abstract!EndCompaction \/ Abstract!Close
           \/ UNCHANGED Abstract!logVars
<1>1. UNCHANGED <<policy, issued, acked, file, shadow>> /\ Certain' = Certain
  BY MainEffect, CertainStays, Zenon
<1>2. CASE UNCHANGED <<rewriting, stopping>>
  BY <1>1, <1>2, Zenon DEF Abstract!logVars
<1>3. CASE StartRewrite
  <2>1. ~stopping /\ ~rewriting /\ rewriting' = TRUE /\ stopping' = stopping
    BY <1>3, Zenon DEF StartRewrite
  <2> QED
    BY <1>1, <2>1, Zenon DEF Abstract!BeginCompaction
<1>4. CASE CreateTemp
  <2>1. /\ stopping' = stopping /\ main = "create"
        /\ rewriting' = rewriting \/ rewriting' = FALSE
    BY <1>4, Zenon DEF CreateTemp, CreateFails, FinishRewriteLocked, rewriteVars
  <2>2. rewriting
    BY <2>1, Zenon DEF DInv, IInv, FlagInv
  <2>3. Abstract!Grows
    BY <1>1, FileGrows, Zenon DEF DInv, SameBase
  <2> QED
    BY <1>1, <1>2, <2>1, <2>2, <2>3, Zenon DEF Abstract!EndCompaction
<1>5. CASE QueueSnapshotBlock \/ BuildSnapshot \/ FinishSnapshot \/ WaitUntilRewriteIdle
  <2>1. ProducerLeaves /\ rewriting' = rewriting
    BY <1>5, ZenonT(20)
    DEF QueueSnapshotBlock, BuildSnapshot, FinishSnapshot, WaitUntilRewriteIdle, rewriteVars
  <2> QED
    BY <1>2, <2>1, Zenon DEF ProducerLeaves
<1>6. CASE Destroy
  <2>1. /\ rewriting' = rewriting
        /\ stopping' = stopping \/ (main = "ready" /\ stopping' = TRUE)
    BY <1>6, ZenonT(20) DEF Destroy, rewriteVars
  <2>2. main = "ready" => ~stopping
    BY DEF DInv, IInv, FlagInv
  <2> QED
    BY <1>1, <1>2, <2>1, <2>2, Zenon DEF Abstract!Close
<1> QED
  BY <1>3, <1>4, <1>5, <1>6, Zenon DEF Main

(* Append is Accept, or Reject when the log fails.                         *)
LEMMA AppendsAccepted ==
    ASSUME DInv, IInv', AppendAlways \/ AppendQueued PROVE Abstract!Accept \/ Abstract!Reject
<1>1. CASE AppendAlways
  <2>1. /\ policy = "always" /\ healthy /\ shadow = {} /\ shadow' = {}
        /\ issued \in Nat /\ issued < MaxAppends /\ issued' = issued + 1
        /\ UNCHANGED <<policy, stopping, rewriting>> /\ ~stopping /\ SameBase(file, file')
    BY <1>1, AppendAlwaysEffect, Zenon
  <2>2. acked = issued
    BY <2>1, Zenon DEF DInv, AckInv
  <2>3. Abstract!Issue
    <3>1. (policy' = "always") = (policy = "always")
      BY <2>1
    <3> QED
      BY <2>1, <2>2, <3>1, Zenon DEF Abstract!Issue
  <2>4. CASE /\ acked' = issued' /\ file'.synced = Len(file'.records)
             /\ Reaches(file') = issued'
    <3>1. file'.base + file'.synced = issued'
      BY <2>4, Zenon DEF Reaches
    <3>2. Lost(file') = Lost(file) /\ Lost(file) <= issued /\ Lost(file) \in Nat
      BY <2>1, SameBaseSameLoss, LostBound, Zenon DEF DInv
    <3>3. ASSUME NEW n \in Certain PROVE Lost(file') < n /\ n <= file'.base + file'.synced
      <4>1. Lost(file) < n /\ n \in Nat /\ n <= issued
        BY CertainIsHeld, Zenon DEF DInv
      <4> QED
        BY <2>1, <3>1, <3>2, <4>1
    <3>4. Abstract!Grows
      BY <2>1, <3>3, CertainGrows, Zenon
    <3>5. Lost(file') < issued' /\ issued' <= issued' /\ issued' \in 1..MaxAppends
      BY <2>1, <3>2, AofAssumption DEF AofAssumption
    <3>6. issued' \in Certain'
      BY <2>1, <3>1, <3>5, Zenon DEF Certain, OnDisk, Logs
    <3> QED
      BY <2>1, <2>3, <2>4, <3>4, <3>6, Zenon DEF Abstract!Accept
  <2>5. CASE acked' = acked /\ file'.synced = file.synced
    <3>1. Lost(file') = Lost(file) /\ file'.base = file.base
      BY <2>1, SameBaseSameLoss, Zenon DEF SameBase
    <3>2. Certain' = Certain
      BY <2>1, <2>5, <3>1, Zenon DEF Certain, OnDisk, Logs
    <3> QED
      BY <2>3, <2>5, <3>2, Zenon DEF Abstract!Reject
  <2> QED
    BY <1>1, <2>4, <2>5, AppendAlwaysEffect, Zenon
<1>2. CASE AppendQueued
  <2>1. /\ policy # "always" /\ UNCHANGED <<policy, stopping, rewriting, file, shadow>>
        /\ ~stopping /\ healthy /\ issued \in Nat /\ issued < MaxAppends
        /\ issued' = issued + 1
        /\ acked' = issued' \/ acked' = acked
    BY <1>2, AppendQueuedEffect, Zenon
  <2>2. acked = issued /\ Certain' = Certain
    BY <2>1, CertainStays, Zenon DEF DInv, AckInv
  <2>3. Abstract!Issue
    <3>1. (policy' = "always") = (policy = "always")
      BY <2>1
    <3> QED
      BY <2>1, <2>2, <3>1, Zenon DEF Abstract!Issue
  <2> QED
    BY <2>1, <2>2, <2>3, Zenon DEF Abstract!Accept, Abstract!Reject
<1> QED
  BY <1>1, <1>2, Zenon

(* A restart finds at least what was certain to survive.                   *)
LEMMA SurvivorHolds ==
    ASSUME IInv, NEW f \in AfterPowerLoss \cup AfterExit, NEW n \in Certain
    PROVE  Lost(f) < n /\ n <= f.base + f.synced
<1>1. CASE f \in AfterPowerLoss
  <2>1. PICK g \in {file} \cup shadow : \E m \in g.synced..Len(g.records) : f = Kept(g, m)
    BY <1>1, Zenon DEF AfterPowerLoss
  <2>2. PICK m \in g.synced..Len(g.records) : f = Kept(g, m)
    BY <2>1, Zenon
  <2>3. SoundLog(g)
    BY Zenon DEF IInv, ShadowInv
  <2>4. /\ g \in LogFile /\ Counts(g.records, g.base)
        /\ Lost(g) < n /\ n <= g.base + g.synced /\ n \in Nat
        /\ g.base \in Nat /\ g.synced \in Nat /\ Len(g.records) \in Nat
    BY <2>3, CertainIsHeld, Zenon DEF SoundLog
  <2>5. m \in 0..Len(g.records) /\ m >= g.synced
    BY <2>4
  <2>6. SameBase(g, f) /\ f.base = g.base /\ f.synced = m
    BY <2>2, <2>4, <2>5, KeptFields, Zenon DEF SameBase
  <2>7. Lost(f) = Lost(g)
    BY <2>6, SameBaseSameLoss, Zenon
  <2>8. n <= g.base + m
    BY <2>4, <2>5
  <2> QED
    BY <2>4, <2>6, <2>7, <2>8, Zenon
<1>2. CASE f \in AfterExit
  <2>1. /\ Lost(file) < n /\ n <= file.base + file.synced /\ n \in Nat
        /\ file.base \in Nat /\ file.synced \in Nat /\ Len(file.records) \in Nat
        /\ file.synced <= Len(file.records)
    BY CertainIsHeld, Zenon
  <2>2. file \in LogFile
    BY Zenon DEF IInv, KindInv
  <2>3. CASE f = Synced(file)
    <3>1. SameBase(file, f) /\ f.base = file.base /\ f.synced = Len(file.records)
      BY <2>2, <2>3, SyncedFields, Zenon DEF SameBase
    <3>2. Lost(f) = Lost(file)
      BY <3>1, SameBaseSameLoss, Zenon
    <3>3. n <= file.base + Len(file.records)
      BY <2>1
    <3> QED
      BY <2>1, <3>1, <3>2, <3>3, Zenon
  <2>4. f \in {file, Synced(file)}
    BY <1>2, Zenon DEF AfterExit
  <2> QED
    BY <2>1, <2>3, <2>4, Zenon
<1> QED
  BY <1>1, <1>2, Zenon

(* A crash and the restart after it are Recover.                           *)
LEMMA OpenRecovers == ASSUME DInv, IInv', Open PROVE Abstract!Recover
<1>1. PICK f \in AfterPowerLoss \cup AfterExit : OpenFile(f)
  BY Zenon DEF Open
<1>2. /\ file' = f /\ shadow' = {} /\ issued' = Reaches(f) /\ acked' = issued'
      /\ stopping' = FALSE /\ rewriting' = FALSE
  BY <1>1, ZenonT(20) DEF OpenFile
<1>3. issued' \in 0..issued
  <2>1. SoundLog(f)
    BY SurvivorIsSound, Zenon DEF DInv
  <2>2. f \in LogFile /\ Reaches(f) <= issued
    BY <2>1, Zenon DEF SoundLog
  <2>3. Reaches(f) \in Nat /\ issued \in Nat
    BY <2>2, FileFields, KindFacts, Zenon DEF DInv, IInv
  <2> QED
    BY <1>2, <2>2, <2>3
<1>4. Abstract!Grows
  BY <1>2, SurvivorHolds, CertainGrows, Zenon DEF DInv
<1>5. (policy' = "always") \in BOOLEAN
  OBVIOUS
<1> QED
  BY <1>2, <1>3, <1>4, <1>5, Zenon DEF Abstract!Recover

(* For every size and limit: the files, the queues and the three threads   *)
(* together implement DurableLog.  Only Append lengthens the history, a    *)
(* restart finds all that is certain to survive, and only a shutdown that  *)
(* meets a rewrite ever makes it less.                                     *)
THEOREM AofImplementsDurableLog == Spec => ImplementsDurableLog
<1>1. Init /\ DInv => Abstract!LogInit
  <2> SUFFICES ASSUME Init, DInv PROVE Abstract!LogInit
    OBVIOUS
  <2>1. /\ issued = 0 /\ acked = 0 /\ stopping = FALSE /\ rewriting = FALSE
    BY Zenon DEF Init
  <2>2. ASSUME NEW n \in Certain PROVE FALSE
    <3>1. n \in 1..MaxAppends /\ n <= issued
      BY CertainIsHeld, Zenon DEF DInv, Certain
    <3> QED
      BY <2>1, <3>1
  <2>3. Certain = {} /\ (policy = "always") \in BOOLEAN
    BY <2>2
  <2> QED
    BY <2>1, <2>3, Zenon DEF Abstract!LogInit
<1>2. DInv /\ DInv' /\ [Next]_vars => [Abstract!LogNext]_Abstract!logVars
  <2> SUFFICES ASSUME DInv, IInv', [Next]_vars
               PROVE  Abstract!LogNext \/ UNCHANGED Abstract!logVars
    BY Zenon DEF DInv
  <2>1. CASE UNCHANGED vars
    <3>1. UNCHANGED <<policy, stopping, rewriting, issued, acked, file, shadow>>
      BY <2>1, Zenon DEF vars, callerVars, healthVars, rewriteVars, diskVars, fixedVars
    <3>2. Certain' = Certain
      BY <3>1, CertainStays, Zenon
    <3> QED
      BY <3>1, <3>2, Zenon DEF Abstract!logVars
  <2>2. CASE AppendAlways \/ AppendQueued
    BY <2>2, AppendsAccepted, Zenon DEF Abstract!LogNext
  <2>3. CASE Main
    BY <2>3, MainCompacts, Zenon DEF Abstract!LogNext
  <2>4. CASE Run
    BY <2>4, RunPersists, Zenon DEF Abstract!LogNext
  <2>5. CASE RunRewrite
    BY <2>5, RewritePersists, Zenon DEF Abstract!LogNext
  <2>6. CASE Open
    BY <2>6, OpenRecovers, Zenon DEF Abstract!LogNext
  <2>7. CASE Closed
    BY <2>1, <2>7, Zenon DEF Closed
  <2> QED
    BY <2>1, <2>2, <2>3, <2>4, <2>5, <2>6, <2>7, Zenon DEF Next
<1> QED
  BY <1>1, <1>2, Durability, PTL DEF Spec, ImplementsDurableLog, Abstract!LogSpec
=============================================================================
