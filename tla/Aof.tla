-------------------------------- MODULE Aof --------------------------------
(***************************************************************************)
(* The append-only file of src/server/aof.cpp: the server's main thread    *)
(* appends encoded commands, a worker thread writes and syncs them, and a  *)
(* rewrite thread builds a replacement file from a snapshot and the        *)
(* commands that overlap the rewrite.  The three share one mutex; a        *)
(* critical section is one action, and file I/O done outside the mutex is  *)
(* an action of its own.                                                   *)
(*                                                                         *)
(* A command is the number of its Append call, so a correct log is an      *)
(* initial segment of 1, 2, 3...  A snapshot taken after n commands is the *)
(* number n (the field base of a file) and the blocks it is written in; a  *)
(* database that was written to is always written in the same blocks.      *)
(*                                                                         *)
(* A definition whose name extends another's after an underscore, such as  *)
(* Synced_Skipped, is a deliberate bug: a run's properties are shown to    *)
(* notice it when it stands in for the definition that follows.            *)
(***************************************************************************)
EXTENDS Integers, Sequences

CONSTANTS
    Policies,                  \* the FsyncPolicy values a server may be started with
    MaxAppends,                \* bound: Append calls
    MaxRewrites,               \* bound: rewrites started by one process
    MaxCrashes,                \* bound: crashes
    RecordSize,                \* encoded bytes of command n
    BlockSize,                 \* encoded bytes of each block of a snapshot
    max_pending_bytes,         \* limits_ of the Aof
    max_pending_commands,
    max_snapshot_queue_bytes

ASSUME AofAssumption ==
    /\ Policies \subseteq {"always", "everysec", "no"}
    /\ MaxAppends \in Nat /\ MaxRewrites \in Nat /\ MaxCrashes \in Nat
    /\ RecordSize \in [1..MaxAppends -> Nat \ {0}]
    /\ BlockSize \in Seq(Nat \ {0})
    /\ max_pending_bytes \in Nat
    /\ max_pending_commands \in Nat
    /\ max_snapshot_queue_bytes \in Nat \ {0}

VARIABLES
    policy,                \* options_.fsync
    \* the caller's side (the event-loop thread)
    main,                  \* where the thread is
    next_block,            \* the snapshot block it queues next
    issued,                \* Append calls that encoded a command
    acked,                 \* the last of them that returned true
    opened,                \* the commands replayed when the file was opened
    \* state of the Aof object, under mutex_
    healthy, stopping, last_error,
    pending, pending_bytes, writing, syncing, dirty,
    rewriting, rewrite_failed, rewrite_status,
    snapshot_complete, snapshot_pending, snapshot_pending_bytes,
    rewrite_pending, rewrite_pending_bytes,
    current_size, base_size,
    \* the worker (Run) and the rewrite thread (RunRewrite)
    worker, worker_batch,
    rewriter, rewriter_batch, rewriter_error,
    asleep,                \* the threads blocked on a condition variable
    \* the file system: the file behind fd_, the temporary file, and the file
    \* the directory may still name after a power loss
    file, temp, shadow,
    rewrites, crashes

callerVars == <<main, next_block, issued, acked, opened>>
queueVars == <<pending, pending_bytes>>
ioVars == <<writing, syncing, dirty>>
healthVars == <<healthy, stopping, last_error>>
rewriteVars == <<rewriting, rewrite_failed, rewrite_status>>
snapshotVars == <<snapshot_complete, snapshot_pending, snapshot_pending_bytes>>
deltaVars == <<rewrite_pending, rewrite_pending_bytes>>
sizeVars == <<current_size, base_size>>
workerVars == <<worker, worker_batch>>
rewriterVars == <<rewriter, rewriter_batch, rewriter_error>>
diskVars == <<file, temp, shadow>>
fixedVars == <<policy, rewrites, crashes>>
vars == <<callerVars, queueVars, ioVars, healthVars, rewriteVars, snapshotVars,
          deltaVars, sizeVars, workerVars, rewriterVars, asleep, diskVars,
          fixedVars>>

-----------------------------------------------------------------------------
(* Files.  synced counts the records a successful fsync has covered.  The  *)
(* field lost is history and guards nothing: the database the snapshot     *)
(* shows may lack the effects of the commands 1..lost.                     *)

NoFile == [base |-> 0, lost |-> 0, blocks |-> <<>>, records |-> <<>>, synced |-> 0]

\* The snapshot of a database that nothing was written to has no blocks.
SnapshotLength(base) == IF base = 0 THEN 0 ELSE Len(BlockSize)

Bytes(queue, size) ==
    LET total[i \in 0..Len(queue)] ==
            IF i = 0 THEN 0 ELSE total[i - 1] + size[queue[i]]
    IN  total[Len(queue)]

FileBytes(f) == Bytes(f.blocks, BlockSize) + Bytes(f.records, RecordSize)

\* The last command of the log f.
Reaches(f) == f.base + Len(f.records)

(* A snapshot some of whose blocks were never written, and the commands    *)
(* whose effects a replay of f may therefore not reproduce.                *)
CutShort(f) == Len(f.blocks) < SnapshotLength(f.base)

Lost(f) == IF CutShort(f) THEN f.base ELSE f.lost

WithRecord(f, n) == [f EXCEPT !.records = Append(@, n)]

Synced_Skipped(f) == f

Synced(f) == [f EXCEPT !.synced = Len(f.records)]

-----------------------------------------------------------------------------
(* The mutex is held across steps only while a rewrite replaces the file. *)
MutexFree_ReleasedEarly == rewriter # "dirsync"

MutexFree == rewriter \notin {"rename", "dirsync"}

(* The waiters of work_available_ and of rewrite_state_changed_.  A thread *)
(* whose wait predicate is false sleeps until a notification; nothing else *)
(* makes it look again.                                                    *)
work_available == {"worker"}
rewrite_state_changed_NotifyOne == {"rewriter"}

rewrite_state_changed == {"main", "rewriter"}

Awake(thread) == thread \notin asleep

Notify(waiters) == asleep' = asleep \ waiters

(* Persistence stops: what is queued is dropped, and the flags say that no *)
(* I/O is under way even when the worker is in the middle of it.  Its      *)
(* callers notify rewrite_state_changed_ with it.                          *)
FailLocked(error) ==
    /\ healthy' = FALSE
    /\ last_error' = error
    /\ pending' = <<>>
    /\ pending_bytes' = 0
    /\ writing' = FALSE
    /\ syncing' = FALSE
    /\ dirty' = FALSE

FinishRewriteLocked(status, error) ==
    /\ snapshot_pending' = <<>>
    /\ snapshot_pending_bytes' = 0
    /\ rewrite_pending' = <<>>
    /\ rewrite_pending_bytes' = 0
    /\ snapshot_complete' = FALSE
    /\ rewriting' = FALSE
    /\ rewrite_failed' = (status = "failed")
    /\ rewrite_status' = status
    /\ last_error' = IF error = "none" THEN last_error ELSE error

(* A command that overlaps a rewrite also goes to the delta queue; when it *)
(* does not fit, the rewrite is given up.                                  *)
Buffering == rewriting /\ ~rewrite_failed

DeltaFits(n) ==
    /\ RecordSize[n] <= max_pending_bytes
    /\ rewrite_pending_bytes <= max_pending_bytes - RecordSize[n]
    /\ Len(rewrite_pending) < max_pending_commands

BufferRewriteCommandLocked(n) ==
    \/ /\ Buffering /\ DeltaFits(n)
       /\ rewrite_pending' = Append(rewrite_pending, n)
       /\ rewrite_pending_bytes' = rewrite_pending_bytes + RecordSize[n]
       /\ UNCHANGED <<rewrite_failed, rewrite_status>>
    \/ /\ Buffering /\ ~DeltaFits(n)
       /\ rewrite_pending' = <<>>
       /\ rewrite_pending_bytes' = 0
       /\ rewrite_failed' = TRUE
       /\ rewrite_status' = "failed"
    \/ /\ ~Buffering
       /\ UNCHANGED <<deltaVars, rewrite_failed, rewrite_status>>

ErrorAfterBuffering(n) ==
    IF Buffering /\ ~DeltaFits(n) THEN "queue_full" ELSE last_error

WokenByBuffering == IF Buffering THEN rewrite_state_changed ELSE {}

-----------------------------------------------------------------------------
(* Append.  Once the Aof is unhealthy or stopping, a call returns false    *)
(* and changes nothing, so only the other calls are steps.                 *)
CanAppend ==
    /\ main = "ready" /\ MutexFree
    /\ healthy /\ ~stopping
    /\ issued < MaxAppends

AppendLeaves == UNCHANGED <<main, next_block, opened, stopping, rewriting, snapshotVars,
                         base_size, workerVars, rewriterVars, temp, shadow, fixedVars>>

AppendAlways ==
    LET n == issued + 1 IN
    /\ policy = "always"
    /\ CanAppend
    /\ issued' = n
    /\ BufferRewriteCommandLocked(n)
    /\ \/ /\ file' = Synced(WithRecord(file, n))
          /\ current_size' = current_size + RecordSize[n]
          /\ acked' = n
          /\ last_error' = ErrorAfterBuffering(n)
          /\ Notify(WokenByBuffering)
          /\ UNCHANGED <<healthy, queueVars, ioVars>>
       \/ \* WriteAll fails, with at most a part of the record in the file
          /\ FailLocked("write")
          /\ Notify(rewrite_state_changed)
          /\ UNCHANGED <<file, current_size, acked>>
       \/ \* SyncFile fails
          /\ file' = WithRecord(file, n)
          /\ FailLocked("sync")
          /\ Notify(rewrite_state_changed)
          /\ UNCHANGED <<current_size, acked>>
    /\ AppendLeaves

QueueFull_RecordIgnored(n) ==
    \/ pending_bytes > max_pending_bytes
    \/ Len(pending) >= max_pending_commands

QueueFull(n) ==
    \/ RecordSize[n] > max_pending_bytes
    \/ pending_bytes > max_pending_bytes - RecordSize[n]
    \/ Len(pending) >= max_pending_commands

AppendQueued ==
    LET n == issued + 1 IN
    /\ policy # "always"
    /\ CanAppend
    /\ issued' = n
    /\ \/ /\ QueueFull(n)
          /\ FailLocked("queue_full")
          /\ Notify(rewrite_state_changed)
          /\ UNCHANGED <<current_size, acked, deltaVars, rewrite_failed, rewrite_status>>
       \/ /\ ~QueueFull(n)
          /\ pending' = Append(pending, n)
          /\ pending_bytes' = pending_bytes + RecordSize[n]
          /\ current_size' = current_size + RecordSize[n]
          /\ BufferRewriteCommandLocked(n)
          /\ last_error' = ErrorAfterBuffering(n)
          /\ acked' = n
          /\ Notify(WokenByBuffering \cup work_available)
          /\ UNCHANGED <<healthy, ioVars>>
    /\ UNCHANGED file
    /\ AppendLeaves

-----------------------------------------------------------------------------
(* StartRewrite, on the main thread.  Its early returns change nothing.    *)

StartRewrite ==
    /\ main = "ready" /\ MutexFree
    /\ healthy /\ ~stopping /\ ~rewriting
    /\ rewrites < MaxRewrites
    /\ main' = "create"
    /\ rewrites' = rewrites + 1
    /\ rewriting' = TRUE
    /\ rewrite_failed' = FALSE
    /\ snapshot_complete' = FALSE
    /\ snapshot_pending' = <<>> /\ snapshot_pending_bytes' = 0
    /\ rewrite_pending' = <<>> /\ rewrite_pending_bytes' = 0
    /\ last_error' = "none"
    /\ UNCHANGED <<next_block, issued, acked, opened, queueVars, ioVars, healthy, stopping,
                   rewrite_status, sizeVars, workerVars, rewriterVars, asleep, diskVars,
                   policy, crashes>>

(* mkstemp and what must succeed before the rewrite thread runs. *)
CreateFails_LeftRewriting ==
    /\ last_error' = "write"
    /\ rewrite_status' = "failed"
    /\ UNCHANGED <<rewriting, rewrite_failed, snapshotVars, deltaVars>>

CreateFails == FinishRewriteLocked("failed", "write")

CreateTemp ==
    /\ main = "create"
    /\ \/ /\ main' = "snapshot"
          /\ next_block' = 1
          /\ rewriter' = "snapshot"
          /\ temp' = [NoFile EXCEPT !.base = issued, !.lost = Lost(file)]
          /\ UNCHANGED <<rewriteVars, snapshotVars, deltaVars, last_error, asleep>>
       \/ /\ MutexFree
          /\ CreateFails
          /\ main' = "ready"
          /\ Notify(rewrite_state_changed)
          /\ UNCHANGED <<next_block, rewriter, temp>>
    /\ UNCHANGED <<issued, acked, opened, queueVars, ioVars, healthy, stopping, sizeVars,
                   workerVars, rewriter_batch, rewriter_error, file, shadow, fixedVars>>

(* QueueSnapshotBlock: the producer waits for room.  A block larger than   *)
(* the whole queue may enter an empty one.                                 *)
SnapshotRefused == ~rewriting \/ rewrite_failed \/ stopping

SnapshotHasRoom(size) ==
    \/ snapshot_pending = <<>>
    \/ /\ size <= max_snapshot_queue_bytes
       /\ snapshot_pending_bytes <= max_snapshot_queue_bytes - size

SnapshotWaitOver == SnapshotRefused \/ SnapshotHasRoom(BlockSize[next_block])

ProducerLeaves == UNCHANGED <<issued, acked, opened, queueVars, ioVars, healthy, stopping,
                              deltaVars, sizeVars, workerVars, rewriterVars, diskVars,
                              fixedVars>>

QueueSnapshotBlock ==
    /\ main = "snapshot" /\ Awake("main") /\ MutexFree
    /\ next_block <= SnapshotLength(issued)
    /\ \/ /\ ~SnapshotWaitOver
          /\ asleep' = asleep \cup {"main"}
          /\ UNCHANGED <<main, next_block, snapshot_pending, snapshot_pending_bytes>>
       \/ /\ SnapshotRefused
          /\ main' = "unbuilt"
          /\ UNCHANGED <<next_block, snapshot_pending, snapshot_pending_bytes, asleep>>
       \/ /\ ~SnapshotRefused /\ SnapshotHasRoom(BlockSize[next_block])
          /\ snapshot_pending' = Append(snapshot_pending, next_block)
          /\ snapshot_pending_bytes' = snapshot_pending_bytes + BlockSize[next_block]
          /\ next_block' = next_block + 1
          /\ Notify(rewrite_state_changed)
          /\ UNCHANGED main
    /\ UNCHANGED <<snapshot_complete, rewriteVars, last_error>>
    /\ ProducerLeaves

(* BuildSnapshot ends: all blocks are queued, or an object does not fit a  *)
(* replayable command (EmitFixedCommand).                                  *)
BuildSnapshot ==
    /\ main = "snapshot" /\ Awake("main")
    /\ \/ next_block > SnapshotLength(issued) /\ main' = "built"
       \/ next_block <= SnapshotLength(issued) /\ main' = "unbuilt"
    /\ UNCHANGED <<next_block, snapshotVars, rewriteVars, last_error, asleep>>
    /\ ProducerLeaves

FinishSnapshot ==
    /\ main \in {"built", "unbuilt"} /\ MutexFree
    /\ IF rewriting
       THEN /\ snapshot_complete' = TRUE
            /\ IF main = "unbuilt"
               THEN /\ rewrite_failed' = TRUE
                    /\ rewrite_status' = "failed"
                    /\ last_error' = "snapshot"
               ELSE UNCHANGED <<rewrite_failed, rewrite_status, last_error>>
       ELSE UNCHANGED <<snapshot_complete, rewrite_failed, rewrite_status, last_error>>
    /\ main' = IF main = "built" THEN "ready" ELSE "await"
    /\ Notify(rewrite_state_changed)
    /\ UNCHANGED <<next_block, snapshot_pending, snapshot_pending_bytes, rewriting>>
    /\ ProducerLeaves

WaitUntilRewriteIdle ==
    /\ main = "await" /\ Awake("main") /\ MutexFree
    /\ IF rewriting
       THEN asleep' = asleep \cup {"main"} /\ UNCHANGED main
       ELSE main' = "ready" /\ UNCHANGED asleep
    /\ UNCHANGED <<next_block, snapshotVars, rewriteVars, last_error>>
    /\ ProducerLeaves

-----------------------------------------------------------------------------
(* The destructor: stop, join the rewrite thread, then the worker. *)

Destroy ==
    /\ \/ /\ main = "ready" /\ MutexFree
          /\ stopping' = TRUE
          /\ main' = "join_rewriter"
          /\ Notify(work_available \cup rewrite_state_changed)
       \/ /\ main = "join_rewriter" /\ rewriter = "none"
          /\ main' = "join_worker"
          /\ UNCHANGED <<stopping, asleep>>
       \/ /\ main = "join_worker" /\ worker = "done"
          /\ main' = "closed"
          /\ UNCHANGED <<stopping, asleep>>
    /\ UNCHANGED <<next_block, issued, acked, opened, queueVars, ioVars, healthy, last_error,
                   rewriteVars, snapshotVars, deltaVars, sizeVars, workerVars, rewriterVars,
                   diskVars, fixedVars>>

-----------------------------------------------------------------------------
(* Run, the worker of the "everysec" and "no" policies.                    *)

WorkerWakeUp == stopping \/ pending # <<>> \/ ~healthy

WorkerLeaves == UNCHANGED <<callerVars, stopping, rewriteVars, snapshotVars, deltaVars,
                            sizeVars, rewriterVars, temp, shadow, fixedVars>>

(* The locked head of the loop: wait, or start what there is to do.  Under *)
(* "everysec" the wait on a dirty file has a deadline; that it has passed  *)
(* is a choice.                                                            *)
WorkerWait ==
    /\ worker = "loop" /\ Awake("worker") /\ MutexFree
    /\ ~WorkerWakeUp
    /\ asleep' = asleep \cup {"worker"}
    /\ UNCHANGED <<worker, worker_batch, queueVars, ioVars, healthy, last_error, file>>
    /\ WorkerLeaves

WaitHasDeadline_Untimed == FALSE

WaitHasDeadline == policy = "everysec" /\ dirty

ShouldSyncAtStop_Dropped == FALSE

ShouldSyncAtStop_Always == stopping

ShouldSyncAtStop == stopping /\ dirty

BeginSync ==
    /\ worker = "loop" /\ MutexFree
    /\ \/ ~WorkerWakeUp /\ WaitHasDeadline
       \/ Awake("worker") /\ healthy /\ pending = <<>> /\ ShouldSyncAtStop
    /\ syncing' = TRUE
    /\ worker' = "sync"
    /\ asleep' = asleep \ {"worker"}
    /\ UNCHANGED <<worker_batch, queueVars, writing, dirty, healthy, last_error, file>>
    /\ WorkerLeaves

BeginWrite ==
    /\ worker = "loop" /\ Awake("worker") /\ MutexFree
    /\ healthy /\ pending # <<>>
    /\ worker_batch' = pending
    /\ pending' = <<>> /\ pending_bytes' = 0
    /\ writing' = TRUE
    /\ worker' = "write"
    /\ UNCHANGED <<syncing, dirty, healthy, last_error, file, asleep>>
    /\ WorkerLeaves

WorkerReturn ==
    /\ worker = "loop" /\ Awake("worker") /\ MutexFree
    /\ \/ ~healthy
       \/ pending = <<>> /\ stopping /\ ~ShouldSyncAtStop
    /\ worker' = "done"
    /\ UNCHANGED <<worker_batch, queueVars, ioVars, healthy, last_error, file, asleep>>
    /\ WorkerLeaves

(* WriteBatch, a record at a time and without the mutex. *)
WorkerWrite ==
    /\ worker = "write" /\ worker_batch # <<>>
    /\ file' = WithRecord(file, Head(worker_batch))
    /\ worker_batch' = Tail(worker_batch)
    /\ UNCHANGED <<worker, queueVars, ioVars, healthy, last_error, asleep>>
    /\ WorkerLeaves

WorkerWrote ==
    /\ worker = "write" /\ MutexFree
    /\ \/ /\ worker_batch = <<>>
          /\ writing' = FALSE
          /\ dirty' = TRUE
          /\ worker' = "loop"
          /\ UNCHANGED <<worker_batch, queueVars, syncing, healthy, last_error>>
       \/ \* the write of the next record failed
          /\ worker_batch # <<>>
          /\ FailLocked("write")
          /\ worker' = "done"
          /\ worker_batch' = <<>>
    /\ Notify(rewrite_state_changed)
    /\ UNCHANGED file
    /\ WorkerLeaves

WorkerSync ==
    /\ worker = "sync"
    /\ \/ file' = Synced(file) /\ worker' = "synced"
       \/ worker' = "sync_failed" /\ UNCHANGED file
    /\ UNCHANGED <<worker_batch, queueVars, ioVars, healthy, last_error, asleep>>
    /\ WorkerLeaves

WorkerSynced ==
    /\ MutexFree
    /\ \/ /\ worker = "synced"
          /\ syncing' = FALSE
          /\ dirty' = FALSE
          /\ worker' = "loop"
          /\ UNCHANGED <<queueVars, writing, healthy, last_error>>
       \/ /\ worker = "sync_failed"
          /\ FailLocked("sync")
          /\ worker' = "done"
    /\ Notify(rewrite_state_changed)
    /\ UNCHANGED <<worker_batch, file>>
    /\ WorkerLeaves

-----------------------------------------------------------------------------
(* RunRewrite.  The first loop writes the snapshot, the second the delta.  *)
(* A failure or a shutdown ends the first loop with succeeded still true;  *)
(* the second then gives up after a failure, but after a shutdown it goes  *)
(* on to replace the log, whatever is left in snapshot_pending_.           *)

RewriterLeaves == UNCHANGED <<callerVars, stopping, workerVars, fixedVars>>

Unfinished == UNCHANGED <<rewriteVars, rewrite_pending, rewrite_pending_bytes, queueVars,
                          ioVars, healthy, last_error, sizeVars, file, shadow>>

LeaveLoop == rewriter_error' = IF last_error = "none" THEN "snapshot" ELSE last_error

TakeSnapshot ==
    /\ rewriter = "snapshot" /\ Awake("rewriter") /\ MutexFree
    /\ \/ /\ healthy /\ ~rewrite_failed /\ ~stopping
          /\ snapshot_pending = <<>> /\ ~snapshot_complete
          /\ asleep' = asleep \cup {"rewriter"}
          /\ UNCHANGED <<rewriterVars, snapshot_pending, snapshot_pending_bytes>>
       \/ /\ ~healthy \/ rewrite_failed \/ stopping
          /\ LeaveLoop
          /\ rewriter' = "delta"
          /\ UNCHANGED <<rewriter_batch, snapshot_pending, snapshot_pending_bytes, asleep>>
       \/ /\ healthy /\ ~rewrite_failed /\ ~stopping
          /\ snapshot_pending = <<>> /\ snapshot_complete
          /\ rewriter' = "delta"
          /\ UNCHANGED <<rewriter_batch, rewriter_error, snapshot_pending,
                         snapshot_pending_bytes, asleep>>
       \/ /\ healthy /\ ~rewrite_failed /\ ~stopping
          /\ snapshot_pending # <<>>
          /\ rewriter_batch' = snapshot_pending
          /\ snapshot_pending' = <<>> /\ snapshot_pending_bytes' = 0
          /\ rewriter' = "write_snapshot"
          /\ Notify(rewrite_state_changed)
          /\ UNCHANGED rewriter_error
    /\ UNCHANGED <<snapshot_complete, temp>>
    /\ Unfinished
    /\ RewriterLeaves

(* WriteBatch on the temporary file, of either loop. *)
RewriterWrite ==
    /\ \/ /\ rewriter = "write_snapshot" /\ rewriter_batch # <<>>
          /\ temp' = [temp EXCEPT !.blocks = Append(@, Head(rewriter_batch))]
          /\ rewriter_batch' = Tail(rewriter_batch)
          /\ UNCHANGED <<rewriter, rewriter_error>>
       \/ /\ rewriter = "write_delta" /\ rewriter_batch # <<>>
          /\ temp' = WithRecord(temp, Head(rewriter_batch))
          /\ rewriter_batch' = Tail(rewriter_batch)
          /\ UNCHANGED <<rewriter, rewriter_error>>
       \/ /\ rewriter \in {"write_snapshot", "write_delta"} /\ rewriter_batch = <<>>
          /\ rewriter' = IF rewriter = "write_snapshot" THEN "snapshot" ELSE "delta"
          /\ UNCHANGED <<temp, rewriter_batch, rewriter_error>>
       \/ \* the write fails
          /\ rewriter \in {"write_snapshot", "write_delta"} /\ rewriter_batch # <<>>
          /\ rewriter' = "abort"
          /\ rewriter_error' = "write"
          /\ rewriter_batch' = <<>>
          /\ UNCHANGED temp
    /\ UNCHANGED <<snapshotVars, asleep>>
    /\ Unfinished
    /\ RewriterLeaves

WriterIdle_PendingIgnored == ~writing /\ ~syncing

WriterIdle_SyncIgnored == ~writing /\ pending = <<>>

WriterIdle == ~writing /\ ~syncing /\ pending = <<>>

DeltaDrained_DeltaIgnored == healthy /\ ~rewrite_failed

DeltaDrained == healthy /\ ~rewrite_failed /\ rewrite_pending = <<>>

TakeDelta ==
    /\ rewriter = "delta" /\ Awake("rewriter") /\ MutexFree
    /\ \/ /\ DeltaDrained /\ ~WriterIdle
          /\ asleep' = asleep \cup {"rewriter"}
          /\ UNCHANGED <<rewriterVars, deltaVars>>
       \/ /\ ~healthy \/ rewrite_failed
          /\ LeaveLoop
          /\ rewriter' = "abort"
          /\ UNCHANGED <<rewriter_batch, deltaVars, asleep>>
       \/ /\ healthy /\ ~rewrite_failed /\ rewrite_pending # <<>>
          /\ rewriter_batch' = rewrite_pending
          /\ rewrite_pending' = <<>> /\ rewrite_pending_bytes' = 0
          /\ rewriter' = "write_delta"
          /\ UNCHANGED <<rewriter_error, asleep>>
    /\ UNCHANGED <<snapshotVars, rewriteVars, queueVars, ioVars, healthy, last_error,
                   sizeVars, diskVars>>
    /\ RewriterLeaves

(* The end of a rewrite, in one critical section: size and sync the        *)
(* temporary file, rename it over the log, swap fd_, sync the directory.   *)
ThreadEnds == rewriter' = "none" /\ rewriter_error' = "none"

RewriteFails(error) ==
    /\ FinishRewriteLocked("failed", error)
    /\ ThreadEnds
    /\ Notify(work_available \cup rewrite_state_changed)

SyncTemp ==
    /\ rewriter = "delta" /\ Awake("rewriter")
    /\ DeltaDrained /\ WriterIdle
    /\ \/ /\ temp' = Synced(temp)
          /\ rewriter' = "rename"
          /\ UNCHANGED <<rewriter_error, rewriteVars, snapshotVars, deltaVars, last_error, asleep>>
       \/ /\ \E error \in {"write", "sync"} : RewriteFails(error)
          /\ temp' = NoFile
    /\ UNCHANGED <<rewriter_batch, queueVars, ioVars, healthy, sizeVars, file, shadow>>
    /\ RewriterLeaves

Rename ==
    /\ rewriter = "rename"
    /\ \/ /\ file' = temp
          /\ shadow' = {file}
          /\ dirty' = FALSE
          /\ current_size' = FileBytes(temp)
          /\ base_size' = FileBytes(temp)
          /\ rewriter' = "dirsync"
          /\ UNCHANGED <<rewriter_error, rewriteVars, snapshotVars, deltaVars, last_error, asleep>>
       \/ /\ RewriteFails("rename")
          /\ UNCHANGED <<file, shadow, dirty, sizeVars>>
    /\ temp' = NoFile
    /\ UNCHANGED <<rewriter_batch, queueVars, writing, syncing, healthy>>
    /\ RewriterLeaves

SyncParentDirectory ==
    /\ rewriter = "dirsync"
    /\ \/ /\ shadow' = {}
          /\ FinishRewriteLocked("succeeded", rewriter_error)
          /\ ThreadEnds
          /\ Notify(work_available \cup rewrite_state_changed)
          /\ UNCHANGED <<healthy, queueVars, ioVars>>
       \/ /\ FailLocked("directory_sync")
          /\ RewriteFails("directory_sync")
          /\ UNCHANGED shadow
    /\ UNCHANGED <<rewriter_batch, sizeVars, file, temp>>
    /\ RewriterLeaves

AbortRewrite ==
    /\ rewriter = "abort" /\ MutexFree
    /\ temp' = NoFile
    /\ FinishRewriteLocked("failed", rewriter_error)
    /\ ThreadEnds
    /\ Notify(rewrite_state_changed)
    /\ UNCHANGED <<rewriter_batch, queueVars, ioVars, healthy, sizeVars, file, shadow>>
    /\ RewriterLeaves

-----------------------------------------------------------------------------
(* The process dies and starts again.  A process crash keeps all that was  *)
(* written.  A power loss keeps what was synced and any part of the rest,  *)
(* in the renamed file or, while the directory is not synced, in the one   *)
(* it replaced.  Open syncs the directory and replays the file; an         *)
(* incomplete last record is cut off, and the cut is synced.               *)

Kept(f, n) == [f EXCEPT !.records = SubSeq(@, 1, n), !.synced = n]

AfterPowerLoss ==
    UNION {{Kept(f, n) : n \in f.synced..Len(f.records)} : f \in {file} \cup shadow}

AfterExit == {file, Synced(file)}

Init ==
    /\ policy \in Policies
    /\ file = NoFile /\ temp = NoFile /\ shadow = {}
    /\ main = "ready" /\ next_block = 1
    /\ issued = 0 /\ acked = 0 /\ opened = 0
    /\ healthy = TRUE /\ stopping = FALSE /\ last_error = "none"
    /\ pending = <<>> /\ pending_bytes = 0
    /\ writing = FALSE /\ syncing = FALSE /\ dirty = FALSE
    /\ rewriting = FALSE /\ rewrite_failed = FALSE /\ rewrite_status = "never_run"
    /\ snapshot_complete = FALSE
    /\ snapshot_pending = <<>> /\ snapshot_pending_bytes = 0
    /\ rewrite_pending = <<>> /\ rewrite_pending_bytes = 0
    /\ current_size = 0 /\ base_size = 0
    /\ worker = (IF policy = "always" THEN "done" ELSE "loop") /\ worker_batch = <<>>
    /\ rewriter = "none" /\ rewriter_batch = <<>> /\ rewriter_error = "none"
    /\ asleep = {}
    /\ rewrites = 0 /\ crashes = 0

OpenFile(f) ==
    /\ policy' \in Policies
    /\ file' = f /\ temp' = NoFile /\ shadow' = {}
    /\ main' = "ready" /\ next_block' = 1
    /\ issued' = Reaches(f) /\ acked' = Reaches(f) /\ opened' = Reaches(f)
    /\ healthy' = TRUE /\ stopping' = FALSE /\ last_error' = "none"
    /\ pending' = <<>> /\ pending_bytes' = 0
    /\ writing' = FALSE /\ syncing' = FALSE /\ dirty' = FALSE
    /\ rewriting' = FALSE /\ rewrite_failed' = FALSE /\ rewrite_status' = "never_run"
    /\ snapshot_complete' = FALSE
    /\ snapshot_pending' = <<>> /\ snapshot_pending_bytes' = 0
    /\ rewrite_pending' = <<>> /\ rewrite_pending_bytes' = 0
    /\ current_size' = FileBytes(f) /\ base_size' = FileBytes(f)
    /\ worker' = (IF policy' = "always" THEN "done" ELSE "loop") /\ worker_batch' = <<>>
    /\ rewriter' = "none" /\ rewriter_batch' = <<>> /\ rewriter_error' = "none"
    /\ asleep' = {}

Open ==
    /\ crashes < MaxCrashes
    /\ \E f \in AfterPowerLoss \cup AfterExit : OpenFile(f)
    /\ crashes' = crashes + 1
    /\ rewrites' = 0

Main ==
    \/ StartRewrite \/ CreateTemp \/ QueueSnapshotBlock \/ BuildSnapshot
    \/ FinishSnapshot \/ WaitUntilRewriteIdle \/ Destroy

Run ==
    \/ WorkerWait \/ BeginSync \/ BeginWrite \/ WorkerReturn
    \/ WorkerWrite \/ WorkerWrote \/ WorkerSync \/ WorkerSynced

RunRewrite ==
    \/ TakeSnapshot \/ RewriterWrite \/ TakeDelta \/ SyncTemp \/ Rename
    \/ SyncParentDirectory \/ AbortRewrite

(* A closed log is not used again until the next Open. *)
Closed == main = "closed" /\ UNCHANGED vars

Next ==
    \/ AppendAlways \/ AppendQueued \/ Main \/ Run \/ RunRewrite \/ Open \/ Closed

Spec == Init /\ [][Next]_vars
=============================================================================
