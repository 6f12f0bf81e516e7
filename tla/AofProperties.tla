---------------------------- MODULE AofProperties ----------------------------
(* What the append-only file guarantees, and under which fairness. *)
EXTENDS Aof

FileType ==
    [base : 0..MaxAppends, lost : 0..MaxAppends, blocks : Seq(1..Len(BlockSize)),
     records : Seq(1..MaxAppends), synced : 0..MaxAppends]

Errors == {"none", "queue_full", "write", "sync", "rename", "directory_sync", "snapshot"}

(* The queues between the threads respect their limits, and their byte     *)
(* counters are exact; only a single oversized block exceeds the limit of  *)
(* the snapshot queue.                                                     *)
QueuesBounded ==
    /\ pending_bytes = Bytes(pending, RecordSize)
    /\ rewrite_pending_bytes = Bytes(rewrite_pending, RecordSize)
    /\ snapshot_pending_bytes = Bytes(snapshot_pending, BlockSize)
    /\ pending_bytes <= max_pending_bytes
    /\ rewrite_pending_bytes <= max_pending_bytes
    /\ Len(pending) <= max_pending_commands
    /\ Len(rewrite_pending) <= max_pending_commands
    /\ \/ snapshot_pending_bytes <= max_snapshot_queue_bytes
       \/ Len(snapshot_pending) = 1

(* Every variable of the Aof object, its threads and its files has a value *)
(* of its kind, and Append, Run and RunRewrite keep the queues bounded.    *)
TypeOK ==
    /\ policy \in Policies
    /\ main \in {"ready", "create", "snapshot", "built", "unbuilt", "await",
                 "join_rewriter", "join_worker", "closed"}
    /\ next_block \in 1..Len(BlockSize) + 1
    /\ issued \in 0..MaxAppends /\ acked \in 0..MaxAppends /\ opened \in 0..MaxAppends
    /\ healthy \in BOOLEAN /\ stopping \in BOOLEAN /\ last_error \in Errors
    /\ pending \in Seq(1..MaxAppends) /\ pending_bytes \in Nat
    /\ writing \in BOOLEAN /\ syncing \in BOOLEAN /\ dirty \in BOOLEAN
    /\ rewriting \in BOOLEAN /\ rewrite_failed \in BOOLEAN
    /\ rewrite_status \in {"never_run", "succeeded", "failed"}
    /\ snapshot_complete \in BOOLEAN
    /\ snapshot_pending \in Seq(1..Len(BlockSize)) /\ snapshot_pending_bytes \in Nat
    /\ rewrite_pending \in Seq(1..MaxAppends) /\ rewrite_pending_bytes \in Nat
    /\ current_size \in Int /\ base_size \in Int
    /\ worker \in {"loop", "write", "sync", "synced", "sync_failed", "done"}
    /\ worker_batch \in Seq(1..MaxAppends)
    /\ rewriter \in {"none", "snapshot", "write_snapshot", "delta", "write_delta",
                     "rename", "dirsync", "abort"}
    /\ rewriter_batch \in Seq(1..MaxAppends) \cup Seq(1..Len(BlockSize))
    /\ rewriter_error \in Errors
    /\ asleep \subseteq {"main", "worker", "rewriter"}
    /\ file \in FileType /\ temp \in FileType /\ shadow \in SUBSET FileType
    /\ rewrites \in 0..MaxRewrites /\ crashes \in 0..MaxCrashes
    /\ QueuesBounded

-----------------------------------------------------------------------------
(* The commands that survive whatever a power loss does next: they are in  *)
(* the snapshot or among the synced records of every file the directory    *)
(* may name.                                                               *)
Logs == {file} \cup shadow

OnDisk(n) == \A f \in Logs : n <= f.base + f.synced

Certain == {n \in 1..MaxAppends : OnDisk(n) /\ \A f \in Logs : Lost(f) < n}

(* The commands a shutdown lost: it put a snapshot that holds them in the  *)
(* place of the log before all of the snapshot was written.                *)
CutOffByShutdown(n) == stopping /\ \E f \in Logs : CutShort(f) /\ n <= f.base

IsRun(s, from) == s = [i \in 1..Len(s) |-> from + i]

IsLog(f) ==
    /\ IsRun(f.blocks, 0) /\ Len(f.blocks) <= SnapshotLength(f.base)
    /\ IsRun(f.records, f.base)

(* Replaying the log reproduces an initial segment of the commands: a      *)
(* snapshot and then every later command once and in order, although       *)
(* Append, Run and RunRewrite handle the commands of a rewrite twice.  As  *)
(* long as the log is not shut down it holds all that came since Open.     *)
(* The file a rewrite is about to put in its place ends with the same      *)
(* command, and lacks only the blocks that a shutdown left in              *)
(* snapshot_pending_.                                                      *)
LogComplete ==
    /\ \A f \in Logs : IsLog(f) /\ (Lost(f) <= opened \/ stopping)
    /\ rewriter = "rename" =>
          /\ Reaches(file) = issued /\ Reaches(temp) = issued
          /\ IsRun(temp.records, temp.base)
          /\ IsRun(temp.blocks \o snapshot_pending, 0)
          /\ Len(temp.blocks \o snapshot_pending) = SnapshotLength(temp.base)
          /\ snapshot_pending = <<>> \/ stopping

(* "always": Append returns true only for a command that no crash loses,   *)
(* even one that falls inside a rewrite or between its rename and the sync *)
(* of the directory; only a shutdown during a rewrite may lose it.         *)
AlwaysIsDurable ==
    policy = "always" =>
        \A n \in opened + 1..acked : OnDisk(n) /\ (n \in Certain \/ CutOffByShutdown(n))

(* Once the destructor has joined both threads of a healthy log, every     *)
(* command it accepted since Open is on disk, whichever the policy, except *)
(* those that were only in a snapshot the shutdown cut short.              *)
ShutdownDrains ==
    main = "closed" /\ healthy =>
        \A n \in opened + 1..acked : OnDisk(n) /\ (n \in Certain \/ CutOffByShutdown(n))

(* README.md, of the append-only file: "Graceful shutdown drains and syncs *)
(* the queue", and a rewrite is "a point-in-time database snapshot" that   *)
(* preserves "the original file if rewriting fails before the atomic       *)
(* replacement".  So a log closed in good health would hold all it         *)
(* accepted.  ~Aof during a rewrite breaks this: RunRewrite leaves its     *)
(* first loop with blocks unwritten and replaces the log all the same.     *)
ShutdownKeepsCommands ==
    main = "closed" /\ healthy => opened + 1..acked \subseteq Certain

(* current_size_, which decides automatic rewrites, is the size of the     *)
(* file once what is queued is written, before and after fd_ is swapped.   *)
SizeMatchesFile ==
    healthy => current_size = FileBytes(file) + Bytes(worker_batch, RecordSize)
                              + Bytes(pending, RecordSize)

(* The rewrite thread replaces and closes fd_ only when the worker has no  *)
(* system call on it, although FailLocked clears writing_ and syncing_     *)
(* while the worker is inside one.                                         *)
NoSwapDuringIO ==
    rewriter \in {"rename", "dirsync"} =>
        worker \in {"loop", "done"} /\ worker_batch = <<>> /\ pending = <<>>

(* No wakeup is lost: a thread sleeps on a condition variable only while   *)
(* its predicate is false.  The one exception is that FailLocked does not  *)
(* notify work_available_, so a worker may sleep over a failed log until   *)
(* the destructor wakes it.                                                *)
NoLostWakeup ==
    /\ "worker" \in asleep => pending = <<>> /\ ~stopping
    /\ "main" \in asleep /\ main = "snapshot" => ~SnapshotWaitOver
    /\ "main" \in asleep /\ main = "await" => rewriting
    /\ "rewriter" \in asleep /\ rewriter = "snapshot" =>
          /\ healthy /\ ~rewrite_failed /\ ~stopping
          /\ snapshot_pending = <<>> /\ ~snapshot_complete
    /\ "rewriter" \in asleep /\ rewriter = "delta" => DeltaDrained /\ ~WriterIdle

-----------------------------------------------------------------------------
(* The threads keep running; calls of the server and faults are free. *)
Fairness ==
    /\ WF_vars(Run) /\ WF_vars(RunRewrite)
    /\ WF_vars(CreateTemp \/ QueueSnapshotBlock \/ BuildSnapshot \/ FinishSnapshot
               \/ WaitUntilRewriteIdle)
    /\ WF_vars(stopping /\ Destroy)

FairSpec == Spec /\ Fairness

(* BGREWRITEAOF always returns to the event loop: the snapshot producer    *)
(* never waits for ever on a full queue, an oversized block or a rewrite   *)
(* thread that gave up.  The rewrite ends too, with the log replaced or    *)
(* kept.                                                                   *)
RewriteEnds ==
    /\ (main \in {"create", "snapshot", "await"}) ~> (main = "ready")
    /\ rewriting ~> ~rewriting

(* The destructor ends: both joins return. *)
ShutdownEnds == stopping ~> (main = "closed" \/ ~stopping)

(* "everysec": while the log stays healthy and the process up, a command   *)
(* that was accepted is certain in the end without any further command,    *)
(* unless a shutdown cuts it off.                                          *)
EverySecSyncs ==
    \A n \in 1..MaxAppends :
        (policy = "everysec" /\ acked = n /\ acked > opened) ~>
            (n \in Certain \/ CutOffByShutdown(n) \/ ~healthy \/ acked < n \/ opened >= n)

-----------------------------------------------------------------------------
Abstract == INSTANCE DurableLog WITH
    MaxCommands <- MaxAppends, synchronous <- (policy = "always"),
    closing <- stopping, compacting <- rewriting, certain <- Certain

(* The file system, the queues and the threads together implement the      *)
(* durable history of DurableLog.                                          *)
ImplementsDurableLog == Abstract!LogSpec
=============================================================================
