# Formal models of redis_simple

redis_simple is a Redis-compatible server in C++: one event-loop thread that
owns the keyspace and the client connections, a writer thread and a rewrite
thread behind the append-only file, and a thread that frees large values. This
directory holds TLA+ models of it, configurations that check them with TLC, and
proofs checked with TLAPS. Every definition is translated from the code under
`src/`; `PROJECT.json` maps each one to its lines.

## 1. The system and its parts

| Part | Code | State | Modules |
|---|---|---|---|
| Append-only file | `server/aof.*` | queue, flags under one mutex, two threads, files | `Aof`, `AofProperties`, `DurableLog`, `MCAof`; proofs `AofInvariant`, `AofDurability` |
| Keyspace, expiration, replay | `server/db/db.*`, `server/expire.*`, `Aof::Encode`, `Aof::Replay`, key and string commands | `dict_`, `expires_`, `loading_` | `Keyspace`, `MCKeyspace`; proofs `KeyspaceProofs`, `ReplayCommands`, `ReplayProofs` |
| Hash table | `memory/dict.h` | two tables, counters, `rehash_idx_`, scan cursor | `Dict`, `DictScan`, `DictMap`, `MCDict` |
| Event loop, connections, clients, shutdown | `event_loop/*`, `connection/*`, `server/client*`, `server/server.*`, `server/shutdown.*` | registrations, ready events, buffers, flags | `EventLoop`, `Server`, `ServerProperties`, `MCServer` |
| Requests, replies and the bytes of the log | `server/request_parser.*`, `server/reply.*`, `memory/dynamic_buffer.*`, `server/client.cpp`, `Aof::Replay`, `cli/*` | input buffers with their cursors, the log file, both streams of a connection | `RequestParser`, `RespParser`, `Reply`, `DynamicBuffer`, `Session`, `MCSession` |
| Reply buffer | `memory/reply_buffer.*` | fixed buffer, overflow nodes, `sent_` | `ReplyBuffer`, `ByteQueue` |
| Background reclamation | `server/db/async_reclaimer.*` | queue, batch, condition variables | `AsyncReclaimer`; proofs `AsyncReclaimerProofs` |
| Compact encodings | `memory/listpack.*`, `quicklist.*`, `intset.*` | bytes, nodes, widths | `ListPack`, `QuickList`, `IntSet` |
| Skiplist | `memory/skiplist.h` | links, spans, backward links | `Skiplist`, `RangeSpec` |
| Lists, sets, hashes, sorted sets | `data_types/*` | an encoding and its representation | `List`, `Set`, `Hash`, `ZSet`, `ZSetListPack` |
| Collection commands | `server/commands/{list,set,hash,zset}` | the object of one key | `DataTypes`, `DataTypesProperties`, `Collections`, `MCDataTypes` |

How the parts meet. The loop reads a request into a client's query buffer,
executes it on the keyspace, queues the reply and hands a mutation to
`Aof::Append`; the reply leaves through the reply buffer when the socket takes
it. `ServerCron` runs expiration and notices a stop signal or a failed log. A
rewrite walks the keyspace from the loop thread while the rewrite thread writes
what it produces. `UNLINK` and overwrites give large values to the reclaimer.
Each model abstracts its neighbours by what they promise: `Server` treats the
reply buffer as the byte queue that `ReplyBuffer` is shown to be and the log as
something that may fail at any moment; `Aof` treats a command as a number and a
snapshot as the number of commands it covers; `Keyspace` treats the log as the
database that replaying it would give; `Session` follows the bytes of one
client's requests and replies and of the log, and abstracts the database to the
mutations it was built by; the collection types use `Dict` as the map it is
shown to be.

## 2. The modules

**Aof.** Three threads and one mutex. A critical section is one action; file I/O
outside the mutex is an action of its own. `main` is the event loop inside the
Aof object's calls (`Append`, a rewrite's `CreateTemp` and snapshot production,
the destructor), `worker` the position of `Run`, `rewriter` that of
`RunRewrite`. `asleep` holds the threads blocked on a condition variable: a
predicate is evaluated when a thread arrives, and only `work_available` and
`rewrite_state_changed`, where the code notifies, wake it. A file is its
snapshot, its records and how many of them an fsync has covered; `shadow` is the
old file while a power loss could still bring it back, between the rename and
the sync of the directory. Writes, syncs, the rename and the directory sync can
fail, and a crash (of the process, or of the power) can come between any two
steps; reopening replays what is left. Starting a rewrite is a free choice, so
the size test of `ShouldAutoRewrite` is not needed. A shutdown ends the first loop
of `RunRewrite` and not the rewrite: the second loop goes on with whatever blocks
were written, so a file's snapshot may lack blocks (`CutShort`), and `Lost` tells
which commands a replay may therefore not reproduce, also after the next rewrite
has made a whole snapshot of what was left. `DurableLog` is the abstract history:
commands are accepted in order, those certain to survive stay certain through every
crash, and only a shutdown during a compaction takes an initial part of them away
(`CutOff`).

**Keyspace.** `live` is the database the server answers from, `replayed` the one
that `Aof::Replay` would rebuild at this moment. Handlers are operators on a
database value because replay runs the same handlers, with `loading_` set so that
nothing expires. `ProcessCommand` executes a command on `live`, and what `Encode`
makes of it on `replayed`; `Tick` moves the clock, `ExpireSome` is the active
cycle with any sample, `Rewrite` replaces the log by a snapshot, `Restart` makes
the replayed database the live one. An object is its type and its elements:
"list" stands for the types whose key goes with the last element; "set" marks the
database modified only when an element is new, as `SADD` does, and "zset" whenever
it succeeds, as `ZADD` does. Removals are logged when they removed something;
`LTRIM` is logged whatever it did, also on a key that is not there. `diverged` is
history: the keys whose log no longer describes them.

**Dict, DictScan.** A bucket is a set of entries, and a search looks only into
the bucket of the key's hash, in the tables the code visits. Every operation
takes the rehash step the code takes first, expands when the code does, and drops
the old table when its counter reaches zero. `DictScan` adds one client that
scans while the other operations go on. `DictMap` is the abstract map.

**EventLoop, Server.** A registration exists three times, in the poller, in the
loop's `FileEvent` and in the `Connection`; the operators of `EventLoop` change
all three the way `CreateFileEvent`, `DeleteFileEvent`, `Set*Callback`,
`Unset*Callback` and `Close` do. `Server` is the loop as a program counter: poll,
dispatch each ready descriptor, execute each pipelined request, write, run the
deferred callbacks, run the timer. Descriptors are reused as the kernel reuses
them. Peers connect, send whole or half requests, stop reading, half-close or
reset; the kernel may refuse a new registration; a signal and a failed log come
at any time. A reply is a run of bytes that carry the number of the command they
answer, and a peer's socket takes any part of what is offered.

**DynamicBuffer, RequestParser, Reply, RespParser, Session.** A buffer is its
bytes, the number already processed and the capacity, with the compaction, growth
and shrinking of the code. `RequestParser` and `RespParser` are the two parsers
over sequences of bytes: complete, incomplete or invalid, and the arguments as
views into the buffer, which `Session` reads only after the buffer was consumed, as
`Client` does. `Reply` is the encoder for both protocol versions. `Session`
composes a command line client, the server's `Client` and the log: a user adds
commands (as arguments or as typed lines), the connection cuts both streams at
any byte, a reply is waited for, comes, or times out, a mutation is appended to
the log as `Encode` and `EncodeCommand` write it, a crash cuts the file at any
byte, and `Aof::Replay` reads it back in chunks of any size, refuses it or
truncates its torn end. Commands are one letter long and the limits are scaled.

**ReplyBuffer.** The fixed buffer, the nodes behind it and `sent_`, whose meaning
depends on which is in use; `AppendView` and `AppendOwned`; one action for a
write of the buffer or a `writev` of several blocks that ends anywhere. Bytes
are numbered, so `ByteQueue` sees a lost, doubled or misplaced one.

**AsyncReclaimer.** `Reclaim` and its notification after the unlock,
`WaitUntilIdle`, the worker's wait, free and count, and the destructor.

**ListPack, QuickList, IntSet, Skiplist.** Values of these types are TLA+ values
and their methods operators. A listpack is its bytes: the encoding byte, the
payload, and the length behind each entry, which is written in digits and read
backwards, so both walks are real. A string's payload carries one token; an
integer is really encoded and decoded. A quicklist is its sequence of listpacks;
merges, splits and the search from the nearer end are the code's. An intset
truncates to its width as a `static_cast` does. A skiplist has its links, spans
and backward links at every level, and the level of a new node is the outcome of
`RandomLevel`.

**List, Set, Hash, ZSet, ZSetListPack.** The types over their encodings, with
every conversion. In `ZSetListPack` a numeric value is read as a view of the one
buffer `int_buf_`, which the next read overwrites, so the order in which `EntryAt`
reads score and key matters. **DataTypes** runs the commands on one key of each type,
**Collections** is what they promise of a sequence, a set, a map and a scored
set, and `value` is what a read of the whole object visits.

A definition whose name extends another's after an underscore
(`WriterIdle_SyncIgnored`) is a deliberate defect. `PROJECT.json` lists, for
every property, one or two that it notices.

## 3. What TLC checks

| Run | What it shows |
|---|---|
| `aof` | Three fsync policies, three commands of two sizes, a rewrite with an oversized block, one crash, errors of every I/O call, a shutdown at any moment. `LogComplete`: the file, and the one about to replace it, is a snapshot and then each later command once and in order, and only a shutdown leaves blocks of the snapshot out. `AlwaysIsDurable`, `ShutdownDrains`: what was acknowledged under `always`, and what was accepted before the destructor returned, is on disk whatever file a power loss brings back, and survives unless the shutdown put a snapshot that it had cut short in the place of the log. `SizeMatchesFile`: `current_size_` stays exact across swaps. `NoSwapDuringIO`: `fd_` is replaced only when the worker has no system call on it. `NoLostWakeup`: no thread sleeps while its predicate is true. `TypeOK` includes the bounds and byte counters of the three queues. `ImplementsDurableLog`. Under fairness the snapshot producer, the rewrite and the destructor end (`RewriteEnds`, `ShutdownEnds`), and `everysec` syncs what it accepted without a further command (`EverySecSyncs`). |
| `aof_shutdown` (violated) | `ShutdownKeepsCommands`, the same as `ShutdownDrains` without the exception; see section 6. |
| `keyspace` | `NoOrphanTtl`: no expiration without its key. `ReplayAgrees`: a restart shows every key outside `diverged` as it was. `OnlyDivergedKeysBreakReplay`: a log that replays becomes one that does not only by a command on such a key, or by an addition or an `LTRIM` that finds its key missing where the log still has an expired key of another type. |
| `keyspace_lost` (violated) | `ReplayReproduces`, the same without the exception; see section 6. |
| `dict` | Counters and tables agree and nothing is left in buckets already moved (`TypeOK`), every entry is found (`EveryEntryIsFound`), a scan shows every key that stayed (`ScanMissesNothing`), `ImplementsMap`. |
| `server_one` | One connection with pipelining, half requests, pauses, every kind of command, shutdown and log failure: `OutputBounded`, `RepliesInOrder`, `PausedMeansQuiet`, `RefusedMutationIsLast`; under fairness `EveryRequestIsAnswered` and `ConnectionsEnd`. |
| `server_two` | Three connections over two descriptors and one refused registration; the requests are reads only, since the run is about registrations and not about what is executed. `RegistrationsAgree` (no callback of a destroyed client, also after a descriptor is reused in the same cycle; when a registration is refused it shows that the three sides still agree, not that the connection is watched), `NeverStranded` (a connection that has work, and whose registrations were not refused, can always be woken). |
| `session` | Two requests out of thirteen, cut anywhere, and two crashes: `RequestsSurviveCuts` (the server executes the requests that were typed, in order, however the stream was cut), `AnswersMatch` (the user is shown, in order, what the server said, also after a timeout or a pipelined reply), `RecoversWholeCommands` (a restart restores every whole command of a torn log, drops the torn one, and the next command is appended where it was cut), `OnlyOversizedCommandsAreRefused` (a start refuses only a log that holds a command past the limits of replay: one request passes the element limit, another only the byte limit, which replay then meets both before and after the command is complete). |
| `reply_buffer` | `PendingAgrees` (`pending_bytes_` is what is unsent), `ImplementsByteQueue`. |
| `reclaimer` | `DestructorDrains`, `IdleMeansFreed`, and under fairness `EveryWaitEnds`. |
| `data_types` | All encodings under every sequence of commands: `TypeOK` (listpacks can be walked from both ends, intsets are sorted), `EncodingsStaySmall`, `SkiplistConsistent` (spans, backward links, the cached extremes, `dict_`), `QueriesAgree` (scores, ranks, ranges, counts and lookups against their definitions; left out are the reverse ranges of section 6 whose outcome is undefined), `ImplementsCollections`. |
| `data_types_set` (violated) | `AddNeverThrows`; see section 6. |

**Bounds.** `Aof`: three commands reach every combination of queue, batch, delta
and file that the properties tell apart, with limits of two bytes and two commands
so that queues fill; the second snapshot block exceeds the whole snapshot queue, and
two blocks let a shutdown come with none, one or both of them written.
`Keyspace`: two keys are what `RENAME` needs, one element gives a key empty and
not empty, and two clock ticks give an expiration that has come and one that has
not. `Dict`:
four keys make the table grow twice, their hashes collide in two buckets and part
in four and eight; `kEmptyVisits` and the resize ratio are 1 so that steps are
short and rehashing lasts long. `Server`: output limits of one, two and three
bytes and replies of one and two let every limit be met exactly, passed and
undershot; three clients on two descriptors force reuse. `Session`: an initial
capacity of 16, a resize threshold of 32 and a growth slack of 10 make a buffer
grow, compact and shrink within two requests; three elements, 40 query bytes and
25 replay bytes put requests on both sides of each limit; the thirteen requests
include every form the parsers tell apart. `ReplyBuffer`: two-byte blocks and six
pending bytes give the buffer, a full and a partial node at once, and seven
distinct bytes identify each pending one. `DataTypes`: four elements of every form
(one digit, negative, wide, short and long string), with every limit scaled so
that each conversion, merge and split happens: listpacks of 18 bytes, backlen
digits in base 4, intset widths of 4, 14 and 20 bits.

**Symmetry** is used where only safety is checked: clients are interchangeable in
`server_two`, and keys in `keyspace`. `dict` uses a VIEW without the last answer, which no
property reads.

**Fairness.** The threads of the log and of the reclaimer are operating-system
threads: once awake they run, so each has weak fairness on all its steps
together, and callers' own steps likewise; calls, faults and crashes have none.
The loop has weak fairness on its steps. `ServerCron` has strong fairness: a
timer that is due again and again runs, although the loop also passes through
cycles in which it is not due. A peer that reads is assumed for
`EveryRequestIsAnswered`, since the server has no timeout for one that does not.

**Deadlock** is checked everywhere but in `reclaimer`, which ends once its
destructor has returned, and in `session`, which ends when the user has asked
everything or a start refuses the log.

## 4. What is proved

TLAPS proves the following for every value of the constants, from the assumptions
named in the modules (`AofAssumption`: the policies are those of the code, sizes
and limits are natural numbers; `KeyspaceAssumption`: the clock bound is a natural
number; `ReclaimerAssumption`: the worker is not a caller, and there are finitely
many objects).

**The append-only file**, for any set of policies, sizes of records and snapshot
blocks, queue limits and numbers of commands, rewrites and crashes:
`LogIsComplete`, `SwapIsSafe`, `WakeupsAreKept`, `AlwaysDurable`,
`ShutdownIsDurable`, and `AofImplementsDurableLog`, the refinement of `DurableLog`.
Three invariants carry them.

* `IInv` (`AofInvariant`). `LogComplete` is about files, and the commands still to
  be written are elsewhere, so it is not inductive. `IInv` says that the records
  of the log, the worker's batch and the queue are one run of consecutive numbers
  that, in a healthy log, ends at the last command (`FileInv`); that the records
  of the temporary file, the rewrite thread's batch and the delta queue are such a
  run from the snapshot on, as long as the rewrite can still succeed (`DeltaInv`);
  and that the blocks written, those in the batch and those queued are the blocks
  produced so far, all of them when the producer has said so, with none left over
  once the rewrite thread is in its second loop unless the log is being shut down
  (`BlockInv`). `FlagInv` ties `writing_`, `syncing_` and `rewriting_` to where the
  threads are while the log is healthy, which is what `FailLocked` breaks and why
  `SwapInv` asks for a healthy log when the file is replaced. `ShadowInv` says that
  whatever a power loss may bring back is a log. There is one lemma per action:
  `AofInvariant` has those of the main thread and of the worker, `AofDurability`
  those of the rewrite thread and of a restart.
* `WakeInv` (`AofInvariant`) adds to `NoLostWakeup` who can be asleep where.
* `DInv` (`AofDurability`) adds what durability needs: a healthy log has
  acknowledged all it was given (`AckInv`); what was written and not synced has set
  `dirty_`, unless the worker is still writing (`SyncInv`); the destructor's joins
  return in order and a worker that returned from a healthy log left nothing behind
  (`JoinInv`); under `always` every file that may come back has synced what was
  acknowledged (`CoverInv`); and what a log lost was lost before it was opened, or
  is a snapshot that this shutdown cut short (`LostInv`). For the refinement,
  `Append` is `Accept` or `Reject`, the start and the end of a rewrite are
  `BeginCompaction` and `EndCompaction`, the destructor is `Close`, a rename during
  a shutdown is `CutOff` when blocks are left, every other step of the worker and
  of the rewrite thread is `Persist` or a stutter (a rename cannot otherwise shorten
  what is certain to survive, because the new file was synced to the last command),
  and a restart is `Recover`.

**The keyspace**, for any keys, elements and clock bound:

* `KeyspaceProofs`: `TypeCorrect` (`Spec => []TypeOK`) and `TtlHasKey`
  (`Spec => []NoOrphanTtl`). Neither is inductive alone: a database with an
  orphaned expiration is well typed, and the handlers keep `expires_` below `dict_`
  only if what they are given is well formed. `IInv` says of both databases at once
  that they are `Consistent`: a record of `dict`, `expires` and `loading`, well
  typed, with every expiration on an existing key, and with the right `loading_`.
  One lemma per `RedisDb` method shows that it keeps a consistent database
  consistent, one per handler composes these, and since replay runs the same
  handlers the lemmas serve both databases; `EncodeFacts` shows that what `Encode`
  logs are commands. The second half of the module says what each method and
  handler does to the entry of its key, and that it leaves the others alone.
* `ReplayProofs`: `ReplayCorrect` (`Spec => []ReplayAgrees`) and `LogStaysUsable`
  (`Spec => OnlyDivergedKeysBreakReplay`). That both databases show the same is not
  inductive, since the live one has expired keys that the log still has, and a
  rewrite leaves out keys that the live one still has. `AInv` says of every key
  that has not diverged that its two entries are the same, or that one is gone and
  the time of the other has come (`Agree`). `ReplayCommands` shows, command by
  command, that execution and the replay of its record keep this, also when the
  clock moves between the two. For `LogStaysUsable` it shows besides that the
  record of a command whose key has not parted from its log is one that replay
  accepts.

**Background reclamation**, for any number of callers and objects:

* `AsyncReclaimerProofs`: `TypeCorrect`, `Drains` (`Spec => []DestructorDrains`)
  and `IdleFreed` (the action property `IdleMeansFreed`), for any number of
  callers and objects. `IInv` adds to the types that the worker holds objects only
  between taking and freeing them, that `reclaiming_` is positive meanwhile, that a
  worker which ended had seen `stopping_` with an empty queue, and that what a
  waiting caller asked about is still accounted for.

Checked with TLC only: the liveness properties, and in the append-only file the
byte counters (`TypeOK`, `SizeMatchesFile`, which are sums over sequences); the
hash table, the server, the sessions, the reply buffer and the
data types, whose models use recursive operators or library operators over
sequences, about which induction would be needed.

## 5. What is not modelled

* The kqueue poller, which has the interface of the epoll poller; `kBarrier` and
  `WaitForEvent`, which the server does not use.
* In `Server` a request is one unit that may arrive in two halves; its bytes are in
  `Session`, with one connection. `Connect` of a connection is modelled by its
  success.
* `ReadLine` and `ReadLineView` of the input buffer, which nothing calls; replies of
  type double (`FromFloat`) and set headers; a `SyncWrite` of the client that fails
  half way. Of the command table, the entries other than those of `Session`: they
  are data without state.
* What the commands of the delta do when they are replayed onto a snapshot that a
  shutdown cut short (one on a key of another type could even be refused): `Aof`
  has commands without contents, `Keyspace` has whole snapshots.
* In `Keyspace`, the errors of single commands that leave the database alone (an
  `INCR` of a string that is no number, an `LSET` out of range) and the `SADD` that
  throws (section 6).
* Of `Aof::Open`, that the file cannot be opened, locked or read; the size test and
  the retry delay of `ShouldAutoRewrite` (a rewrite may start at any time).
* Sockets, logging, options, pattern matching and number parsing: wrappers of system
  calls, or functions without state.
* `INCR`, `HINCRBY` and the set algebra: arithmetic or reads over what is modelled.
* The iterator of the hash table. In `ListPack`, strings of 64 bytes and more,
  integers past 24 bits and the limits of 2^30 bytes and 65535 entries. In
  `Skiplist`, `Print` and `Clear`.

## 6. Where the code and its documentation part

* `aof_shutdown`. The destructor of the log sets `stopping_`, on which the first
  loop of `RunRewrite` breaks with `succeeded` still true (`aof.cpp:1055-1059`); the
  second loop does not look at `stopping_`, writes the delta, syncs, and renames the
  temporary file over the log although blocks of the snapshot are still in
  `snapshot_pending_`, and the rewrite ends with `kSucceeded`. The keys of those
  blocks are gone after the restart. `README.md:64` says that a graceful shutdown drains
  and syncs the queue, and `README.md:122-123` that a rewrite preserves the original
  file if it fails before the atomic replacement.
* `keyspace_lost`. Expiration deletes a key without a log record, and replay does
  not expire keys. A key created anew by an update command after its predecessor
  expired is therefore replayed onto the predecessor: it inherits the old elements
  and an expiration in the past, and is gone after the restart. `README.md:117-118`
  promises that successful mutations are recorded and replayed.
* `data_types_set`. A set whose integers were all removed keeps an empty `IntSet`;
  adding a string then asks it for its maximum, which throws, and `SADD` replies
  with an error (`set.cpp:199`).
Observations that no property is about: a reverse range with an exclusive maximum
below every score starts at the head of the skiplist and compares the head's key, a
null pointer (`skiplist.h:998`, where line 622 says "Return all keys within the
range in descending order"), which is undefined behaviour, so `QueriesAgree` leaves
out exactly the ranges for which `ReadsNullKey` holds; the set and sorted-set handlers leave an
empty key in the live database that a rewrite drops; a wrong-typed command on a
diverged key makes replay fail and so the next start; `DEL` counts an expired key
and `UNLINK` does not; `SET ... KEEPTTL` on an expired key is logged as `DEL`;
output resumes at exactly 4 MiB where `README.md:83-85` says below; a client that
half-closes loses the replies still queued; a refused registration can leave a
connection unwatched; under continuous load the `everysec` worker postpones its
sync; `FailLocked` leaves the worker asleep until the destructor; a crash during a
rewrite leaves its temporary file. An inline request has no limit on its elements
while replay has (`kMaxCommandElements`, and 64 MiB for a command), so one that was
accepted can make the next start refuse the log, which is the exception that
`OnlyOversizedCommandsAreRefused` names. A `SET` with an expiration is logged as two
commands (`aof.cpp:875`), and a crash that cuts between them keeps the key without
its expiration. The query buffer's limit is on all unprocessed input, so a
pipelined burst closes a connection although each of its requests is small. After a
failed `SyncWrite` the client's next call sends its whole query buffer again, and
its `Connect` does not clear the buffers of the connection before.

## 7. Plan

1. Proofs for the server: `RegistrationsAgree` and `OutputBounded` for any number
   of clients and descriptors, which needs a form of `Server` without recursive
   operators.
2. Proofs for the hash table: `EveryEntryIsFound` for any hash function.
3. A composition of the keyspace with the log's crash behaviour: which prefixes of
   a mutation history a restart can show.

## 8. Running

    tlc -workers 2 -config MCAof.cfg MCAof
    tlapm AofDurability.tla

Every row of `runs` in `PROJECT.json` names its module and configuration. Each
passing run takes between seconds and three minutes. A proof module is checked on
its own, and takes what the modules it extends prove as given: `KeyspaceProofs`,
`ReplayCommands`, `ReplayProofs`, `AsyncReclaimerProofs`, `AofInvariant` and
`AofDurability`, each in a few minutes.
