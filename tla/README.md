# Verification of sdfs: replication, metadata and the runtime below them

The repository holds several programs. Almost all of its own logic is in
`src/sdfs`, a distributed file system: clients keep file metadata in redis and
file data in *chunks*, each replicated on several chunk servers (`cds`).  This
development models what decides whether data survives: how a chunk is written,
read, marked DIRTY, rebuilt, moved and removed, under a lock that is a redis key
with a lease; how directory operations, file sizes and file ids are kept in
redis and etcd; and the runtime all of this stands on, the coroutine scheduler
and its lock, the RPC table and the batching redis client.

## 1. Inventory

| Component | State | Operations | Interacts with | Modelled |
|---|---|---|---|---|
| Chunk I/O, `sdfs/sdfs_chunk.c` | local `chkinfo`, retry counters | `sdfs_chunk_read`, `sdfs_chunk_write` | metadata, lock, cds RPCs, recovery | `SdfsChunk` (replicated chunks) |
| Chunk recovery, `sdfs/sdfs_chunk_recovery.c` | local `chkinfo`, temporary file | `sdfs_chunk_recovery`, pull, push | the same | `SdfsChunk`, `ChunkCopy` |
| Chunk metadata, `metadata/md_chunk.c`, `chunk_redis.c` | one `chkinfo_t` per chunk in redis | create, fast and slow load, new replica, update | redis, allocator | `SdfsChunk` |
| Redis commands, `metadata/redis.c`, `redis_co.c` | hashes, `lock:<id>` keys, removal lists `cds[<nid>]` | `hset`, `klock`, `kunlock`, `rm_push`, `rm_pop` | connection pool | in `SdfsChunk`, `AttrQueue`, `Namespace`, as far as these use them |
| Chunk server, `cds/replica.c`, `yfs/cds/cds.c` | one file per replica | read, write, `chunk_cleanup` | clients, redis | `SdfsChunk`, `ChunkCopy` |
| Directories and inodes, `metadata/md_dir.c`, `dir_redis.c`, `inode_redis.c`, `sdfs/sdfs_dir.c` | a hash in redis per directory and file | create, mkdir, link, unlink, rmdir, rename | redis, NFS server | `Namespace` |
| Attribute queue and cache, `sdfs/attr_queue.c` | pending sizes and times, copies of records, per core | queue, flush, apply, expire | inodes, scheduler, redis client | `AttrQueue` |
| File ids, `metadata/md.c` | a range per process, a counter in etcd | `md_newid` | etcd | `MdId` |
| Redis coroutine client, `metadata/redis_co.c` | request queues, a batch, connections | `redis_co`, batch, read, resume | plock, scheduler | `RedisCo` |
| Coroutine lock, `ylib/lib/plock.c` | `writer`, `readers`, queue | `plock_rdlock`, `plock_wrlock`, `..._prio`, `try...`, `unlock`, timeout check | scheduler | `Plock` |
| Scheduler, `schedule/schedule.c` | tasks, run lists, reply and request queues | new, get, yield, resume, run | everything | `Schedule` |
| RPC table, `ynet/rpc/rpc_table.c` | slots with fingerprint, timeout, socket | get, set, post, free, reset, scan | network, scheduler | `RpcTable` |
| Redis connection pool, `redis_conn.c` | connections | use, close, reconnect | redis client | no; a connection and its breaking are in `RedisCo` |
| Allocator, `sdfs/allocator.c` | map of disks | `allocator_new`, refresh | redis, network | a free choice of disks in `SdfsChunk` |
| LC-3 virtual machine, `src/Virtual Machine/vm.c` | memory, registers | 16 instructions | none | no |

What is left out for good is listed in section 8.

Behaviours that are hard here, and that tests hardly reach: clients that hold a
`chkinfo` while others change it; a lock whose lease can run out, whose key any
client deletes, and whose replies can be lost; writes carried out on some
replicas only; recoveries that fail half way; removal of a replica that races
with its return; nested retry loops; task handover and timeouts inside a
coroutine lock; answers that arrive after a slot or a task was used again;
updates that wait in memory while others read and write redis; directory
operations made of several commands without a lock, with stops in between;
lost answers of etcd.  `PROJECT.json` lists each at its line under `hazards`.

What makes each component correct:

- chunk metadata: a chunk always has `repnum` different disks, at least one
  clean, whatever happens to the lock;
- chunk I/O: what was acknowledged is on every replica that may be read;
- recovery: only a replica that was written again becomes clean, and its bytes
  are those of its source;
- lock: at most one client between `klock` and `kunlock`; the lock comes free;
- plock: exclusion, no lost wake-up, no starvation;
- scheduler: a wait returns with its own answer, no wake-up is lost, every job
  ends, no assertion fails;
- RPC table: a call is ended once, with its own answer or an error, no slot is
  lost;
- redis client: commands of a shard in the order of the calls, each caller its
  own answer;
- attribute queue: to the clients of a core the size is one number; sizes of
  several cores are not lost on the way to redis;
- file ids: no id twice;
- directories: entries have inodes, link counts are not too low, a file that
  was not unlinked keeps a name.

## 2. Modules

| Module | What it is |
|---|---|
| `SdfsChunk` | protocol of one replicated chunk: clients, redis, chunk servers, crashes, lost messages |
| `ReplicaSet` | what the users of a chunk's metadata see: create, degrade, rebuild; implemented by `SdfsChunk` |
| `SdfsChunkProofs` | TLAPS: types, `RepIntegrity`, lock exclusion, acknowledged data, reads, no resurrection, and that `SdfsChunk` implements `ReplicaSet` |
| `ChunkCopy` | the pull and push loops inside a recovery, byte by byte |
| `ChunkCopyProofs` | TLAPS: what a recovery has written, and which files it leaves open |
| `Plock` | the coroutine read/write lock |
| `PlockProofs` | TLAPS: types, exclusion, no lost wake-up, the queue |
| `Schedule` | the coroutine scheduler of one core |
| `ScheduleProofs` | TLAPS: lists and states, answers, wake-ups, assertions |
| `RpcTable` | the table of outstanding RPCs, of a core and of all threads |
| `RpcTableProofs` | TLAPS: calls end once and with their own answer, slots, contexts |
| `RedisCo` | the redis client of a core: batches, reader thread, broken connections |
| `RedisFifo` | what the callers of redis rely on; implemented by `RedisCo` |
| `RedisCoProofs` | TLAPS: one batch at a time, and that `RedisCo` implements `RedisFifo` |
| `AttrQueue` | record, cached copies and queued updates of one file |
| `FileSize` | one number, with calls that take effect at one moment; implemented by `AttrQueue` on one core |
| `AttrQueueProofs` | TLAPS: sizes in redis never shrink, and that `AttrQueue` implements `FileSize` |
| `Namespace` | directory operations as sequences of redis commands |
| `NamespaceProofs` | TLAPS: entries and inodes, link counts, last names, the tree; and that no id of `MdId` is handed out twice |
| `MdId` | ranges of file ids, taken from etcd by compare and swap |
| `MC...` | instances for TLC: uses, symmetry sets, model values |

How they stand on each other: `AttrQueue` assumes that redis answers the
commands of a core in order, which is `RedisFifo`; `RedisCo` implements
`RedisFifo` and assumes a lock that lets one batch through, first come first
served, which is what `Plock` shows (`Exclusion`, `NoStarvation`); `Plock`
assumes that a resumed task runs, once, with its own answer, which `Schedule`
shows (`AnswerIsOwn`, `WakeupPending`, `JobsFinish`).  `Namespace` assumes ids
that are new (`MdId`).  `Schedule` assumes that every handle that was given
away is resumed in the end, as `RpcTable` shows for RPCs (`CallsReturn`,
`EndedOnce`).

Several modules have a constant `Uses` and a variable `use`, which is chosen in
`Init` and never changes: one element is one way in which the component is
used (which calls, how many, which faults).  A property that depends on the use
says so in its text, and the run covers all uses at once.

Operators named after a mistake (`WriteDonePartial`, `HandedOne`, ...) stand in
front of the definition they corrupt; they are used by no specification and
exist to show that the properties notice the mistake.

### SdfsChunk

State: `meta` is the `chkinfo_t` in redis (its disks split by the `__S_DIRTY`
bit), `lock` the client whose `SET NX` made the key, `content` the writes in
each replica file, `rmq` the removal lists, `unlinking` the chunk servers
between the check and the unlink of `__chunk_unlink`, `cl` the program counter
and local variables of every client.  `acked`, `rebuilt`, and `base` in a
client's record, are history.

One step is one access to shared state, as in the code: one redis command or one
RPC.  Disks come and go at any time, so `network_connect` has no state of its
own; which disks it reaches is chosen in the step next to it.

| Actions | Code |
|---|---|
| `StartRead`, `StartWrite`, `StartRecover`, `Retry` | `sdfs_chunk_read`, `sdfs_chunk_write`, the recovery tool, `USLEEP_RETRY` |
| `LoadFast`, `Create`, `Scan` | `__md_chunk_load_fast`, `md_chunk_create`, the loop of `__chunk_load` |
| `SlowLock`, `SlowLoad`, `SlowUpdate`, `SlowUnlock`, `SlowErr` | `__md_chunk_load_slow` |
| `Read`; `WriteLock`, `WriteReplica`, `WriteDone`, `WriteUnlock`, `WriteErr` | `__chunk_read`; `__chunk_write` and its sub tasks |
| `RecLock` ... `RecUnlock` | `sdfs_chunk_recovery`, `md_chunk_newdisk`, `__sdfs_chunk_sync` |
| `Cleanup`, `Unlink` | `chunk_cleanup`, `__chunk_unlink` |
| `Crash`, `Expire` | environment: a process stops; redis drops the key |

`Klock`, `Kunlock`, `Hset`, `RmPush` and `RmPop` are the redis commands.  Each
may fail before or after its effect.  `Kunlock` deletes the key whoever set it,
as the code does.

`Faults` names what the environment may do to the lock.  `"overrun"`: a client
works on after its lease is over (the code checks the time only once, in the
recovery).  `"resend"`: a reply is lost and the pool of `redis.c` sends the
command again.  With `Faults = {}` leases are long enough and commands are sent
once; properties that depend on it say so.

A write is a name, and a replica holds a set of them: this tells apart all that
the properties ask (does this replica have that write?), and leaves out offsets
and overwriting.  A push of a recovery may leave or lose what a replica held
(`ChunkCopy` shows why it cannot be trusted to carry the source's data).

### ChunkCopy

`__sdfs_chunk_sync` from the size computation to the end: `GetChunkSize` keeps
the unsigned subtraction, `PullBlock` passes to `WriteFile` the position that
the code passes, `PushBlock` keeps the short `pread` and the buffer that is not
initialised.  A byte is the offset it has in the source, 0, `Junk` or `Old`.

### Plock

All tasks of a lock run on one thread, so what happens between two yields is one
step.  `Handed` is the loop of `plock_unlock` over the queue, `TimeoutCheck`
what the scheduler's scan runs for a task that has slept too long: it says which
waiters leave, and `KeepOnly` that the others stay in their order; a woken task
returns in a later step (`Return`).

### Schedule

Everything but the remote reply list and the request queue is touched by the
core's own thread, so a step is what runs between two context switches; other
threads act between any two steps.  `schedule_task_get`, `schedule_task_reset`,
`schedule_yield1` and `Finish` are what a task does, `schedule_run` to
`request_queue_run` the loop of `schedule_run`, `ResumeLocal` and `ResumeRemote`
`schedule_resume` from the core and from elsewhere.  A failed assertion sets
`aborted` and stops the core.  The k-th wait of a job stands for its answer too.
`use.shared` says whether a wait that a task gives up may have been answered.

### RpcTable

One action per access that another thread can see (`use.shared`), or the same
actions with nobody in between (the table of one core).  The fingerprint is
compared (`lock_solt_check`) before the slot is locked (`lock_solt`), `++sequence`
is a load and a store, and wraps at `Modulus`.  `func` is the call-back on the
caller's stack: it sets `wrong` when that context is gone.

### RedisCo and RedisFifo

`redis_co` queues, `RunTask` takes the queue as a batch, `Exec` sorts it by shard
and sends it once it has the plock, `Recv` reads one answer, `RecvEnd` resumes
the task of the batch, `Return` and `Release` run what was resumed.  With
`thread = FALSE` the core reads and runs nothing else meanwhile.  `Reset` breaks
a connection.

### AttrQueue and FileSize

One file, several cores, each with a copy of the record, one entry in the queue
and a flusher.  `hget` and `hset` are two steps each: redis executes, and the
core gets the answer in order (`Answered`).  `Merged` and `Applied` are the two
places where sizes are combined.  Times are abstracted: a `settime` only makes
or joins an entry.

### Namespace

A call is a program counter over redis commands.  `Place` are directory and
name; records carry the link count.  A missing record reads as all zero, which
`Set` writes back as a record of no bytes (`Empty`), and `__inode_childcount` of
it is 0 - 1 (`Count`).  `From` to `ChildCount` are `__rename_proc` of the NFS
server, which removes a target and tries again.  `LastNameKept` has one
exception, for clients that stop half way: it came out of its proof, and is the
last of the observations in section 5.

### MdId

`GetKey`, `Create` and `Update` are the requests to etcd, each of which may be
carried out without the process learning of it (`Lost`), and `Restart` loses the
rest of a range.

## 3. Runs

| Run | Properties | What it shows |
|---|---|---|
| `chunk_safety` | `TypeOK` `RepIntegrity` `LockExclusion` `OriginalHoldsAcked` `ReadSeesAcked` `NoResurrection` `ImplementsReplicaSet` | 2 clients, 3 disks, 2 replicas, one write and one other call: 1.4 million states |
| `chunk_live` | `CallsEnd` `LockFreed` | every call ends, the lock comes free |
| `copy` | `PushedAlike` `FilesLeft` `SyncEnds` | all sizes, block boundaries and failures |
| `plock` | `TypeOK` `Exclusion` `NoLostWakeup` `QueuedOnce` `NoStarvation` | 4 tasks, one with priority |
| `schedule` | `ListsAgree` `AnswerIsOwn` `WakeupPending` `NoAbort` `JobsFinish` | 3 jobs of which one is held back; 2 jobs with 3 waits; one job whose waits are given up after their answer |
| `rpc` | `AnswerIsOwn` `EndedOnce` `ContextsSafe` `NoLeakedSlot` `CallsReturn` | a core's table with 2 slots and 2 connections, one with a slot that is used again, and the table of all threads |
| `attr` | `ImplementsFileSize` `SizeNeverShrinks` `SizeReachesRedis` `CallsEnd` | one core with a cache; two cores without; two cores with failing flushes, crashes and unlink |
| `md_id` | `IdInv` `NoRepeat` | 1.4 million states; `IdInv` is the inductive invariant of the proof |
| `ns` | `EntryHasInode` `Consistent` `LinksCounted` `LastNameKept` | one client at a time; one that stops anywhere; 3 that create and unlink; 3 that add names |
| `redis_co` | `OneBatch` `ImplementsFifo` `CallsReturn` | 3 coroutines, 2 shards, with and without the reader thread, connections that break |
| `chunk_ack` | `AckCoversClean` (violated) | finding 2 below |
| `copy_data` | `ReplicaEqualsSource` (violated) | finding 1 below |

Bounds.  Three disks and two replicas is the least with which a recovery can
move a replica to a new disk; with two disks a DIRTY replica is rebuilt in
place.  Two clients suffice for every race the hazards name (writer against
recovery, writer against writer, reader against both), because the chunk
servers' clean-up and the lease are actors of their own.  One write with one
other call already passes through every action.  `MaxRetry` stands for the 100
of the code, `MaxCall` only bounds the run.  In `copy`, a block of 2 in a chunk
of 7 gives empty, short and several full blocks, a short last block, and sizes
beyond the chunk.  In `plock`, a clock of 3 with timeouts of 1 lets both
timeouts pass before, during and after a handover.  In `schedule`, three tasks
with a limit of one used task hold a job back while another runs; five waits of
one job let a reply be overtaken by several waits.  In `rpc`, three calls in one
slot let an answer arrive two owners late, and `sequence` starts anywhere, so
that it wraps.  In `attr`, three calls of two tasks give every pair of calls
with a flush or the loss of a copy between their steps.  In `ns`, four ids and
two names give a directory with a file and a rename onto each.  In `redis_co`,
three calls are a batch that is read, one that waits for the plock, and one that
is queued.  `CHECK_DEADLOCK FALSE` is set where a module stops when its bounded
work is done; `Plock` is checked for deadlock.

Fairness.  `SdfsChunk`: weak fairness of each client's next step (the scheduler
runs every runnable coroutine, and RPCs and redis commands end with an answer,
an error or a timeout) and of `Expire` (the key is set with `EX`).  Starting
calls, crashes and clean-up are not fair.  `ChunkCopy`: weak fairness of its one
task.  `Plock`: a holder unlocks, a resumed task is run; nothing is assumed of
the timeout check or of tasks that want the lock; `NoStarvation` is stated for
behaviours in which the tasks with priority stop coming, since the code lets
them overtake for ever.  `Schedule`: a task runs until it waits or ends, the
loop turns, and handles are resumed (timeouts see to that).  `RpcTable`: what is
inside an operation goes on, and the scan comes back to every slot until it has
timed out; nothing makes an answer arrive.  `AttrQueue`: coroutines that can run
do, `attr_queue_run` is called in every turn of the loop, redis answers, keys
with a ttl go away, and `klock`, which is tried again and again, succeeds when
the lock is free again and again.  `RedisCo`: the loop, the reader and redis
go on; connections need not break.

## 4. What is proved

All safety properties of the passing runs are theorems: the invariants, the
action properties and the three refinements.  Only liveness is left to TLC.  A
run shows a property on one small instance, the theorem for every value of the
constants, under the named assumption of the module, which TLC evaluates in the
runs.  Every inductive invariant was checked with TLC before it was proved.

### Chunks

For every set of clients, disks and writes, every number of replicas, calls and
retries (`SdfsChunkAssumption`: finitely many disks, `RepNum` between 1 and
their number, `None` outside the other sets):

| Theorem | Statement | Faults |
|---|---|---|
| `TypeCorrect` | `Spec => []TypeOK` | any |
| `RepIntegrityHolds` | `Spec => []RepIntegrity` | any |
| `LockExclusionHolds` | `Spec => []LockExclusion` | none |
| `OriginalHoldsAckedHolds` | `Spec => []OriginalHoldsAcked` | none |
| `ReadSeesAckedHolds` | `Spec => []ReadSeesAcked` | none |
| `NoResurrectionHolds` | `Spec => NoResurrection` | none |
| `ReplicaSetImplemented` | `Spec => ImplementsReplicaSet` | none |

The argument.

- `TypeInv` is `TypeOK` and, for each client, that its operation, data and
  program counter fit together (`OpInv`); without it `acked \subseteq issued`
  is not inductive, since only a writer's `w` is a write.
- `RepInv` adds to `RepIntegrity` that every `chkinfo` a client may still store
  (`InfoInv`) is itself well formed: right number of different disks, one clean.
  It needs no lock: each client stores a whole `chkinfo`, so the last one wins,
  and each is well formed on its own. This is why it survives lock faults.
- `LockInv` is `LockExclusion`, inductive with the types: no action between
  `klock` and `kunlock` gives the key away, an owner-blind `DEL` is done only
  by a client that holds the lock, and a key without owner is dropped by
  `Expire` only.
- `DataInv` has a shared part (`SharedInv`: what lists and files may miss), a part for the
  client that holds the lock (`HolderInv`: how its `chkinfo` relates to `meta`,
  as nobody else can change the latter) and a part for each client without it
  (`IoInv`: a `chkinfo` may be stale, but every replica that is clean now and
  was never rebuilt is among those it lists as clean).  The last is the reason why a
  write that uses a stale `chkinfo` reaches every clean original: the set of
  clean, never rebuilt replicas only shrinks.

- `ReplicaSetImplemented`: only `Create`, `SlowUpdate` and `RecUpdate` write
  `meta`.  `HolderInv` says that what the last two store differs from `meta` by
  what they did themselves, so the first maps to `Create` of `ReplicaSet`, the
  others to `Degrade` and `Rebuild`, and every other step to a stutter.

`RepIntegrity` with lock faults rests on the proof: the runs have none.  `CallsEnd`
and `LockFreed` also hold in `chunk_live` with `Faults = {"overrun"}` (528,176
states, 5 minutes, so the run is kept without); with `"resend"` `CallsEnd` needs
that replies are not lost for ever.

For every block and chunk size and every set of sources and of DIRTY replicas
(`ChunkCopyAssumption`):

| Theorem | Statement |
|---|---|
| `PushedAlikeHolds` | `Spec => []PushedAlike` |
| `FilesLeftHolds` | `Spec => []FilesLeft` |

`CopyInv` says what the replica that is being written has up to `offset`
(`Written`), that two replicas agree as far as both were written (`Alike`), and
that the buffer holds the block before `offset` (`BufInv`): a short `pread`
leaves the end of the last block in the buffer, so what is written beyond the
end of the local file repeats with the length of a block, for each replica in
the same way.

### File ids

For every set of processes, every step of each process, lost answers of etcd and
restarts included (`MdIdAssumption`: the steps are positive numbers).  The proof
is at the end of `NamespaceProofs`, which extends `Namespace` and `MdId`, the source
of its ids; the two specifications, `Spec` and `IdSpec`, have no variable in common:

| Theorem | Statement |
|---|---|
| `IdInvariant` | `IdSpec => []IdInv` |
| `IdsUnique` | `IdSpec => []NoRepeat` |

`IdInv` is `TypeOK`, `NoRepeat` and four parts: `GotInv` (what a process read is
what etcd holds as long as the key's index has not changed), `RangeBelow` (every
range ends below the value in etcd), `RangeApart` (the ranges of two processes
are disjoint) and `RangeFresh` (what is left of a range was not handed out).  The
compare and swap then gives the interval from the old to the new value to one
process only.  `NoRepeat` alone is not inductive, as it says nothing of ids that
will be handed out.

### The runtime of a core

`Plock`, for every finite set of tasks, with and without a priority, and all
timeouts (`PlockAssumption`; a lock is shared by the tasks of one core, whose
number is `TASK_MAX`):

| Theorem | Statement |
|---|---|
| `PlockTypeCorrect` | `Spec => []TypeOK` |
| `PlockExclusion` | `Spec => []Exclusion` |
| `PlockNoLostWakeup` | `Spec => []NoLostWakeup` |
| `PlockQueuedOnce` | `Spec => []QueuedOnce` |

`PlockInv` is these together, with the queue as `QueueInv`: no task at two
places of it, and exactly the sleepers in it.  None is inductive alone: the
counters are right because a waiter that is handed the lock is counted once, and
nobody is left asleep because the counters are right.

`Schedule`, for any number of tasks, priorities, jobs and waits:

| Theorem | Statement |
|---|---|
| `ScheduleListsAgree` | `Spec => []ListsAgree` |
| `ScheduleFreshStart` | `Spec /\ [][FreshStart]_vars => [](AnswerIsOwn /\ WakeupPending /\ (FewJobs => NoAbort))` |
| `ScheduleAnswerIsOwn` | `Spec => [](Calm => AnswerIsOwn)` |
| `ScheduleWakeupPending` | `Spec => [](Calm => WakeupPending)` |
| `ScheduleNoAbort` | `Spec => [](Calm /\ FewJobs => NoAbort)` |

`CoreInv` has the lists as sets (`Listing`) and holds in every use.  `WaitInv`
adds `JobInv` (a job is at one place: waiting, requested, being started, or on
one task) and `HandleInv`: every handle that is out or in a queue is at one
place and is `Good` (it has the fingerprint of the wait its task is in) or
`Stale` (its wait was given up after it was answered, and its task has ended, has
another fingerprint by now, or must take one before it can suspend itself).
Handles nobody has resumed and local replies are good; stale ones are remote
replies only; a task that waits has a good one.  This is where the fingerprint
is needed: it tells stale replies from good ones.

It cannot do so across two jobs of one task, because a task that ends starts its
fingerprint again from 0 (section 5).  `FreshStart`, an action, says that no task
is started while a reply to a job it ran before is on its way; it is the only
thing `ScheduleFreshStart` asks of a run, so the finding of section 5 is all that
can go wrong.  `Calm` names uses in which no step breaks it: no wait is given up
after it was answered (`~use.shared`), or there is one job.  The uses of the run
are of these two kinds.  `FewJobs` (no more jobs than `TASK_MAX`) is what the
comment of `NoAbort` says; with more, the scheduler stops the process by design.

`RpcTable`, for any number of callers, receivers, resetters, slots, connections
and calls (`RpcTableAssumption`: the actors are different from each other):

| Theorem | Statement |
|---|---|
| `RpcEndedOnce` | `Spec => []EndedOnce` |
| `RpcNoLeakedSlot` | `Spec => []NoLeakedSlot` |
| `RpcContextsSafe` | `Spec => []ContextsSafe` |
| `RpcAnswerIsOwn` | `FewCalls => (Spec => []AnswerIsOwn)` |

The first two hold on both kinds of table.  Their invariant, `TableInv`, says
who may be at a slot (`OwnerInv`) and that a call that was ended is not in a slot
any more (`OnceInv`).  `CoreInv` is about the table of a core: nobody is inside
an operation while another one runs, so that the slot is still that of the call
whose fingerprint was compared.  `AnswerIsOwn` needs that the fingerprint, which
is counted modulo `Modulus` (2^32 in the code), does not come round to a slot
while an old answer is on its way: `FewCalls` says that fewer calls are made
than there are fingerprints.  `sequence` starts anywhere and may wrap, as in the
run.

### The redis client

`RedisCo`, for any coroutines, shards and number of calls, with and without the
reader thread, whichever connections break (`RedisCoAssumption`):

| Theorem | Statement |
|---|---|
| `OneBatchHolds` | `Spec => []OneBatch` |
| `FifoImplemented` | `Spec => ImplementsFifo` |

`CoInv` has `ShapeInv` (types), `BatchInv`, `AnswerInv` and `Waits`.  `BatchInv` is
the heart: of the one batch under way, the part for a shard that was not read
(`Flight`) is exactly `replies \o wire` of that shard's connection, unless the
connection is broken.  `OneBatch` alone is not inductive, because a step of the
reader could leave answers behind when its batch ends.  `AnswerInv` says that what
is waiting to be resumed has its own answer, and `Waits` that no coroutine has
two commands in the lines of all shards and that each is waiting, so that the
order in which coroutines are resumed does not matter.  The line of a shard is
`Resumed`, `Flight`, `Todo`, `queue1`, in that order: `redis_co` maps to `Call` of
`RedisFifo`, `Execute` to `Execute`, `Return` to `Answer`, `Reset` to `Break`, and the
way through the batches to nothing.

The line is made with a recursive function (`Part`) and with `FlattenSeq`, of
which the provers know nothing.  The library's induction theorems cannot be
instantiated, but `UpTo`, induction over an interval for a *set* of numbers,
follows from its well-founded order on finite sets, and with it what `Part` and
`FlattenSeq` do with `Append`, `Head` and `Tail` is proved.

### Sizes

`AttrQueue`, for any cores, tasks, sizes and uses (`AttrQueueAssumption`: `None` is
no actor, record or entry, and somebody uses the file):

| Theorem | Statement | Uses it is about |
|---|---|---|
| `SizeNeverShrinksHolds` | `Spec => SizeNeverShrinks` | any number of cores, no copies, no truncation |
| `FileSizeImplemented` | `Spec => ImplementsFileSize` | one core that keeps running, no unlink |

`BaseInv` holds in every use: types, which call can be at which step (`FlowInv`),
that whoever reads the record to change it holds the lock (`LockInv`), and that
the entry of a flusher at work stays there and is marked as running
(`FlushInv`).  `GrowInv` adds to it that what a flusher has read is still what
redis has, and that no entry truncates; the `hset` of a flusher then writes the
larger of two sizes.

`AloneInv` is for one core.  `RecordInv` has the idea of the proof: every record
that a coroutine or the core's cache can have (`Known`) is `Near` the one in redis,
that is, the same or an older one (`Older`) whose size the queue makes equal to
that of the new one, and older ones exist only while an `hset` is on its way.  The
answers come in order (`QueueInv`), so that the answer to that `hset` renews the
copy after every older answer and before every newer one.  So whichever record
a client gets, with the queue applied it has the size `Now` of the record in redis
with the queue applied, and this is the size of `FileSize`.  A call of
`sdfs_getattr`, and a write that ends within the file, take effect when they get
a record; writes that make the file longer, truncations and times take effect in
the queue (`MergedEffect`).  When the flusher removes its entry, redis has what the
entry held (the last line of `RecordInv`), so nothing is seen of it.

The proof found one mistake in the model: the definition of `Updated` was a `CASE`
with overlapping guards, of which TLA+ may take any, although TLC takes the first.

### Directories and inodes

`Namespace`, for any finite sets of clients and names, any ids, any calls
(`NamespaceAssumption`: the constants that stand for nothing are not numbers or
clients):

| Theorem | Statement | Uses it is about |
|---|---|---|
| `NamespaceEntryHasInode` | `Spec => []EntryHasInode` | create and unlink, any number of clients, stops |
| `NamespaceLinksCounted` | `Spec => []LinksCounted` | create, mkdir and link, any number of clients, stops |
| `NamespaceLastNameKept` | `Spec => LastNameKept` | all calls, one client at a time, stops |
| `NamespaceConsistent` | `Spec => []Consistent` | all calls but link, one client at a time |

`NamespaceInv` has a part for each.  `ShapeInv` (types, and which call can be
where with what) holds always.  `EntryInv`: a file has one entry, made once, and
a client that is about to give a file its name, to take it back or to remove it
knows that there is no other (`HoldsFile`).  `LinkInv`: the count of a file is at
least its names and the clients that have raised it for a name to come or have
yet to lower it (`Owed`), and what was read under the lock is what is there.
`SeqInv`, for one client at a time: what the client has read is still so
(`Knows`), in particular a directory that is about to be deleted has no entries
or had lost its record already.  `TreeInv`, when nobody stops half way: every
file and directory that no call is changing is `Settled`, in one place with
count 1, or in none and gone, or in none with count 0 (a creation that found its
name taken), and `InHand` says how far the one that is being changed has come.

### Only model-checked

- Liveness (`CallsEnd`, `LockFreed`, `SyncEnds`, `NoStarvation`, `JobsFinish`,
  `CallsReturn`, `SizeReachesRedis`), which needs fairness and `ENABLED` and is
  outside the proof system's reach.

## 5. Findings

1. `sdfs_chunk_recovery.c:86` gives `mbuffer_writefile` the buffer's length
   where its prototype says `offset`, and line 92 tests the length after
   `mbuffer_free`.  A recovered replica gets one block, at the wrong place, and
   is then marked clean (`copy_data`).  All rebuilt replicas are at least alike
   and of the right extent (`PushedAlike`).
2. `sdfs_chunk.c:412-417` takes the lock because a replica is DIRTY and then
   uses the `chkinfo` from before the lock.  A recovery that ends in between
   makes the replica clean, and the write is acknowledged without it
   (`chunk_ack`).  The theorems above show how far the damage goes: only
   replicas that a recovery has rebuilt are concerned.

Further observations.  The models of this project also reach the following
states; no run is kept for them, and the properties above are stated so that
they exclude exactly these cases.

- `schedule.c:334-335`: a task that ends starts its fingerprint again from 0 and
  its slot is used next.  A reply that was queued for a wait given up before can
  match the first wait of the next task, and the assertion of line 673 fails.
  `NoAbort` fails with two jobs and `shared = TRUE`.
- `rpc_table.c:335`: the fingerprint is compared before the slot is locked.  On
  the table of all threads a timeout and a new call fit in between, and the call
  is ended with another one's answer.  `AnswerIsOwn` fails without its premise.
- `inode_redis.c:229`: a core flushes the size of a file that another core has
  removed, and the assertion on `at_mode` stops the daemon (`AssertFails`).
- `inode_redis.c:222`: with `ac_timeout` and several cores the record that is
  changed under the lock may come from the core's own copy, and sizes are lost.
  `SizeNeverShrinks` fails without its premise.
- `sdfs_dir.c:628`: `sdfs_unlink` removes a regular file whatever its link count
  is, so that its other names lose their inode; `test/script/nfs_test.py:172`
  expects them to stay.  `Consistent` fails when `link` is among the calls.
- `md_attr.c:115`, `md_dir.c:338`: a directory that is removed while an entry is
  made in it; the create fails an assertion or its file is lost.
- `redis_co.c:377`: after a connection broke with answers outstanding the reader
  asks it again for ever, although line 663 is ready to return `ECONNRESET`.
  `CallsReturn` fails without `down # {}`.
- `nfs3.c`, `__rename_proc`: a client that stops between the `kdel` and the `hdel`
  of a directory leaves its entry, and a directory without record still takes
  entries from rename.  A later rename of a file onto that entry does not find
  a directory there, runs `sdfs_unlink`, and the `kdel` in it drops what was put
  inside.  `LastNameKept` fails without its last line, after six calls and one
  stop.

## 6. Hazards and properties

| Hazard | Property |
|---|---|
| stale `chkinfo` in a write, a read, a slow load | `OriginalHoldsAcked`, `AckCoversClean`, `ReadSeesAcked`, `NoResurrection` |
| lease over, owner-blind `DEL`, lost replies | `LockExclusion`, `RepIntegrity` (under faults: proved), `LockFreed` |
| partial writes, partial recoveries | `OriginalHoldsAcked`, `NoResurrection` |
| removal list pushed before the metadata, check then unlink | `OriginalHoldsAcked`, `ReadSeesAcked` |
| no clean replica left (a writer would sleep for ever) | `RepIntegrity` |
| nested retries | `CallsEnd` |
| block arithmetic | `PushedAlike`, `SyncEnds`, `ReplicaEqualsSource` |
| late answers, reuse of a slot, failed sends, no answer | `AnswerIsOwn`, `EndedOnce`, `ContextsSafe`, `NoLeakedSlot`, `CallsReturn` (`RpcTable`) |
| resume before yield, waits given up, throttled jobs | `AnswerIsOwn`, `WakeupPending`, `NoAbort`, `JobsFinish` (`Schedule`) |
| batches, order of answers, broken connections | `OneBatch`, `ImplementsFifo`, `CallsReturn` (`RedisCo`) |
| flush against queue, cache and other cores | `ImplementsFileSize`, `SizeNeverShrinks`, `SizeReachesRedis`, `CallsEnd` |
| stops and races in directory operations | `EntryHasInode`, `Consistent`, `LinksCounted`, `LastNameKept` |
| ids: races and lost answers of etcd | `NoRepeat`, `IdInv` |
| handover, timeout and overtaking in `plock` | `Exclusion`, `NoLostWakeup`, `QueuedOnce`, `NoStarvation` |

## 7. Plan

In order of importance:

1. The connection pool; the allocator's map.
2. Erasure-coded strips: which rows and columns a write touches, and the
   read-modify-write of partial strips.
3. The LC-3 virtual machine's instructions against their reference.

## 8. Not modelled

The repository has about 400,000 lines, most of them vendored (`acwj`, the FTP
server, tables of character sets, parsers) or conversion between protocols; the
modules stand for the few thousand lines that hold the protocols of sdfs, and no
faithful model would cover a large share of the rest.

Erasure-coded chunks (planned); timers, the growth of queues and the sockets of
the scheduler; symlinks, extended attributes, `readdir`, quota and volumes; the
values of times; disk layout, aio and start-up of the chunk
server (I/O); NFS, NLM, FTP, FUSE and web front ends (protocol conversion);
etcd itself (external, its answers are in `MdId`); monitoring, license, parsers, administration scripts and test
programs; containers and memory pools of `ylib`; the `slsh` and `SLLisp`
programs (short sequential loops around library calls); `acwj`, a vendored
course.  `PROJECT.json` gives the reason for each under `components`.
