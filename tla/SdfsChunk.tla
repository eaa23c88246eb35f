----------------------------- MODULE SdfsChunk -----------------------------
(***************************************************************************)
(* I/O on one replicated chunk (PLUGIN_NULL): how the clients of sdfs read *)
(* and write a chunk's replicas, mark a replica that they cannot reach as  *)
(* DIRTY, and rebuild it (sdfs/sdfs_chunk.c, sdfs/sdfs_chunk_recovery.c,   *)
(* metadata/md_chunk.c, metadata/chunk_redis.c), under a lock kept as a    *)
(* redis key with a lease (klock, kunlock in metadata/redis_co.c and       *)
(* metadata/redis.c), and how a chunk server removes a replica that was    *)
(* moved away from it (yfs/cds/cds.c).                                     *)
(*                                                                         *)
(* A step is one access to shared state: one redis command or one RPC to a *)
(* chunk server.  Disks come and go at any time, so a network_connect has  *)
(* no state to look at: whichever disks it reaches are chosen in the step  *)
(* next to it.                                                             *)
(***************************************************************************)
EXTENDS Integers, FiniteSets

CONSTANTS
  Client,     \* tasks that run sdfs_chunk_read, _write or _recovery
  Disk,       \* chunk servers, one disk each
  Write,      \* calls of sdfs_chunk_write
  RepNum,     \* md->repnum
  MaxCall,    \* bound on the calls that are not writes
  MaxRetry,   \* retries of sdfs_chunk_read/write (100 in the code)
  Faults,     \* lock faults of this environment, see FaultKind
  None        \* no chunk, no lock, no write

(* "overrun": a client keeps working after the lease of its lock is over.  *)
(* "resend": the reply of redis to a SET or DEL is lost and the pool of    *)
(* redis.c sends the command again on a new connection.                    *)
FaultKind == {"overrun", "resend"}

ASSUME SdfsChunkAssumption ==
  /\ IsFiniteSet(Disk)
  /\ RepNum \in 1..Cardinality(Disk)
  /\ MaxRetry \in Nat /\ MaxCall \in Nat
  /\ Faults \subseteq FaultKind
  /\ None \notin Client /\ None \notin Write
  /\ None \notin [clean : SUBSET Disk, dirty : SUBSET Disk]

VARIABLES
  meta,      \* the chunk's chkinfo_t in redis
  lock,      \* the client whose SET NX created the key lock:<chkid>
  content,   \* the writes that each disk's replica file holds
  rmq,       \* the disks whose removal list cds[<nid>] names the chunk
  unlinking, \* the disks on which __chunk_unlink has passed its check
  cl,        \* the local variables of each client
  issued,    \* the writes that were started
  calls,     \* the number of other calls that were started
  acked,     \* history: the writes for which sdfs_chunk_write returned 0
  rebuilt    \* history: the disks that a recovery has written to

vars == <<meta, lock, content, rmq, unlinking, cl, issued, calls, acked, rebuilt>>

(* A chkinfo_t: the disks of the chunk, by their __S_DIRTY bit.            *)
ChkInfo  == [clean : SUBSET Disk, dirty : SUBSET Disk]
NoInfo   == [clean |-> {}, dirty |-> {}]
Disks(i) == i.clean \cup i.dirty

LoadPC == {"fast", "create", "slow_lock", "slow_load", "slow_update",
           "slow_unlock", "slow_err", "slow_enoent", "scan"}
RecPC  == {"rec_lock", "rec_load", "rec_newrep", "rec_pull", "rec_push",
           "rec_check", "rec_update", "rec_unlock", "rec_err"}
IoPC   == {"read", "wr_lock", "writing", "wr_unlock", "wr_err"}
PC     == {"idle", "failed"} \cup LoadPC \cup RecPC \cup IoPC

ClientState ==
  [pc     : PC,
   op     : {"read", "write", "recover"},
   w      : Write \cup {None},  \* the data to write
   base   : SUBSET Write,       \* history: acked when the call began
   info   : ChkInfo,            \* chkinfo
   todo   : SUBSET Disk,        \* disks a loop has still to visit
   intact : BOOLEAN,            \* intect
   ok     : BOOLEAN,            \* success == online, so far
   again  : {0, 1},             \* retry of __chunk_load
   rtry   : {0, 1},             \* retry of __chunk_recovery
   tries  : 0..MaxRetry]        \* retry of sdfs_chunk_read/write

Start(o, w, base) ==
  [pc |-> IF o = "recover" THEN "rec_lock" ELSE "fast", op |-> o, w |-> w,
   base |-> base, info |-> NoInfo, todo |-> {}, intact |-> TRUE, ok |-> TRUE,
   again |-> 0, rtry |-> 0, tries |-> 0]

Idle == [Start("read", None, {}) EXCEPT !.pc = "idle"]

Init ==
  /\ meta = None
  /\ lock = None
  /\ content = [d \in Disk |-> {}]
  /\ rmq = {}
  /\ unlinking = {}
  /\ cl = [c \in Client |-> Idle]
  /\ issued = {}
  /\ calls = 0
  /\ acked = {}
  /\ rebuilt = {}

-----------------------------------------------------------------------------
At(c, l)   == cl[c].pc = l
Set(c, k)  == cl' = [cl EXCEPT ![c] = k]
Goto(c, l) == Set(c, [cl[c] EXCEPT !.pc = l])
Finish(c)  == Set(c, Idle)

(* The call of __chunk_read or __chunk_write returns an error.             *)
Fail(c) == Set(c, [Start(cl[c].op, cl[c].w, cl[c].base) EXCEPT
                     !.pc = "failed", !.tries = cl[c].tries])

(* The pcs at which a client is between its klock and its kunlock.         *)
Holds(c) ==
  \/ cl[c].pc \in {"slow_load", "slow_update", "slow_unlock", "slow_err", "slow_enoent",
                   "rec_load", "rec_newrep", "rec_pull", "rec_push", "rec_check",
                   "rec_update", "rec_unlock", "rec_err"}
  \/ cl[c].pc \in {"writing", "wr_unlock", "wr_err"} /\ ~cl[c].intact

(* klock, which is SET NX EX.  Blocking or not, it ends with the lock, or  *)
(* with EAGAIN because the key exists (after 1000 tries when it blocks),   *)
(* or with a connection error: the key may then have been set, and nobody  *)
(* will delete it before its lease is over.                                *)
Klock(c, locked, failed) ==
  \/ lock = None /\ lock' = c /\ locked
  \/ lock = None /\ lock' = c /\ failed
  \/ UNCHANGED lock /\ failed
  \/ "resend" \in Faults /\ lock = None /\ lock' = c /\ UNCHANGED cl

(* kunlock, which is DEL, whoever set the key; EAGAIN when there is none,  *)
(* or a connection error with or without effect.                           *)
Kunlock(done, failed, waits) ==
  \/ lock # None /\ lock' = None /\ done
  \/ lock' \in {lock, None} /\ failed
  \/ "resend" \in Faults /\ lock # None /\ lock' = None /\ waits

(* hset of a whole chkinfo; its error may come before or after its effect. *)
Hset(info, done, failed) ==
  \/ meta' = info /\ done
  \/ meta' \in {meta, info} /\ failed

(* rm_push and rm_pop, on the removal list of disk d.                      *)
RmPush(d) == rmq' = rmq \cup {d}
RmPop(d)  == d \in rmq /\ rmq' = rmq \ {d}

-----------------------------------------------------------------------------
(* sdfs_chunk_read and sdfs_chunk_write, sdfs_chunk_recovery by a tool     *)
StartRead(c) ==
  /\ At(c, "idle")
  /\ calls < MaxCall /\ calls' = calls + 1
  /\ Set(c, Start("read", None, acked))
  /\ UNCHANGED <<meta, lock, content, rmq, unlinking, issued, acked, rebuilt>>

StartWrite(c) ==
  /\ At(c, "idle")
  /\ \E w \in Write \ issued :
       /\ issued' = issued \cup {w}
       /\ Set(c, Start("write", w, acked))
  /\ UNCHANGED <<meta, lock, content, rmq, unlinking, calls, acked, rebuilt>>

StartRecover(c) ==
  /\ At(c, "idle")
  /\ calls < MaxCall /\ calls' = calls + 1
  /\ Set(c, Start("recover", None, acked))
  /\ UNCHANGED <<meta, lock, content, rmq, unlinking, issued, acked, rebuilt>>

(* Mutant of Retry: one retry too many.                                    *)
RetryOnceMore(c) ==
  /\ At(c, "failed")
  /\ \/ /\ cl[c].tries <= MaxRetry
        /\ Set(c, [cl[c] EXCEPT !.pc = "fast", !.tries = @ + 1])
     \/ Finish(c)
  /\ UNCHANGED <<meta, lock, content, rmq, unlinking, issued, calls, acked, rebuilt>>

(* An error that _errno turns into EAGAIN (all of redis, the network and   *)
(* the lock) makes the whole read or write start again, MaxRetry times;    *)
(* any other error is returned at once.                                    *)
Retry(c) ==
  /\ At(c, "failed")
  /\ \/ /\ cl[c].tries < MaxRetry
        /\ Set(c, [cl[c] EXCEPT !.pc = "fast", !.tries = @ + 1])
     \/ Finish(c)
  /\ UNCHANGED <<meta, lock, content, rmq, unlinking, issued, calls, acked, rebuilt>>

-----------------------------------------------------------------------------
(* __chunk_load: md_chunk_load_check, md_chunk_create, __chunk_recovery    *)

(* ENOENT: a write creates the chunk, a read returns.                      *)
Enoent(c) == IF cl[c].op = "write" THEN Goto(c, "create") ELSE Finish(c)

(* __md_chunk_load_fast and what md_chunk_load_check and __chunk_load make *)
(* of its result: a clean replica that cannot be reached, or an error of   *)
(* redis, leads to __md_chunk_load_slow.                                   *)
LoadFast(c) ==
  /\ At(c, "fast")
  /\ \/ meta = None /\ Enoent(c)
     \/ /\ meta # None /\ meta.clean # {}
        /\ Set(c, [cl[c] EXCEPT !.info = meta, !.pc = "scan"])
     \/ Goto(c, "slow_lock")
  /\ UNCHANGED <<meta, lock, content, rmq, unlinking, issued, calls, acked, rebuilt>>

(* md_chunk_create: the allocator's map of disks may be out of date, so it *)
(* returns any RepNum different disks, or ENOSPC.  HSETNX fails with       *)
(* EEXIST when the chunk is there, its own first try included.             *)
Create(c) ==
  /\ At(c, "create")
  /\ \/ /\ meta = None
        /\ \E D \in SUBSET Disk :
             /\ Cardinality(D) = RepNum
             /\ meta' = [clean |-> D, dirty |-> {}]
             /\ \/ Set(c, [cl[c] EXCEPT !.info = meta', !.pc = "scan"])
                \/ Goto(c, "fast")
                \/ Fail(c)
     \/ meta # None /\ Goto(c, "fast") /\ UNCHANGED meta
     \/ Fail(c) /\ UNCHANGED meta
  /\ UNCHANGED <<lock, content, rmq, unlinking, issued, calls, acked, rebuilt>>

(* Mutant of SlowLock: the metadata is changed without the lock.           *)
SlowLockSkipped(c) ==
  /\ At(c, "slow_lock") /\ Goto(c, "slow_load")
  /\ UNCHANGED <<meta, lock, content, rmq, unlinking, issued, calls, acked, rebuilt>>

(* __md_chunk_load_slow *)
SlowLock(c) ==
  /\ At(c, "slow_lock")
  /\ Klock(c, Goto(c, "slow_load"), Fail(c))
  /\ UNCHANGED <<meta, content, rmq, unlinking, issued, calls, acked, rebuilt>>

(* md_chunk_load and __md_chunk_check: what cannot be reached is DIRTY.    *)
SlowLoad(c) ==
  /\ At(c, "slow_load")
  /\ \/ meta = None /\ Goto(c, "slow_enoent")
     \/ /\ meta # None
        /\ \E lost \in SUBSET meta.clean :
             /\ meta.clean \ lost # {}
             /\ Set(c, [cl[c] EXCEPT !.info = [clean |-> meta.clean \ lost,
                                               dirty |-> meta.dirty \cup lost],
                                     !.pc = "slow_update"])
     \/ Goto(c, "slow_err")
  /\ UNCHANGED <<meta, lock, content, rmq, unlinking, issued, calls, acked, rebuilt>>

(* Mutant of SlowUpdate: the DIRTY bits are not written back.              *)
SlowUpdateDropped(c) ==
  /\ At(c, "slow_update")
  /\ Goto(c, "slow_unlock") \/ Goto(c, "slow_err")
  /\ UNCHANGED <<meta, lock, content, rmq, unlinking, issued, calls, acked, rebuilt>>

(* chunkop->update *)
SlowUpdate(c) ==
  /\ At(c, "slow_update")
  /\ Hset(cl[c].info, Goto(c, "slow_unlock"), Goto(c, "slow_err"))
  /\ UNCHANGED <<lock, content, rmq, unlinking, issued, calls, acked, rebuilt>>

SlowUnlock(c) ==
  /\ At(c, "slow_unlock")
  /\ Kunlock(Goto(c, "scan"), Fail(c), UNCHANGED cl)
  /\ UNCHANGED <<meta, content, rmq, unlinking, issued, calls, acked, rebuilt>>

(* The result of kunlock on the error path is ignored.                     *)
SlowErr(c) ==
  /\ \/ At(c, "slow_err") /\ Kunlock(Fail(c), Fail(c), UNCHANGED cl)
     \/ At(c, "slow_enoent") /\ Kunlock(Enoent(c), Enoent(c), UNCHANGED cl)
  /\ UNCHANGED <<meta, content, rmq, unlinking, issued, calls, acked, rebuilt>>

(* The loop at the end of __chunk_load: the first DIRTY replica makes it   *)
(* run a recovery and load again; at the second look it goes on without    *)
(* that replica.  Then the read or the write proper.                       *)
Scan(c) ==
  /\ At(c, "scan")
  /\ \/ /\ cl[c].info.dirty # {} /\ cl[c].again = 0
        /\ Set(c, [cl[c] EXCEPT !.pc = "rec_lock", !.rtry = 0, !.info = NoInfo])
     \/ /\ cl[c].info.dirty # {} /\ cl[c].again = 1
        /\ Set(c, [cl[c] EXCEPT !.intact = FALSE, !.todo = cl[c].info.clean,
                               !.pc = IF cl[c].op = "read" THEN "read" ELSE "wr_lock"])
     \/ /\ cl[c].info.dirty = {}
        /\ Set(c, [cl[c] EXCEPT !.intact = TRUE, !.todo = cl[c].info.clean,
                               !.pc = IF cl[c].op = "read" THEN "read" ELSE "writing"])
  /\ UNCHANGED <<meta, lock, content, rmq, unlinking, issued, calls, acked, rebuilt>>

-----------------------------------------------------------------------------
(* __chunk_read: one clean replica is asked, the one netable_sort puts     *)
(* first; if it does not answer, the others are not asked.                 *)
Read(c) ==
  /\ At(c, "read")
  /\ Finish(c) \/ Fail(c)
  /\ UNCHANGED <<meta, lock, content, rmq, unlinking, issued, calls, acked, rebuilt>>

(* Mutant of WriteLock: a klock that fails ends in the kunlock.            *)
WriteLockErrUnlocks(c) ==
  /\ At(c, "wr_lock")
  /\ Klock(c, Goto(c, "writing"), Goto(c, "wr_err"))
  /\ UNCHANGED <<meta, content, rmq, unlinking, issued, calls, acked, rebuilt>>

(* __chunk_write *)
WriteLock(c) ==
  /\ At(c, "wr_lock")
  /\ Klock(c, Goto(c, "writing"), Fail(c))
  /\ UNCHANGED <<meta, content, rmq, unlinking, issued, calls, acked, rebuilt>>

Written(c, d) == content' = [content EXCEPT ![d] = @ \cup {cl[c].w}]

(* __chunk_replica_write__: an RPC that fails may have been carried out.   *)
WriteReplica(c) ==
  /\ At(c, "writing")
  /\ \E d \in cl[c].todo :
       \/ /\ Written(c, d)
          /\ Set(c, [cl[c] EXCEPT !.todo = @ \ {d}])
       \/ /\ Written(c, d) \/ UNCHANGED content
          /\ Set(c, [cl[c] EXCEPT !.todo = @ \ {d}, !.ok = FALSE])
  /\ UNCHANGED <<meta, lock, rmq, unlinking, issued, calls, acked, rebuilt>>

Ack(c) == acked' = acked \cup {cl[c].w} /\ Finish(c)

(* Mutant of WriteDone: one replica that was written is enough.            *)
WriteDonePartial(c) ==
  /\ At(c, "writing") /\ cl[c].todo = {}
  /\ \/ cl[c].intact /\ Ack(c)
     \/ ~cl[c].intact /\ Goto(c, "wr_unlock") /\ UNCHANGED acked
  /\ UNCHANGED <<meta, lock, content, rmq, unlinking, issued, calls, rebuilt>>

(* The end of __chunk_write__: EAGAIN unless every replica was written.    *)
WriteDone(c) ==
  /\ At(c, "writing") /\ cl[c].todo = {}
  /\ \/ cl[c].ok /\ cl[c].intact /\ Ack(c)
     \/ cl[c].ok /\ ~cl[c].intact /\ Goto(c, "wr_unlock") /\ UNCHANGED acked
     \/ ~cl[c].ok /\ cl[c].intact /\ Fail(c) /\ UNCHANGED acked
     \/ ~cl[c].ok /\ ~cl[c].intact /\ Goto(c, "wr_err") /\ UNCHANGED acked
  /\ UNCHANGED <<meta, lock, content, rmq, unlinking, issued, calls, rebuilt>>

(* The write returns 0 only if its kunlock found the key.                  *)
WriteUnlock(c) ==
  /\ At(c, "wr_unlock")
  /\ Kunlock(Ack(c), Fail(c) /\ UNCHANGED acked, UNCHANGED <<cl, acked>>)
  /\ UNCHANGED <<meta, content, rmq, unlinking, issued, calls, rebuilt>>

WriteErr(c) ==
  /\ At(c, "wr_err")
  /\ Kunlock(Fail(c), Fail(c), UNCHANGED cl)
  /\ UNCHANGED <<meta, content, rmq, unlinking, issued, calls, acked, rebuilt>>

-----------------------------------------------------------------------------
(* sdfs_chunk_recovery *)

(* Mutant of RecDone: __chunk_load does not remember that it has retried.  *)
RecDoneForgets(c) ==
  IF cl[c].op = "recover" THEN Finish(c)
  ELSE Set(c, [cl[c] EXCEPT !.pc = "fast", !.info = NoInfo, !.todo = {}])

(* It returns to __chunk_recovery, which calls it again once if it failed  *)
(* and then lets __chunk_load load the metadata again, or to the tool.     *)
RecDone(c) ==
  IF cl[c].op = "recover" THEN Finish(c)
  ELSE Set(c, [cl[c] EXCEPT !.again = 1, !.pc = "fast", !.info = NoInfo, !.todo = {}])

RecFail(c) ==
  IF cl[c].op # "recover" /\ cl[c].rtry = 0
  THEN Set(c, [cl[c] EXCEPT !.rtry = 1, !.pc = "rec_lock", !.info = NoInfo, !.todo = {}])
  ELSE RecDone(c)

(* Its klock does not block, and md_getattr may fail before it.            *)
RecLock(c) ==
  /\ At(c, "rec_lock")
  /\ Klock(c, Goto(c, "rec_load"), RecFail(c))
  /\ UNCHANGED <<meta, content, rmq, unlinking, issued, calls, acked, rebuilt>>

(* md_chunk_newdisk: md_chunk_load and the counting loop of __md_newrep.   *)
RecLoad(c) ==
  /\ At(c, "rec_load")
  /\ \/ /\ meta # None
        /\ \E offline \in SUBSET Disks(meta) :
             /\ offline # {} => meta.clean \ offline # {}
             /\ Set(c, [cl[c] EXCEPT !.info = meta, !.todo = offline,
                                     !.pc = IF offline = {} THEN "rec_pull" ELSE "rec_newrep"])
     \/ Goto(c, "rec_err")
  /\ UNCHANGED <<meta, lock, content, rmq, unlinking, issued, calls, acked, rebuilt>>

(* Mutant of RecNewrep: the new disk may already have a replica.           *)
RecNewrepAnyDisk(c) ==
  /\ At(c, "rec_newrep")
  /\ \/ \E o \in cl[c].todo : \E n \in Disk \ {o} :
          /\ RmPush(o)
          /\ Set(c, [cl[c] EXCEPT !.info = [clean |-> @.clean \ {o},
                                            dirty |-> (@.dirty \ {o}) \cup {n}],
                                  !.todo = @ \ {o},
                                  !.pc = IF cl[c].todo = {o} THEN "rec_pull" ELSE "rec_newrep"])
     \/ Goto(c, "rec_err") /\ UNCHANGED rmq
  /\ UNCHANGED <<meta, lock, content, unlinking, issued, calls, acked, rebuilt>>

(* __md_newdisk: a disk of the allocator that has no replica of the chunk. *)
NewDisk(info) == Disk \ Disks(info)

(* One turn of __md_newrep's loop: an offline disk o is replaced by one    *)
(* that has no replica, and put on the removal list before the chunk's     *)
(* metadata says so.                                                       *)
RecNewrep(c) ==
  /\ At(c, "rec_newrep")
  /\ \/ \E o \in cl[c].todo : \E n \in NewDisk(cl[c].info) :
          /\ RmPush(o)
          /\ \/ Set(c, [cl[c] EXCEPT !.info = [clean |-> @.clean \ {o},
                                               dirty |-> (@.dirty \ {o}) \cup {n}],
                                     !.todo = @ \ {o},
                                     !.pc = IF cl[c].todo = {o} THEN "rec_pull" ELSE "rec_newrep"])
             \/ Goto(c, "rec_err")
     \/ Goto(c, "rec_err") /\ UNCHANGED rmq
  /\ UNCHANGED <<meta, lock, content, unlinking, issued, calls, acked, rebuilt>>

(* Mutant of RecPull: nothing is pushed to the DIRTY replicas.             *)
RecPullOnly(c) ==
  /\ At(c, "rec_pull")
  /\ \/ /\ cl[c].info.clean # {}
        /\ Set(c, [cl[c] EXCEPT !.todo = {}, !.pc = "rec_push"])
     \/ Goto(c, "rec_err")
  /\ UNCHANGED <<meta, lock, content, rmq, unlinking, issued, calls, acked, rebuilt>>

(* __sdfs_chunk_sync: every clean replica must answer, one is pulled into  *)
(* a local file; then the loop over the DIRTY ones begins.                 *)
RecPull(c) ==
  /\ At(c, "rec_pull")
  /\ \/ /\ cl[c].info.clean # {}
        /\ Set(c, [cl[c] EXCEPT !.todo = cl[c].info.dirty, !.pc = "rec_push"])
     \/ Goto(c, "rec_err")
  /\ UNCHANGED <<meta, lock, content, rmq, unlinking, issued, calls, acked, rebuilt>>

(* __sdfs_chunk_push: what was pulled is written over the replica, from 0  *)
(* to the size the file had at md_getattr.  None of the source's data gets *)
(* to its place (module ChunkCopy), so the replica loses what lies below   *)
(* that size; the size is 0 when the attributes have not been flushed.     *)
RecPush(c) ==
  /\ At(c, "rec_push")
  /\ \/ \E d \in cl[c].todo : \E kept \in {content[d], {}} :
          /\ content' = [content EXCEPT ![d] = kept]
          /\ rebuilt' = rebuilt \cup {d}
          /\ \/ Set(c, [cl[c] EXCEPT !.todo = @ \ {d}])
             \/ Goto(c, "rec_err")
     \/ /\ cl[c].todo = {} /\ Goto(c, "rec_check")
        /\ UNCHANGED <<content, rebuilt>>
     \/ Goto(c, "rec_err") /\ UNCHANGED <<content, rebuilt>>
  /\ UNCHANGED <<meta, lock, rmq, unlinking, issued, calls, acked>>

(* All replicas are clean, unless that took more than 10 seconds.          *)
RecCheck(c) ==
  /\ At(c, "rec_check")
  /\ \/ Set(c, [cl[c] EXCEPT !.info = [clean |-> Disks(@), dirty |-> {}],
                            !.pc = "rec_update"])
     \/ Goto(c, "rec_err")
  /\ UNCHANGED <<meta, lock, content, rmq, unlinking, issued, calls, acked, rebuilt>>

(* md_chunk_update *)
RecUpdate(c) ==
  /\ At(c, "rec_update")
  /\ Hset(cl[c].info, Goto(c, "rec_unlock"), Goto(c, "rec_err"))
  /\ UNCHANGED <<lock, content, rmq, unlinking, issued, calls, acked, rebuilt>>

RecUnlock(c) ==
  /\ \/ At(c, "rec_unlock") /\ Kunlock(RecDone(c), RecFail(c), UNCHANGED cl)
     \/ At(c, "rec_err") /\ Kunlock(RecFail(c), RecFail(c), UNCHANGED cl)
  /\ UNCHANGED <<meta, content, rmq, unlinking, issued, calls, acked, rebuilt>>

-----------------------------------------------------------------------------
(* chunk_cleanup on disk d: rm_pop, and __chunk_unlink up to its check     *)
(* that the metadata does not name this disk; the entry is gone either     *)
(* way.                                                                    *)
Cleanup(d) ==
  /\ RmPop(d)
  /\ unlinking' = IF meta = None \/ d \notin Disks(meta) THEN unlinking \cup {d}
                  ELSE unlinking
  /\ UNCHANGED <<meta, lock, content, cl, issued, calls, acked, rebuilt>>

(* disk_unlink1, or an error.                                              *)
Unlink(d) ==
  /\ d \in unlinking
  /\ unlinking' = unlinking \ {d}
  /\ content' \in {content, [content EXCEPT ![d] = {}]}
  /\ UNCHANGED <<meta, lock, rmq, cl, issued, calls, acked, rebuilt>>

(* The environment: the node of a client stops.                            *)
Crash(c) ==
  /\ ~At(c, "idle") /\ Finish(c)
  /\ UNCHANGED <<meta, lock, content, rmq, unlinking, issued, calls, acked, rebuilt>>

(* Mutant of Expire: the key is set without EX.                            *)
ExpireNever == FALSE /\ UNCHANGED vars

(* redis drops the key when the time of its EX (redis_kset) is over.       *)
(* Without the fault "overrun" a client is done with its lock by then.     *)
Expire ==
  /\ lock # None
  /\ Holds(lock) => "overrun" \in Faults
  /\ lock' = None
  /\ UNCHANGED <<meta, content, rmq, unlinking, cl, issued, calls, acked, rebuilt>>

Step(c) ==
  \/ Retry(c) \/ LoadFast(c) \/ Create(c) \/ SlowLock(c) \/ SlowLoad(c)
  \/ SlowUpdate(c) \/ SlowUnlock(c) \/ SlowErr(c) \/ Scan(c) \/ Read(c)
  \/ WriteLock(c) \/ WriteReplica(c) \/ WriteDone(c) \/ WriteUnlock(c) \/ WriteErr(c)
  \/ RecLock(c) \/ RecLoad(c) \/ RecNewrep(c) \/ RecPull(c) \/ RecPush(c)
  \/ RecCheck(c) \/ RecUpdate(c) \/ RecUnlock(c)

Next ==
  \/ \E c \in Client : StartRead(c) \/ StartWrite(c) \/ StartRecover(c) \/ Step(c) \/ Crash(c)
  \/ \E d \in Disk : Cleanup(d) \/ Unlink(d)
  \/ Expire

(* A task that can run is run, and a lease ends.                           *)
Fairness == (\A c \in Client : WF_vars(Step(c))) /\ WF_vars(Expire)

Spec == Init /\ [][Next]_vars /\ Fairness

-----------------------------------------------------------------------------
TypeOK ==
  /\ meta \in ChkInfo \cup {None}
  /\ lock \in Client \cup {None}
  /\ content \in [Disk -> SUBSET Write]
  /\ rmq \subseteq Disk
  /\ unlinking \subseteq Disk
  /\ cl \in [Client -> ClientState]
  /\ issued \subseteq Write
  /\ calls \in 0..MaxCall
  /\ acked \subseteq issued
  /\ rebuilt \subseteq Disk

(* Whatever happens to the lock, the chunk keeps RepNum different replicas *)
(* and never loses its last clean one (md_chunk_create, __md_chunk_check,  *)
(* __md_newrep and the recovery's update).                                 *)
RepIntegrity ==
  meta # None => /\ Cardinality(Disks(meta)) = RepNum
                 /\ meta.clean \cap meta.dirty = {}
                 /\ meta.clean # {}

(* As long as leases are not overrun and commands not sent twice, no two   *)
(* clients are inside klock/kunlock at once, although kunlock deletes the  *)
(* key without looking at its owner and lost replies leave keys behind.    *)
LockExclusion == \A c \in Client : Holds(c) => lock = c

(* A replica that redis lists as clean and that no recovery has written to *)
(* holds every write that sdfs_chunk_write acknowledged, across lost RPCs, *)
(* crashes, retries, stale chkinfos and the removal of old replicas.       *)
OriginalHoldsAcked ==
  meta # None => \A d \in meta.clean \ rebuilt : acked \subseteq content[d]

(* A read asks only replicas that hold all that was acknowledged before it *)
(* began, even if the chkinfo it loaded is out of date, unless the disk    *)
(* was rebuilt or replaced by a recovery in the meantime.                  *)
ReadSeesAcked ==
  \A c \in Client : At(c, "read") =>
    \A d \in (cl[c].info.clean \cap Disks(meta)) \ rebuilt : cl[c].base \subseteq content[d]

(* A DIRTY or new replica becomes clean only by a step of a recovery that  *)
(* has written to it: __md_chunk_load_slow, which writes a whole chkinfo   *)
(* back, never brings one back to life.                                    *)
NoResurrection ==
  [][meta # None => meta'.clean \ meta.clean \subseteq rebuilt]_vars

(* The chkinfo goes through nothing but the steps of ReplicaSet: creation, *)
(* the loss of clean replicas but the last, and a rebuild from a replica   *)
(* that was clean.  No update is lost and none is out of date, although    *)
(* each of them writes back the whole chkinfo that was loaded earlier.     *)
Chunk == INSTANCE ReplicaSet WITH reps <- meta

ImplementsReplicaSet == Chunk!Spec

(* Every call comes to an end: blocked locks, lost locks and recoveries    *)
(* that fail do not keep a client for ever.                                *)
CallsEnd == \A c \in Client : ~At(c, "idle") ~> At(c, "idle")

(* The lock comes free again and again, although its key may be left       *)
(* behind by an owner that crashed or that never learnt that it got it.    *)
LockFreed == []<>(lock = None)

(* A write that found a DIRTY replica and therefore took the lock, under   *)
(* which no recovery can run, is in every replica that redis lists as      *)
(* clean when sdfs_chunk_write acknowledges it: what was written is what   *)
(* the next read returns, whichever of them it asks.                       *)
AckCoversClean ==
  [][\A c \in Client : (cl[c].w \in acked' \ acked /\ ~cl[c].intact) =>
       \A d \in meta.clean : cl[c].w \in content[d]]_vars

=============================================================================
