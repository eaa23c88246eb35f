------------------------------ MODULE AttrQueue ------------------------------
(***************************************************************************)
(* The attributes of one file: its record in redis (metadata/              *)
(* inode_redis.c), the copy of that record every core keeps for ac_timeout *)
(* seconds, and the queue in which a core collects sizes and times before  *)
(* it writes them to redis (sdfs/attr_queue.c).  A core runs coroutines:   *)
(* the tasks of its clients and the task that empties the queue.  Between  *)
(* two waits for redis a coroutine runs alone on its core, and redis       *)
(* answers the commands of one core in the order in which it executes them *)
(* (redis_co.c).                                                           *)
(***************************************************************************)
EXTENDS Integers, Sequences, FiniteSets

CONSTANTS
  Core,       \* the cores, of one or of several daemons, that use the file
  Task,       \* the client tasks, pairs of a core and a number from 1
  MaxSize,    \* bound on the size of the file
  Uses,       \* the ways in which the file is used: see Use
  None

Flusher(n) == <<n, 0>>                   \* __attr_queue_run_task of core n
Actor == Task \cup {Flusher(n) : n \in Core}
Size == 0..MaxSize

(* One use: the calls that are made, how many and by which tasks, with     *)
(* which sizes; is mdsconf.ac_timeout not 0, so that cores keep copies;    *)
(* and may a flush fail ("flush") or a daemon stop ("crash").              *)
Op == {"write", "truncate", "settime", "getattr", "setattr", "unlink"}
Use == [ops : SUBSET Op, calls : Nat, tasks : (SUBSET Task) \ {{}}, sizes : SUBSET Size,
        ac_timeout : BOOLEAN, faults : SUBSET {"flush", "crash"}]

Record == [size : Nat, ver : Nat, mode : {0, 1}]     \* at_size, md_version, at_mode
Entry == [set : {"not", "extern", "truncate"}, size : Nat, running : BOOLEAN]

ASSUME AttrQueueAssumption ==
  /\ Task \subseteq Core \X (Nat \ {0}) /\ MaxSize \in Nat /\ Uses \subseteq Use
  /\ None \notin Actor /\ None \notin Record /\ None \notin Entry

VARIABLES
  md,      \* the record in redis; all zero when there is none
  lock,    \* the holder of klock of the file
  cache,   \* attr_queue->kv of each core
  ent,     \* the entry of the file in attr_queue->tab of each core
  q,       \* per core, who waits for redis, in the order of the answers
  act,     \* the tasks
  calls,   \* number of calls so far
  use      \* how the file is used, which never changes

vars == <<md, lock, cache, ent, q, act, calls, use>>

NoInode == [size |-> 0, ver |-> 0, mode |-> 0]   \* __md_get after ENOENT
Idle == [pc |-> "idle", op |-> "", size |-> 0, md |-> NoInode]

Ready == {"idle", "done", "failed"}         \* of a task that makes no call

Init ==
  /\ md = [size |-> 0, ver |-> 1, mode |-> 1]
  /\ lock = None
  /\ cache = [n \in Core |-> None]
  /\ ent = [n \in Core |-> None]
  /\ q = [n \in Core |-> <<>>]
  /\ act = [a \in Actor |-> Idle]
  /\ calls = 0
  /\ use \in Uses

Bigger(x, y) == IF x > y THEN x ELSE y

(* attr_queue_update: what an entry makes of the size in a record.         *)
Applied(e, size) ==
  IF e = None \/ e.set = "not" THEN size
  ELSE IF e.set = "extern" THEN Bigger(e.size, size)
  ELSE e.size

(* The size that a client of core n sees now.                              *)
View(n) == Applied(ent[n], IF cache[n] # None THEN cache[n].size ELSE md.size)

Goto(a, pc) == act' = [act EXCEPT ![a].pc = pc]

-----------------------------------------------------------------------------
(* A client calls sdfs_write (to the end s > 0), sdfs_truncate,            *)
(* sattr_utime, sdfs_getattr, sdfs_setattr (chmod, chown) or sdfs_unlink.  *)
Call(a, op, s) ==
  /\ act[a].pc \in Ready /\ calls < use.calls
  /\ op = "unlink" => md.mode = 1 /\ \A b \in Task : act[b].op = op => act[b].pc \in Ready
  /\ calls' = calls + 1
  /\ act' = [act EXCEPT ![a] =
       [Idle EXCEPT !.op = op, !.size = s,
          !.pc = CASE op \in {"write", "getattr"}    -> "getattr"
                   [] op \in {"truncate", "settime"} -> "queue"
                   [] OTHER                          -> "lock"]]
  /\ UNCHANGED <<md, lock, cache, ent, q, use>>

(* A coroutine has the record m.  Clients' calls apply the queue to it     *)
(* (md_getattr), the flusher and the calls that change the record do not.  *)
Have(a, m) ==
  LET fresh == [m EXCEPT !.size = Applied(ent[a[1]], m.size)]
  IN  act' = [act EXCEPT
        ![a].md = IF act[a].op \in {"write", "getattr"} THEN fresh ELSE m,
        ![a].pc = CASE act[a].op = "write"   -> IF m.mode = 0 THEN "failed" ELSE "data"
                    [] act[a].op = "getattr" -> "done"
                    [] OTHER                 -> "set"]

(* attr_cache_update, of the record m on core n.                           *)
CacheUpdate(n, m) ==
  IF ~use.ac_timeout \/ (cache[n] # None /\ cache[n].ver >= m.ver) THEN cache
  ELSE [cache EXCEPT ![n] = m]

(* __inode_getattr finds a copy ...                                        *)
GetHit(a) ==
  /\ act[a].pc = "getattr" /\ cache[a[1]] # None
  /\ Have(a, cache[a[1]])
  /\ UNCHANGED <<md, lock, cache, ent, q, calls, use>>

(* ... or sends hget, which redis executes ...                             *)
Hget(a) ==
  /\ act[a].pc = "getattr" /\ cache[a[1]] = None
  /\ act' = [act EXCEPT ![a].pc = "got", ![a].md = md]
  /\ q' = [q EXCEPT ![a[1]] = Append(@, a)]
  /\ UNCHANGED <<md, lock, cache, ent, calls, use>>

(* Mutant of Answered: answers arrive in any order.                        *)
AnsweredAny(a) ==
  /\ \E i \in 1..Len(q[a[1]]) : q[a[1]][i] = a
  /\ q' = [q EXCEPT ![a[1]] = SelectSeq(@, LAMBDA b : b # a)]

(* It is a's turn to get its answer.                                       *)
Answered(a) ==
  /\ q[a[1]] # <<>> /\ Head(q[a[1]]) = a
  /\ q' = [q EXCEPT ![a[1]] = Tail(@)]

(* ... and answers.                                                        *)
HgetRet(a) ==
  /\ act[a].pc = "got" /\ Answered(a)
  /\ cache' = CacheUpdate(a[1], act[a].md)
  /\ Have(a, act[a].md)
  /\ UNCHANGED <<md, lock, ent, calls, use>>

(* sdfs_write has written its chunks; at_size is what it read before.      *)
Written(a) ==
  /\ act[a].pc = "data"
  /\ Goto(a, IF act[a].size > act[a].md.size THEN "queue" ELSE "done")
  /\ UNCHANGED <<md, lock, cache, ent, q, calls, use>>

-----------------------------------------------------------------------------
(* __attr_queue_update: the call op with size s joins the entry e.         *)
Merged(e, op, s) ==
  CASE op = "truncate" -> [e EXCEPT !.set = "truncate", !.size = s]
    [] op = "write" -> [e EXCEPT !.set = IF @ = "not" THEN "extern" ELSE @,
                                 !.size = IF e.set = "not" THEN s ELSE Bigger(@, s)]
    [] OTHER -> e

NewEnt == [set |-> "not", size |-> 0, running |-> FALSE]

(* __attr_queue, without the wait: a new entry, or a change of the one     *)
(* that is queued.                                                         *)
Queue(a) ==
  LET n == a[1]
      e == IF ent[n] = None THEN NewEnt ELSE ent[n]
  IN  /\ act[a].pc = "queue" /\ ~e.running
      /\ UNCHANGED <<md, lock, cache, q, calls, use>>
      /\ ent' = [ent EXCEPT ![n] = Merged(e, act[a].op, act[a].size)]
      /\ Goto(a, "done")

(* __attr_wait: the entry is being written out.                            *)
Wait(a) ==
  /\ act[a].pc = "queue" /\ ent[a[1]] # None /\ ent[a[1]].running
  /\ Goto(a, "wait")
  /\ UNCHANGED <<md, lock, cache, ent, q, calls, use>>

-----------------------------------------------------------------------------
(* Mutant of FlushStart: only truncations are written out.                 *)
FlushStartTruncate(n) ==
  LET a == Flusher(n)
  IN  /\ ent[n] # None /\ ent[n].set = "truncate" /\ act[a].pc = "idle"
      /\ ent' = [ent EXCEPT ![n].running = TRUE]
      /\ act' = [act EXCEPT ![a] = [Idle EXCEPT !.pc = "lock", !.op = "flush"]]
      /\ UNCHANGED <<md, lock, cache, q, calls, use>>

(* attr_queue_run starts the flusher, which takes the entry.               *)
FlushStart(n) ==
  LET a == Flusher(n)
  IN  /\ ent[n] # None /\ act[a].pc = "idle"
      /\ ent' = [ent EXCEPT ![n].running = TRUE]
      /\ act' = [act EXCEPT ![a] = [Idle EXCEPT !.pc = "lock", !.op = "flush"]]
      /\ UNCHANGED <<md, lock, cache, q, calls, use>>

(* klock, with block set: it is tried again until it is free.              *)
Lock(a) ==
  /\ act[a].pc = "lock" /\ lock = None
  /\ lock' = a
  /\ Goto(a, "getattr")
  /\ UNCHANGED <<md, cache, ent, q, calls, use>>

(* Mutant of Updated: a size in the queue replaces the one of the record.  *)
UpdatedRaw(a, m) ==
  LET e == ent[a[1]]
  IN  CASE act[a].op = "flush" /\ e.set = "not" -> m
        [] act[a].op = "flush" /\ e.set # "not" -> [m EXCEPT !.size = e.size, !.ver = @ + 1]
        [] OTHER -> [m EXCEPT !.ver = @ + 1]

(* md_attr_update, or the change of the link count: times alone do not     *)
(* make a new version.                                                     *)
Updated(a, m) ==
  LET e == ent[a[1]]
  IN  CASE act[a].op = "flush" /\ e.set = "not" -> m
        [] act[a].op = "flush" /\ e.set # "not" -> [m EXCEPT !.size = Applied(e, @), !.ver = @ + 1]
        [] OTHER -> [m EXCEPT !.ver = @ + 1]

(* YASSERT(md->at_mode) fails in __inode_setattr.                          *)
AssertFails(a) == act[a].pc = "set" /\ act[a].op # "unlink" /\ act[a].md.mode = 0

(* __md_set: redis executes hset ...                                       *)
Hset(a) ==
  LET m == Updated(a, act[a].md)
  IN  /\ act[a].pc = "set" /\ ~AssertFails(a)
      /\ md' = m
      /\ act' = [act EXCEPT ![a].pc = "setret", ![a].md = m]
      /\ q' = [q EXCEPT ![a[1]] = Append(@, a)]
      /\ UNCHANGED <<lock, cache, ent, calls, use>>

(* ... and answers, and the core renews its copy.                          *)
HsetRet(a) ==
  /\ act[a].pc = "setret" /\ Answered(a)
  /\ cache' = CacheUpdate(a[1], act[a].md)
  /\ Goto(a, "unlock")
  /\ UNCHANGED <<md, lock, ent, calls, use>>

(* Mutant of Removed: nobody is woken.                                     *)
RemovedQuiet(n, A) == [A EXCEPT ![Flusher(n)] = Idle]

(* __attr_queue_remove wakes the tasks that wait for the entry.            *)
Removed(n, A) ==
  [a \in Actor |-> IF a = Flusher(n) THEN Idle
                   ELSE IF a[1] = n /\ A[a].pc = "wait" THEN [A[a] EXCEPT !.pc = "queue"]
                   ELSE A[a]]

(* kunlock ends __inode_setattr; the flusher removes its entry.            *)
Unlock(a) ==
  /\ act[a].pc = "unlock"
  /\ lock' = None
  /\ IF act[a].op = "flush"
     THEN ent' = [ent EXCEPT ![a[1]] = None] /\ act' = Removed(a[1], act)
     ELSE UNCHANGED ent /\ Goto(a, IF act[a].op = "unlink" THEN "del" ELSE "done")
  /\ UNCHANGED <<md, cache, q, calls, use>>

(* md_remove, after the links: the record is deleted in redis.             *)
Del(a) ==
  /\ act[a].pc = "del"
  /\ md' = NoInode
  /\ Goto(a, "done")
  /\ UNCHANGED <<lock, cache, ent, q, calls, use>>

-----------------------------------------------------------------------------
(* kv_expire and kv_get drop a copy after ac_timeout, and no answer of     *)
(* redis takes that long.                                                  *)
Expire(n) ==
  /\ cache[n] # None /\ q[n] = <<>>
  /\ cache' = [cache EXCEPT ![n] = None]
  /\ UNCHANGED <<md, lock, ent, q, act, calls, use>>

(* klock, hget or hset fails for good in the flusher: its entry is dropped   *)
(* and what it held is lost.                                               *)
FlushFail(n) ==
  LET a == Flusher(n)
  IN  /\ "flush" \in use.faults /\ act[a].pc \in {"lock", "getattr", "set"}
      /\ lock' = IF lock = a THEN None ELSE lock
      /\ ent' = [ent EXCEPT ![n] = None]
      /\ act' = Removed(n, act)
      /\ UNCHANGED <<md, cache, q, calls, use>>

(* The daemon of core n loses what it has in memory, and starts again.     *)
Restart(n) ==
  /\ cache' = [cache EXCEPT ![n] = None]
  /\ ent' = [ent EXCEPT ![n] = None]
  /\ q' = [q EXCEPT ![n] = <<>>]
  /\ act' = [a \in Actor |-> IF a[1] # n \/ act[a].pc \in Ready THEN act[a]
                             ELSE IF a = Flusher(n) THEN Idle
                             ELSE [act[a] EXCEPT !.pc = "failed"]]
  /\ UNCHANGED <<md, lock, calls, use>>

Abort(n) == (\E a \in Actor : a[1] = n /\ AssertFails(a)) /\ Restart(n)

Crash(n) == "crash" \in use.faults /\ Restart(n)

(* The lock of a holder that crashed goes away with its ttl.               *)
LockExpire ==
  /\ lock # None
  /\ act[lock].pc \notin {"getattr", "got", "set", "setret", "unlock"}
  /\ lock' = None
  /\ UNCHANGED <<md, cache, ent, q, act, calls, use>>

-----------------------------------------------------------------------------
Step(a) ==
  \/ GetHit(a) \/ Hget(a) \/ HgetRet(a) \/ Written(a) \/ Queue(a) \/ Wait(a)
  \/ Lock(a) \/ Hset(a) \/ HsetRet(a) \/ Unlock(a) \/ Del(a)

Next ==
  \/ \E a \in use.tasks, op \in use.ops :
       \E s \in CASE op = "write"    -> use.sizes \ {0}
                 [] op = "truncate" -> use.sizes
                 [] OTHER           -> {0} : Call(a, op, s)
  \/ \E a \in Actor : Step(a)
  \/ \E n \in Core : FlushStart(n) \/ Expire(n) \/ FlushFail(n) \/ Abort(n) \/ Crash(n)
  \/ LockExpire

(* Coroutines that can run do, attr_queue_run is called in every turn of   *)
(* the core's loop, redis answers, and a lock that is free now and again   *)
(* is taken: no step of an actor but Lock is disabled by another one, so   *)
(* that fairness is strong for Lock alone.                                 *)
Fairness ==
  /\ \A a \in Actor : SF_vars(Step(a))
  /\ \A n \in Core : WF_vars(FlushStart(n)) /\ WF_vars(Abort(n))
  /\ WF_vars(LockExpire)

Spec == Init /\ [][Next]_vars /\ Fairness

-----------------------------------------------------------------------------
(* A write whose end is not beyond the size that it read has taken effect  *)
(* then; the other ones take effect in the queue.                          *)
Open(a) ==
  /\ act[a].pc \notin Ready
  /\ ~(act[a].pc = "data" /\ act[a].size <= act[a].md.size)

(* One core uses the file and keeps running.                               *)
Alone ==
  /\ \A a, b \in use.tasks : a[1] = b[1]
  /\ use.faults = {} /\ "unlink" \notin use.ops

(* With one core the record in redis, the copy of it and the queue are one *)
(* size, and every call takes effect at one moment between its start and   *)
(* its return: flushing an entry, losing a copy or renewing one never      *)
(* shows.  What makes this hard: sdfs_write decides with a size that it    *)
(* read before its data was written, and sdfs_getattr may wait for redis   *)
(* while the entry that it has to apply is written out and removed.        *)
One == (CHOOSE a \in use.tasks : TRUE)[1]         \* the core

Told(a) ==
  [op |-> act[a].op, size |-> act[a].size, open |-> Open(a),
   ret |-> IF act[a].op = "getattr" /\ ~Open(a) THEN act[a].md.size ELSE 0]

Untold == [op |-> "", size |-> 0, open |-> FALSE, ret |-> 0]

Clients == INSTANCE FileSize WITH
  Ops <- Op,
  size <- IF Alone THEN View(One) ELSE 0,
  call <- [a \in Task |-> IF Alone THEN Told(a) ELSE Untold]

ImplementsFileSize == Clients!Spec

(* Nobody keeps copies, the file only grows, and nothing fails.            *)
GrowsUncached ==
  ~use.ac_timeout /\ use.ops \subseteq {"write", "settime"} /\ use.faults = {}

(* When cores keep no copies and nobody truncates, the size in redis never *)
(* shrinks: __inode_setattr reads the record under the lock, so that the   *)
(* flushers of several cores do not undo each other's sizes.               *)
SizeNeverShrinks == [][GrowsUncached => md'.size >= md.size]_vars

(* A size that was acknowledged by any core gets into redis, where the     *)
(* other cores and the recovery of chunks find it.                         *)
SizeReachesRedis ==
  \A s \in 1..MaxSize : (GrowsUncached /\ \E n \in Core : View(n) >= s) ~> (md.size >= s)

(* Every call ends, whatever entries fail to be written and whichever      *)
(* daemons stop while they hold the lock of the file.                      *)
CallsEnd == \A a \in Task : (act[a].pc \notin Ready) ~> (act[a].pc \in Ready)

=============================================================================
