------------------------------- MODULE Plock -------------------------------
(***************************************************************************)
(* The coroutine read/write lock of ylib/lib/plock.c (the PLOCK_NEW half,  *)
(* the one that is compiled).  All tasks of one lock run on one core       *)
(* thread (__plock_check), so everything between two yields is one step:   *)
(* an attempt to lock either succeeds or queues the task, an unlock also   *)
(* hands the lock to the waiters at the head of the queue, and the task    *)
(* that was handed the lock returns from plock_rdlock/wrlock in a later    *)
(* step, when the scheduler runs it again.                                 *)
(***************************************************************************)
EXTENDS Integers, Sequences, FiniteSets, SequencesExt

CONSTANTS
  Task,        \* the coroutines that share the lock
  PrioTask,    \* the ones that call plock_wrlock_prio with a priority
  NoTask,      \* rwlock->writer = -1
  WaitTmo,     \* the 180 of __plock_wait's schedule_yield1
  RpcTimeout,  \* gloconf.rpc_timeout
  MaxTime      \* bound on the clock

ASSUME PlockAssumption ==
  /\ IsFiniteSet(Task) /\ PrioTask \subseteq Task
  /\ NoTask \notin Task
  /\ WaitTmo \in Nat /\ RpcTimeout \in Nat /\ MaxTime \in Nat

VARIABLES
  writer,   \* rwlock->writer
  readers,  \* rwlock->readers
  queue,    \* rwlock->queue, a sequence of lock_wait_t
  pc,       \* where each task is
  since,    \* lock_wait->lock_time, which is also the yield's wait_begin
  now       \* gettime()

vars == <<writer, readers, queue, pc, since, now>>

Waiter == [task : Task, type : {"r", "w"}, prio : {0, 1}]

\* "woken_*": handed the lock (or ETIMEDOUT) but not run again yet.
PC == {"idle", "queued", "woken_r", "woken_w", "woken_etimedout", "r", "w"}

Init ==
  /\ writer = NoTask
  /\ readers = 0
  /\ queue = <<>>
  /\ pc = [t \in Task |-> "idle"]
  /\ since = [t \in Task |-> 0]
  /\ now = 0

-----------------------------------------------------------------------------
(* Mutants of MayLock: a writer does not look at the readers; a reader     *)
(* does not look at the queue.                                             *)
MayLockNoReaders(type, force) ==
  IF type = "r"
  THEN writer = NoTask /\ (queue = <<>> \/ force)
  ELSE writer = NoTask

MayLockNoQueue(type, force) ==
  IF type = "r" THEN writer = NoTask ELSE readers = 0 /\ writer = NoTask

(* __plock_trylock: may a lock of this type be taken now?                  *)
MayLock(type, force) ==
  IF type = "r"
  THEN writer = NoTask /\ (queue = <<>> \/ force)
  ELSE readers = 0 /\ writer = NoTask

(* __plock_register: behind everybody, or, with a priority, before the     *)
(* first waiter that has none.                                             *)
Register(q, e) ==
  LET ordinary == {i \in 1..Len(q) : q[i].prio = 0}
      first    == CHOOSE i \in ordinary : \A j \in ordinary : i <= j
  IN  IF e.prio = 1 /\ ordinary # {} THEN InsertAt(q, first, e) ELSE Append(q, e)

(* __plock_lock up to its return or its yield.                             *)
Lock(t, type, prio) ==
  /\ pc[t] = "idle"
  /\ IF MayLock(type, FALSE)
     THEN /\ readers' = IF type = "r" THEN readers + 1 ELSE readers
          /\ writer' = IF type = "w" THEN t ELSE writer
          /\ pc' = [pc EXCEPT ![t] = type]
          /\ UNCHANGED <<queue, since>>
     ELSE /\ queue' = Register(queue, [task |-> t, type |-> type, prio |-> prio])
          /\ pc' = [pc EXCEPT ![t] = "queued"]
          /\ since' = [since EXCEPT ![t] = now]
          /\ UNCHANGED <<readers, writer>>
  /\ UNCHANGED now

plock_rdlock(t) == Lock(t, "r", 0)

plock_wrlock(t) == t \notin PrioTask /\ Lock(t, "w", 0)

plock_wrlock_prio(t) == t \in PrioTask /\ Lock(t, "w", 1)

(* plock_tryrdlock, plock_trywrlock: EBUSY leaves everything alone.        *)
Trylock(t, type) ==
  /\ pc[t] = "idle"
  /\ MayLock(type, FALSE)
  /\ readers' = IF type = "r" THEN readers + 1 ELSE readers
  /\ writer' = IF type = "w" THEN t ELSE writer
  /\ pc' = [pc EXCEPT ![t] = type]
  /\ UNCHANGED <<queue, since, now>>

plock_tryrdlock(t) == Trylock(t, "r")

plock_trywrlock(t) == Trylock(t, "w")

(* Mutant of Handed: the loop stops after the first waiter.                *)
HandedOne(q, rd, wr) ==
  IF q = <<>> \/ wr # NoTask \/ (q[1].type = "w" /\ rd > 0) THEN 0 ELSE 1

(* The loop of plock_unlock over the queue: it stops at the first waiter   *)
(* that cannot have the lock, so it hands it to one writer or to the       *)
(* leading readers.                                                        *)
Handed(q, rd, wr) ==
  CHOOSE n \in 0..Len(q) :
    /\ IF wr # NoTask THEN n = 0
       ELSE \/ n = 1 /\ rd = 0 /\ q[1].type = "w"
            \/ /\ \A i \in 1..n : q[i].type = "r"
               /\ n < Len(q) => q[n+1].type = "w"
               /\ (n = 0 /\ Len(q) > 0) => rd > 0

(* Mutant of plock_unlock: readers is decremented for a writer too.        *)
plock_unlock_both(t) ==
  /\ pc[t] \in {"r", "w"}
  /\ writer' = NoTask
  /\ readers' = readers - 1
  /\ pc' = [pc EXCEPT ![t] = "idle"]
  /\ UNCHANGED <<queue, since, now>>

(* __plock_unlock: the readers that remain.                                *)
ReadersLeft == IF writer # NoTask THEN readers ELSE readers - 1

plock_unlock(t) ==
  /\ pc[t] \in {"r", "w"}
  /\ LET rd    == ReadersLeft
         n     == Handed(queue, rd, NoTask)
         taken == SubSeq(queue, 1, n)
     IN  /\ writer' = IF n > 0 /\ taken[1].type = "w" THEN taken[1].task ELSE NoTask
         /\ readers' = rd + Cardinality({i \in 1..n : taken[i].type = "r"})
         /\ queue' = SubSeq(queue, n + 1, Len(queue))
         /\ pc' = [u \in Task |->
                     IF u = t THEN "idle"
                     ELSE IF \E i \in 1..n : taken[i].task = u
                          THEN IF u = writer' THEN "woken_w" ELSE "woken_r"
                          ELSE pc[u]]
  /\ UNCHANGED <<since, now>>

(* The yield of __plock_wait returns in the task that was resumed.         *)
Return(t) ==
  /\ pc[t] \in {"woken_r", "woken_w", "woken_etimedout"}
  /\ pc' = [pc EXCEPT ![t] = CASE pc[t] = "woken_r" -> "r"
                               [] pc[t] = "woken_w" -> "w"
                               [] OTHER -> "idle"]
  /\ since' = [since EXCEPT ![t] = 0]
  /\ UNCHANGED <<writer, readers, queue, now>>

(* Mutant of TimeoutCheck: whoever is sent away is left in the queue.      *)
TimeoutCheckNoRemove(t) ==
  /\ pc[t] = "queued"
  /\ now - since[t] > WaitTmo
  /\ writer = NoTask
  /\ since[t] + RpcTimeout <= now
  /\ pc' = [pc EXCEPT ![t] = "woken_etimedout"]
  /\ UNCHANGED <<writer, readers, queue, since, now>>

(* The list_del of every waiter but those at the places in keep, which     *)
(* stay in their order.                                                    *)
KeepOnly(keep) ==
  \E at \in Bijection(1..Cardinality(keep), keep) :
    /\ \A i, j \in DOMAIN at : i < j => at[i] < at[j]
    /\ queue' = [i \in DOMAIN at |-> queue[at[i]]]

(* __plock_timeout_check, run by the scheduler's scan in the name of a     *)
(* task that has slept longer than WaitTmo (it may have been resumed and   *)
(* not have run yet): when no writer holds the lock, every queued reader   *)
(* is given it past the writers, and then whoever is still queued after    *)
(* RpcTimeout is sent away with ETIMEDOUT.                                 *)
TimeoutCheck(t) ==
  /\ pc[t] \notin {"idle", "r", "w"}
  /\ now - since[t] > WaitTmo
  /\ writer = NoTask
  /\ LET reader == {i \in 1..Len(queue) : queue[i].type = "r"}
         late   == {i \in (1..Len(queue)) \ reader : since[queue[i].task] + RpcTimeout <= now}
         forced == {queue[i].task : i \in reader}
     IN  /\ readers' = readers + Cardinality(forced)
         /\ KeepOnly((1..Len(queue)) \ (reader \cup late))
         /\ pc' = [u \in Task |-> IF u \in forced THEN "woken_r"
                                  ELSE IF \E i \in late : queue[i].task = u THEN "woken_etimedout"
                                  ELSE pc[u]]
  /\ UNCHANGED <<writer, since, now>>

(* The clock, bounded by MaxTime.                                          *)
Tick == now < MaxTime /\ now' = now + 1 /\ UNCHANGED <<writer, readers, queue, pc, since>>

Next ==
  \/ Tick
  \/ \E t \in Task :
       \/ plock_rdlock(t) \/ plock_wrlock(t) \/ plock_wrlock_prio(t)
       \/ plock_tryrdlock(t) \/ plock_trywrlock(t)
       \/ plock_unlock(t) \/ Return(t) \/ TimeoutCheck(t)

(* A task that holds the lock gives it back, and the scheduler runs every  *)
(* task that was resumed.                                                  *)
Fairness == \A t \in Task : WF_vars(plock_unlock(t)) /\ WF_vars(Return(t))

Spec == Init /\ [][Next]_vars /\ Fairness

-----------------------------------------------------------------------------
TypeOK ==
  /\ writer \in Task \cup {NoTask}
  /\ readers \in 0..Cardinality(Task)
  /\ queue \in Seq(Waiter)
  /\ pc \in [Task -> PC]
  /\ since \in [Task -> 0..MaxTime]
  /\ now \in 0..MaxTime

(* The tasks that own the lock for reading or writing, including those it  *)
(* was handed to and that have not run yet.                                *)
Readers == {t \in Task : pc[t] \in {"r", "woken_r"}}
Writers == {t \in Task : pc[t] \in {"w", "woken_w"}}

(* Mutual exclusion across handover, forced readers and timeouts: the two  *)
(* counters of the lock describe exactly the tasks that own it, and a      *)
(* writer never shares it.                                                 *)
Exclusion ==
  /\ readers = Cardinality(Readers)
  /\ Writers = IF writer = NoTask THEN {} ELSE {writer}
  /\ writer # NoTask => readers = 0

(* No wake-up is lost: nobody waits for a lock that could be taken by the  *)
(* head of the queue, whichever way the owners and waiters left.           *)
NoLostWakeup ==
  queue # <<>> => \/ writer # NoTask
                  \/ readers > 0 /\ queue[1].type = "w"

(* A task is in the queue exactly once while it sleeps, and never          *)
(* otherwise: the waiters live on the sleepers' stacks.                    *)
QueuedOnce ==
  \A t \in Task : Cardinality({i \in 1..Len(queue) : queue[i].task = t})
                    = IF pc[t] = "queued" THEN 1 ELSE 0

(* When the tasks with a priority leave the lock alone in the end, nobody   *)
(* is overtaken for ever: whoever queues gets the lock or ETIMEDOUT, even   *)
(* if other tasks lock and unlock without pause.                           *)
NoStarvation ==
  <>[](\A p \in PrioTask : pc[p] = "idle")
    => \A t \in Task : pc[t] = "queued" ~> pc[t] # "queued"

=============================================================================
