------------------------------- MODULE RedisCo -------------------------------
(***************************************************************************)
(* The redis client of one core, metadata/redis_co.c.  Coroutines put      *)
(* their commands into queue1 and yield; a task takes the whole queue as   *)
(* one batch, sorts it by shard, and sends each part over the connection   *)
(* of that shard.  The answers are read by a thread of its own when        *)
(* mdsconf.redis_thread is set, and by the core otherwise.  A plock lets   *)
(* one batch at a time through: Plock shows that it excludes and that the  *)
(* task that waits longest is next.                                        *)
(***************************************************************************)
EXTENDS Integers, Sequences, FiniteSets, SequencesExt

CONSTANTS
  Caller,    \* the coroutines
  Shard,     \* the shards, with one connection each
  MaxCall    \* bound on the calls

ASSUME RedisCoAssumption == MaxCall \in Nat

VARIABLES
  thread,   \* mdsconf.redis_thread, which does not change
  calls,    \* number of calls
  waiting,  \* the coroutines that have yielded in redis_co
  got,      \* the last answer of each coroutine
  queue1,   \* co->queue1
  plock,    \* the batches whose tasks wait for co->plock, in order
  hold,     \* the batches whose tasks have it
  wire,     \* per connection the commands that redis has not executed
  replies,  \* per connection the answers that were not read
  down,     \* the connections that are broken
  queue2,   \* co->queue2
  worker,   \* the list of __redis_co_worker, or the batch that the core reads
  res1,     \* the coroutines that were resumed and did not run yet
  res2      \* the tasks of batches that were resumed and did not run yet

redis == <<wire, replies, down>>
vars == <<thread, calls, waiting, got, queue1, plock, hold, redis, queue2, worker, res1, res2>>

Nothing == [s \in Shard |-> <<>>]

Init ==
  /\ thread \in BOOLEAN
  /\ calls = 0 /\ waiting = {} /\ got = [c \in Caller |-> <<>>]
  /\ queue1 = <<>> /\ plock = <<>> /\ hold = {}
  /\ wire = Nothing /\ replies = Nothing /\ down = {}
  /\ queue2 = <<>> /\ worker = <<>> /\ res1 = <<>> /\ res2 = <<>>

(* Without a thread of its own the core reads the answers, and runs        *)
(* nothing else until it has them all.                                     *)
CoreFree == thread \/ worker = <<>>

(* The part of q for the shard s.                                          *)
Part(q, s) ==
  LET part[i \in 0..Len(q)] ==
        IF i = 0 THEN <<>>
        ELSE IF q[i].s = s THEN Append(part[i - 1], q[i]) ELSE part[i - 1]
  IN  part[Len(q)]

-----------------------------------------------------------------------------
redis_co(c, s) ==
  /\ CoreFree /\ c \notin waiting /\ calls < MaxCall
  /\ calls' = calls + 1 /\ waiting' = waiting \cup {c}
  /\ queue1' = Append(queue1, [c |-> c, s |-> s, n |-> calls])
  /\ UNCHANGED <<thread, got, plock, hold, redis, queue2, worker, res1, res2>>

(* __redis_co_run_task, up to plock_wrlock.                                *)
RunTask ==
  /\ CoreFree /\ queue1 # <<>>
  /\ plock' = Append(plock, queue1) /\ queue1' = <<>>
  /\ UNCHANGED <<thread, calls, waiting, got, hold, redis, queue2, worker, res1, res2>>

(* __redis_co_run and __redis_co_exec: the batch that is first in line is  *)
(* sorted by shard, sent, and given to whoever reads the answers.  A batch *)
(* is known by the number of its first call.                               *)
Sent ==
  LET batch == [id |-> Head(plock)[1].n, list |-> [s \in Shard |-> Part(Head(plock), s)]]
  IN  /\ plock' = Tail(plock) /\ hold' = hold \cup {batch.id}
      /\ wire' = [s \in Shard |-> IF s \in down THEN <<>> ELSE wire[s] \o batch.list[s]]
      /\ IF thread THEN queue2' = Append(queue2, batch) /\ UNCHANGED worker
         ELSE worker' = <<batch>> /\ UNCHANGED queue2
      /\ UNCHANGED <<thread, calls, waiting, got, queue1, replies, down, res1, res2>>

(* Mutant of Exec: the plock is not taken.                                 *)
ExecNoPlock == CoreFree /\ plock # <<>> /\ Sent

Exec == CoreFree /\ plock # <<>> /\ hold = {} /\ Sent

-----------------------------------------------------------------------------
(* redis executes a command, and answers it.                               *)
Execute(s) ==
  /\ wire[s] # <<>>
  /\ replies' = [replies EXCEPT ![s] = Append(@, Head(wire[s]))]
  /\ wire' = [wire EXCEPT ![s] = Tail(@)]
  /\ UNCHANGED <<thread, calls, waiting, got, queue1, plock, hold, down, queue2, worker, res1, res2>>

(* A connection breaks: what was under way is lost, and hiredis refuses to *)
(* read from it or to write to it from now on.                             *)
Reset(s) ==
  /\ s \notin down
  /\ down' = down \cup {s}
  /\ wire' = [wire EXCEPT ![s] = <<>>] /\ replies' = [replies EXCEPT ![s] = <<>>]
  /\ UNCHANGED <<thread, calls, waiting, got, queue1, plock, hold, queue2, worker, res1, res2>>

-----------------------------------------------------------------------------
(* The worker wakes up and takes queue2.                                   *)
Splice ==
  /\ worker = <<>> /\ queue2 # <<>>
  /\ worker' = queue2 /\ queue2' = <<>>
  /\ UNCHANGED <<thread, calls, waiting, got, queue1, plock, hold, redis, res1, res2>>

(* Mutant of Recv: the answer goes to the last of the list.                *)
RecvLast(s) ==
  LET b == Head(worker)
  IN  /\ worker # <<>> /\ b.list[s] # <<>> /\ replies[s] # <<>>
      /\ res1' = Append(res1, [call |-> Last(b.list[s]), reply |-> Head(replies[s])])
      /\ replies' = [replies EXCEPT ![s] = Tail(@)]
      /\ worker' = [worker EXCEPT ![1].list[s] = Front(@)]
      /\ UNCHANGED <<thread, calls, waiting, got, queue1, plock, hold, wire, down, queue2, res2>>

(* __redis_utils_co2 gets the next answer from a connection: the first     *)
(* coroutine of the list of that connection is resumed.  It comes back     *)
(* until the lists are empty (__redis_co_recv).                            *)
Recv(s) ==
  LET b == Head(worker)
  IN  /\ worker # <<>> /\ b.list[s] # <<>> /\ replies[s] # <<>>
      /\ res1' = Append(res1, [call |-> Head(b.list[s]), reply |-> Head(replies[s])])
      /\ replies' = [replies EXCEPT ![s] = Tail(@)]
      /\ worker' = [worker EXCEPT ![1].list[s] = Tail(@)]
      /\ UNCHANGED <<thread, calls, waiting, got, queue1, plock, hold, wire, down, queue2, res2>>

(* Mutant of RecvEnd: the task of the batch is not resumed.                *)
RecvEndHold ==
  /\ worker # <<>> /\ Head(worker).list = Nothing
  /\ worker' = Tail(worker)
  /\ UNCHANGED <<thread, calls, waiting, got, queue1, plock, hold, redis, queue2, res1, res2>>

(* All answers of a batch are there.  The worker resumes one task only,    *)
(* the one of the last batch of its list; the core just goes on, with      *)
(* plock_unlock.                                                           *)
RecvEnd ==
  /\ worker # <<>> /\ Head(worker).list = Nothing
  /\ worker' = Tail(worker)
  /\ IF ~thread THEN hold' = hold \ {Head(worker).id} /\ UNCHANGED res2
     ELSE /\ UNCHANGED hold
          /\ res2' = IF Len(worker) = 1 THEN Append(res2, Head(worker).id) ELSE res2
  /\ UNCHANGED <<thread, calls, waiting, got, queue1, plock, redis, queue2, res1>>

(* The task of a batch runs again: __redis_co_release and plock_unlock.    *)
Release ==
  /\ CoreFree /\ res2 # <<>>
  /\ hold' = hold \ {Head(res2)} /\ res2' = Tail(res2)
  /\ UNCHANGED <<thread, calls, waiting, got, queue1, plock, redis, queue2, worker, res1>>

(* A coroutine runs again, and redis_co returns.                           *)
Return ==
  /\ CoreFree /\ res1 # <<>>
  /\ LET r == Head(res1)
     IN  waiting' = waiting \ {r.call.c} /\ got' = [got EXCEPT ![r.call.c] = <<r.reply>>]
  /\ res1' = Tail(res1)
  /\ UNCHANGED <<thread, calls, queue1, plock, hold, redis, queue2, worker, res2>>

-----------------------------------------------------------------------------
Core == RunTask \/ Exec \/ Release \/ Return
Reader == Splice \/ RecvEnd \/ \E s \in Shard : Recv(s)

Next ==
  \/ \E c \in Caller, s \in Shard : redis_co(c, s)
  \/ Core \/ Reader
  \/ \E s \in Shard : Execute(s) \/ Reset(s)

(* The loop of the core goes through its queues, the worker runs, and      *)
(* redis executes what it gets.                                            *)
Fairness ==
  /\ WF_vars(RunTask) /\ WF_vars(Exec) /\ WF_vars(Release) /\ WF_vars(Return)
  /\ WF_vars(Reader)
  /\ \A s \in Shard : WF_vars(Execute(s))

Spec == Init /\ [][Next]_vars /\ Fairness

-----------------------------------------------------------------------------
(* One batch at a time is in the hands of the worker: that is why it may   *)
(* resume the task of the last batch of its list and no other.             *)
OneBatch ==
  /\ Len(queue2) + Len(worker) + Len(res2) <= 1
  /\ hold = {} => queue2 = <<>> /\ worker = <<>> /\ res2 = <<>> /\ wire = Nothing
                  /\ replies = Nothing

(* The calls of the shard s that are not answered, in the order of the     *)
(* calls: resumed, sent, in line for the plock, and queued.                *)
Resumed == [i \in DOMAIN res1 |-> res1[i].call]

Calls(s) ==
  LET sent == [i \in DOMAIN worker |-> worker[i].list[s]]
      more == [i \in DOMAIN queue2 |-> queue2[i].list[s]]
      todo == [i \in DOMAIN plock |-> Part(plock[i], s)]
  IN  Part(Resumed, s)
        \o FlattenSeq(sent) \o FlattenSeq(more) \o FlattenSeq(todo) \o Part(queue1, s)

Fifo == INSTANCE RedisFifo WITH
  line <- [s \in Shard |-> Calls(s)],
  done <- [s \in Shard |-> Len(replies[s]) + Len(Part(Resumed, s))],
  broken <- down

(* The batches, the sorting by shard, the plock, the second thread and the *)
(* two queues of resumed coroutines together keep the order of the calls   *)
(* of each shard and give every caller the answer to its own command.      *)
(* Answers carry no number and belong to the calls by their order alone: a *)
(* connection that breaks in the middle of a batch does not shift them.    *)
ImplementsFifo == Fifo!Spec

(* Every call returns, as long as no connection breaks: the wake-ups of    *)
(* the callers and of the batches in front of them are not lost.           *)
CallsReturn == \A c \in Caller : (c \in waiting) ~> (c \notin waiting \/ down # {})

=============================================================================
