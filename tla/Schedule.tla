------------------------------ MODULE Schedule ------------------------------
(***************************************************************************)
(* The coroutine scheduler of one core (schedule/schedule.c).              *)
(*                                                                         *)
(* Everything but the remote reply list and the request queue is touched   *)
(* by the core's own thread, so the code between two context switches is   *)
(* one step.  Other threads append to those two queues between any two of  *)
(* these steps.                                                            *)
(*                                                                         *)
(* A job is what a task is created for.  A task that must wait takes a     *)
(* handle on itself (schedule_task_get), gives it to whoever will answer   *)
(* (an RPC table slot, a lock's queue, a timer), and yields; the answer    *)
(* comes back as schedule_resume(handle, ...).  The k-th wait of a job is  *)
(* <<job, k>>, which also stands for the answer that belongs to it.        *)
(***************************************************************************)
EXTENDS Integers, Sequences, FiniteSets, SequencesExt

CONSTANTS
  TaskMax,    \* TASK_MAX, which is also REPLY_QUEUE_MAX
  Limit,      \* TASK_MAX / 6, what __schedule_task_hasfree compares with
  Job,        \* what tasks are created for, each once
  Throttled,  \* the jobs given to schedule_task_new1 with tc = 1
  PrioMax,    \* SCHEDULE_PRIORITY_MAX
  MaxWait,    \* bound on the waits of one job
  Uses,       \* the ways in which the core is used: see Use
  NoJob       \* what a free task runs

(* One use: the jobs, how often each may wait, and whether a wait that a   *)
(* task gives up may have been answered already.                           *)
Use == [jobs : SUBSET Job, waits : 0..MaxWait, shared : BOOLEAN]

ASSUME ScheduleAssumption ==
  /\ TaskMax \in Nat /\ PrioMax \in Nat \ {0} /\ MaxWait \in Nat
  /\ Limit \in 1..(TaskMax - 1)
  /\ Throttled \subseteq Job /\ NoJob \notin Job
  /\ Uses \subseteq Use

VARIABLES
  ctx,       \* schedule->tasks
  free,      \* schedule->free_task, the next one to use first
  runable,   \* schedule->runable, one list for each priority
  wait,      \* schedule->wait_task, jobs held back
  requests,  \* schedule->request_queue
  local,     \* schedule->reply_local
  remote,    \* schedule->reply_remote_list
  running,   \* schedule->running_task, 0 for none
  phase,     \* where the core thread is
  batch,     \* the queue it took over and is working through
  ran,       \* has this __schedule_task_run run a task?
  waits,     \* the handles that somebody will still resume
  progress,  \* what became of each job, and its number of waits
  aborted,   \* a failed YASSERT or UNIMPLEMENTED(__DUMP__), else "no"
  use        \* how the core is used, which never changes

core == <<phase, batch, ran>>
vars == <<ctx, free, runable, wait, requests, local, remote, running, core,
          waits, progress, aborted, use>>

Task == 1..TaskMax
Prio == 0..(PrioMax - 1)

Init ==
  /\ ctx = [t \in Task |-> [state |-> "free", fp |-> 0, pre_yield |-> FALSE,
                            priority |-> 0, yielded |-> FALSE, job |-> NoJob,
                            answer |-> <<>>]]
  /\ free = [i \in Task |-> i]
  /\ runable = [p \in Prio |-> <<>>]
  /\ wait = <<>> /\ requests = <<>> /\ local = <<>> /\ remote = <<>>
  /\ running = 0
  /\ phase = "idle" /\ batch = <<>> /\ ran = FALSE
  /\ waits = {}
  /\ progress = [j \in Job |-> [at |-> "unborn", waits |-> 0]]
  /\ aborted = "no"
  /\ use \in Uses

-----------------------------------------------------------------------------
(* Creating tasks                                                          *)

(* Mutant: the limit is one too low.                                       *)
HasfreeStrict(f) == ~ (TaskMax - Len(f) >= Limit)

(* __schedule_task_hasfree *)
Hasfree(f) == ~ (TaskMax - Len(f) > Limit)

(* schedule_priority: that of the running task.                            *)
Priority(p) ==
  IF p # -1 THEN p ELSE IF running = 0 THEN 0 ELSE ctx[running].priority

(* The fields __schedule_task_new sets; the answer of an earlier wait is   *)
(* left where it is.                                                       *)
Started(c, j, p) ==
  [c EXCEPT !.state = "runnable", !.fp = @ + 1, !.pre_yield = FALSE,
            !.priority = p, !.yielded = FALSE, !.job = j]

(* __schedule_task_new: a throttled job is held back when too many tasks   *)
(* are in use; any other takes the first free task, or ends the process.   *)
TaskNew(j, p, tc) ==
  IF tc /\ ~Hasfree(free)
  THEN wait' = Append(wait, j) /\ UNCHANGED <<ctx, free, runable, aborted>>
  ELSE /\ UNCHANGED wait
       /\ IF free = <<>>
          THEN aborted' = "no_free_task" /\ UNCHANGED <<ctx, free, runable>>
          ELSE /\ ctx' = [ctx EXCEPT ![Head(free)] = Started(@, j, Priority(p))]
               /\ free' = Tail(free)
               /\ runable' = [runable EXCEPT ![Priority(p)] = Append(@, Head(free))]
               /\ UNCHANGED aborted

Born(j) ==
  /\ progress[j].at = "unborn"
  /\ progress' = [progress EXCEPT ![j].at = "born"]

(* schedule_task_new, schedule_task_new1: by the running task, or by the   *)
(* core's loop when it polls its sockets.                                  *)
schedule_task_new(j, p) ==
  /\ running # 0 \/ phase = "idle"
  /\ Born(j)
  /\ TaskNew(j, p, j \in Throttled)
  /\ UNCHANGED <<requests, local, remote, running, core, waits, use>>

(* schedule_request, by any thread.                                        *)
schedule_request(j, p) ==
  /\ j \notin Throttled
  /\ Born(j)
  /\ requests' = Append(requests, [job |-> j, prio |-> p])
  /\ UNCHANGED <<ctx, free, runable, wait, local, remote, running, core, waits,
                 aborted, use>>

-----------------------------------------------------------------------------
(* The running task                                                        *)

(* Mutant: the handle carries the fingerprint from before.                 *)
GetOldFp ==
  /\ running # 0
  /\ ~ctx[running].pre_yield
  /\ LET c == ctx[running]
         k == progress[c.job].waits + 1
     IN  /\ k <= use.waits
         /\ ctx' = [ctx EXCEPT ![running].pre_yield = TRUE,
                               ![running].fp = @ + 1]
         /\ waits' = waits \cup {[task |-> running, fp |-> c.fp,
                                  answer |-> <<c.job, k>>]}
         /\ progress' = [progress EXCEPT ![c.job].waits = k]
  /\ UNCHANGED <<free, runable, wait, requests, local, remote, running, core,
                 aborted, use>>

(* schedule_task_get: a new fingerprint, and a handle that carries it.     *)
schedule_task_get ==
  /\ running # 0
  /\ ~ctx[running].pre_yield
  /\ LET c == ctx[running]
         k == progress[c.job].waits + 1
     IN  /\ k <= use.waits
         /\ ctx' = [ctx EXCEPT ![running].pre_yield = TRUE,
                               ![running].fp = @ + 1]
         /\ waits' = waits \cup {[task |-> running, fp |-> c.fp + 1,
                                  answer |-> <<c.job, k>>]}
         /\ progress' = [progress EXCEPT ![c.job].waits = k]
  /\ UNCHANGED <<free, runable, wait, requests, local, remote, running, core,
                 aborted, use>>

Own(h) == h.task = running /\ h.fp = ctx[running].fp

(* Mutant: the slot is not freed.                                          *)
ResetNoFree ==
  /\ running # 0
  /\ ctx[running].pre_yield
  /\ use.shared \/ \E h \in waits : Own(h)
  /\ ctx' = [ctx EXCEPT ![running].pre_yield = FALSE]
  /\ UNCHANGED <<free, runable, wait, requests, local, remote, running, core,
                 waits, progress, aborted, use>>

(* schedule_task_reset with the rpc_table_free that follows it: the send   *)
(* failed and the task will not wait.  With the table all threads share,   *)
(* the slot may have been answered (a scan, a closed connection) before.   *)
schedule_task_reset ==
  /\ running # 0
  /\ ctx[running].pre_yield
  /\ use.shared \/ \E h \in waits : Own(h)
  /\ ctx' = [ctx EXCEPT ![running].pre_yield = FALSE]
  /\ waits' = {h \in waits : ~Own(h)}
  /\ UNCHANGED <<free, runable, wait, requests, local, remote, running, core,
                 progress, aborted, use>>

(* schedule_yield1 up to the switch to the scheduler.                      *)
schedule_yield1 ==
  /\ running # 0
  /\ ctx[running].pre_yield
  /\ ctx' = [ctx EXCEPT ![running].pre_yield = FALSE, ![running].state = "suspend",
                        ![running].yielded = TRUE]
  /\ running' = 0
  /\ UNCHANGED <<free, runable, wait, requests, local, remote, core, waits,
                 progress, aborted, use>>

(* Mutant: the task a held-back job was given stays on the free list.      *)
FinishKeepFree ==
  LET t == running
      c == ctx[t]
      resumed == wait # <<>> /\ Hasfree(free)
      n == Head(free)
      freed == [ctx EXCEPT ![t].fp = 0, ![t].job = NoJob, ![t].state = "free"]
  IN  /\ t # 0
      /\ ~c.pre_yield
      /\ running' = 0
      /\ progress' = [progress EXCEPT ![c.job].at = "done"]
      /\ free' = <<t>> \o free
      /\ IF resumed
         THEN /\ wait' = Tail(wait)
              /\ ctx' = [freed EXCEPT ![n] = Started(@, Head(wait), c.priority)]
              /\ runable' = [runable EXCEPT ![c.priority] = Append(@, n)]
         ELSE /\ ctx' = freed
              /\ UNCHANGED <<wait, runable>>
      /\ UNCHANGED <<requests, local, remote, core, waits, aborted, use>>

(* The end of __schedule_trampoline: __schedule_wait_task_resume starts a  *)
(* job that was held back (while this task still counts as used), then     *)
(* the task is freed, its fingerprint starts again from zero and it is the *)
(* first one that will be used.                                            *)
Finish ==
  LET t == running
      c == ctx[t]
      resumed == wait # <<>> /\ Hasfree(free)
      n == Head(free)
      freed == [ctx EXCEPT ![t].fp = 0, ![t].job = NoJob, ![t].state = "free"]
  IN  /\ t # 0
      /\ ~c.pre_yield
      /\ running' = 0
      /\ progress' = [progress EXCEPT ![c.job].at = "done"]
      /\ IF resumed
         THEN /\ wait' = Tail(wait)
              /\ ctx' = [freed EXCEPT ![n] = Started(@, Head(wait), c.priority)]
              /\ runable' = [runable EXCEPT ![c.priority] = Append(@, n)]
              /\ free' = <<t>> \o Tail(free)
         ELSE /\ ctx' = freed
              /\ free' = <<t>> \o free
              /\ UNCHANGED <<wait, runable>>
      /\ UNCHANGED <<requests, local, remote, core, waits, aborted, use>>

-----------------------------------------------------------------------------
(* Answers                                                                 *)

(* schedule_resume by the core's own thread: the running task, or the loop *)
(* (a timer, corerpc_scan).  The array of replies holds REPLY_QUEUE_MAX.   *)
ResumeLocal(h) ==
  /\ running # 0 \/ phase = "idle"
  /\ h \in waits /\ (running # 0 => ~Own(h))
  /\ waits' = waits \ {h}
  /\ IF Len(local) = TaskMax
     THEN aborted' = "reply_queue_full" /\ UNCHANGED local
     ELSE local' = Append(local, h) /\ UNCHANGED aborted
  /\ UNCHANGED <<ctx, free, runable, wait, requests, remote, running, core,
                 progress, use>>

(* schedule_resume by another thread, perhaps before the task has yielded. *)
ResumeRemote(h) ==
  /\ h \in waits
  /\ waits' = waits \ {h}
  /\ remote' = Append(remote, h)
  /\ UNCHANGED <<ctx, free, runable, wait, requests, local, running, core,
                 progress, aborted, use>>

-----------------------------------------------------------------------------
(* The scheduler's loop                                                    *)

tasks == <<ctx, free, runable, wait, running>>

(* schedule_finished; the loop of schedule_run.                            *)
Finished ==
  /\ requests = <<>> /\ local = <<>> /\ remote = <<>>
  /\ \A p \in Prio : runable[p] = <<>>

schedule_run ==
  /\ running = 0
  /\ \/ phase = "idle" /\ ~Finished /\ phase' = "local"
     \/ phase = "check" /\ phase' = IF Finished THEN "idle" ELSE "local"
  /\ UNCHANGED <<tasks, requests, local, remote, batch, ran, waits, progress,
                 aborted, use>>

(* __schedule_reply_local_run takes the whole queue.                       *)
reply_local_run ==
  /\ phase = "local"
  /\ batch' = local
  /\ local' = <<>>
  /\ phase' = IF local = <<>> THEN "remote" ELSE "exec"
  /\ UNCHANGED <<tasks, requests, remote, ran, waits, progress, aborted, use>>

(* __schedule_reply_remote_run, only when no local reply was there.        *)
reply_remote_run ==
  /\ phase = "remote"
  /\ batch' = remote
  /\ remote' = <<>>
  /\ phase' = IF remote = <<>> THEN "tasks" ELSE "exec"
  /\ UNCHANGED <<tasks, requests, local, ran, waits, progress, aborted, use>>

(* Mutant: whether the task is suspended decides, not the fingerprint.     *)
ExecNoCheck ==
  LET h == Head(batch)
      c == ctx[h.task]
  IN  /\ phase = "exec"
      /\ batch' = Tail(batch)
      /\ phase' = IF Len(batch) = 1 THEN "local" ELSE "exec"
      /\ \/ c.state # "suspend" /\ UNCHANGED <<ctx, runable>>
         \/ /\ c.state = "suspend"
            /\ ctx' = [ctx EXCEPT ![h.task].state = "runnable",
                                  ![h.task].answer = h.answer]
            /\ runable' = [runable EXCEPT ![c.priority] = Append(@, h.task)]
      /\ UNCHANGED <<free, wait, requests, local, remote, running, ran, waits,
                     progress, aborted, use>>

(* __schedule_exec on the next reply of the queue: the fingerprint tells   *)
(* whether the handle is still good, ESTALE drops the reply.               *)
schedule_exec ==
  LET h == Head(batch)
      c == ctx[h.task]
  IN  /\ phase = "exec"
      /\ batch' = Tail(batch)
      /\ phase' = IF Len(batch) = 1 THEN "local" ELSE "exec"
      /\ \/ /\ h.fp # c.fp
            /\ UNCHANGED <<ctx, runable, aborted>>
         \/ /\ h.fp = c.fp /\ c.state # "suspend"
            /\ aborted' = "resumed_task_is_not_suspended"
            /\ UNCHANGED <<ctx, runable>>
         \/ /\ h.fp = c.fp /\ c.state = "suspend"
            /\ ctx' = [ctx EXCEPT ![h.task].state = "runnable",
                                  ![h.task].answer = h.answer]
            /\ runable' = [runable EXCEPT ![c.priority] = Append(@, h.task)]
            /\ UNCHANGED aborted
      /\ UNCHANGED <<free, wait, requests, local, remote, running, ran, waits,
                     progress, use>>

(* __schedule_task_pop: the first task of the best priority.               *)
Best(p) == runable[p] # <<>> /\ \A q \in Prio : q < p => runable[q] = <<>>

(* One turn of __schedule_task_run: switch to a task, which, when it comes *)
(* back from a yield, takes a new fingerprint and uses the answer.         *)
task_run ==
  /\ phase = "tasks" /\ running = 0
  /\ \E p \in Prio :
       /\ Best(p)
       /\ LET t == Head(runable[p])
          IN  /\ running' = t
              /\ runable' = [runable EXCEPT ![p] = Tail(@)]
              /\ ctx' = [ctx EXCEPT ![t].state = "running",
                                    ![t].fp = IF ctx[t].yielded THEN @ + 1 ELSE @]
  /\ ran' = TRUE
  /\ UNCHANGED <<free, wait, requests, local, remote, phase, batch, waits,
                 progress, aborted, use>>

(* Its end: the loop of __schedule_run starts again if a task was run.     *)
task_run_end ==
  /\ phase = "tasks" /\ running = 0
  /\ \A p \in Prio : runable[p] = <<>>
  /\ ran' = FALSE
  /\ IF ran
     THEN phase' = "local" /\ UNCHANGED <<requests, batch>>
     ELSE /\ batch' = requests
          /\ requests' = <<>>
          /\ phase' = IF requests = <<>> THEN "check" ELSE "start"
  /\ UNCHANGED <<tasks, local, remote, waits, progress, aborted, use>>

(* __schedule_request_queue_run on the next request it took over.          *)
request_queue_run ==
  /\ phase = "start"
  /\ TaskNew(Head(batch).job, Head(batch).prio, FALSE)
  /\ batch' = Tail(batch)
  /\ phase' = IF Len(batch) = 1 THEN "check" ELSE "start"
  /\ UNCHANGED <<requests, local, remote, running, ran, waits, progress, use>>

-----------------------------------------------------------------------------
TaskStep == schedule_task_get \/ schedule_task_reset \/ schedule_yield1 \/ Finish

LoopStep ==
  \/ schedule_run \/ reply_local_run \/ reply_remote_run \/ schedule_exec
  \/ task_run \/ task_run_end \/ request_queue_run

Submit ==
  \E j \in use.jobs, p \in Prio \cup {-1} : schedule_task_new(j, p) \/ schedule_request(j, p)

Answer == \E h \in waits : ResumeLocal(h) \/ ResumeRemote(h)

Next == aborted = "no" /\ (TaskStep \/ LoopStep \/ Submit \/ Answer)

(* A task keeps running until it waits or ends, the loop keeps turning,    *)
(* and every handle that was given away is resumed in the end, at the      *)
(* latest by a timeout (__rpc_table_scan, plock_check).                    *)
Fairness ==
  /\ WF_vars(aborted = "no" /\ TaskStep)
  /\ WF_vars(aborted = "no" /\ LoopStep)
  /\ \A t \in Task : WF_vars(aborted = "no" /\ \E h \in waits :
                               h.task = t /\ ResumeRemote(h))

Spec == Init /\ [][Next]_vars /\ Fairness

-----------------------------------------------------------------------------
Reply == Range(local) \cup Range(remote) \cup
         (IF phase = "exec" THEN Range(batch) ELSE {})

(* The lists and the states agree: a task is on the free list, on the list *)
(* of its priority, running, or suspended, and nowhere twice               *)
(* (running_hook and hook are shared by several lists).                    *)
ListsAgree ==
  \A t \in Task :
    LET on(list) == Cardinality({i \in DOMAIN list : list[i] = t})
    IN  /\ on(free) = IF ctx[t].state = "free" THEN 1 ELSE 0
        /\ \A p \in Prio : on(runable[p]) =
             IF ctx[t].state = "runnable" /\ ctx[t].priority = p THEN 1 ELSE 0
        /\ running = t <=> ctx[t].state = "running"

(* A wait returns the answer that belongs to it, never that of another     *)
(* wait: what __schedule_exec compares the fingerprints for.               *)
AnswerIsOwn ==
  \A t \in Task :
    (ctx[t].state = "runnable" /\ ctx[t].yielded)
      => ctx[t].answer = <<ctx[t].job, progress[ctx[t].job].waits>>

(* A suspended task is going to be resumed: its handle is still out, or    *)
(* its reply is in one of the queues.                                      *)
WakeupPending ==
  \A t \in Task :
    ctx[t].state = "suspend" =>
      \E h \in waits \cup Reply : h.task = t /\ h.fp = ctx[t].fp

(* With no more jobs than TASK_MAX the scheduler never stops the process:  *)
(* no task is resumed that is not suspended, the replies fit in their      *)
(* queue and there is a free task for every job.                           *)
NoAbort == aborted = "no"

(* Every job that was created runs to its end.  Jobs that are held back    *)
(* are started by a task that ends, so one must be there as long as a job  *)
(* waits.                                                                  *)
JobsFinish == \A j \in Job : (progress[j].at = "born") ~> (progress[j].at = "done")
=============================================================================
