--------------------------- MODULE ScheduleProofs ---------------------------
(***************************************************************************)
(* What is proved of the coroutine scheduler (Schedule), for any number of *)
(* tasks, priorities, jobs and waits.                                      *)
(***************************************************************************)
EXTENDS Schedule, FiniteSetTheorems, SequenceTheorems, TLAPS

Wait == Job \X Nat
Handle == [task : Task, fp : Nat, answer : Wait]
Request == [job : Job, prio : Prio \cup {-1}]
Ctx == [state : {"free", "runnable", "running", "suspend"}, fp : Nat,
        pre_yield : BOOLEAN, priority : Prio, yielded : BOOLEAN,
        job : Job \cup {NoJob}, answer : Wait \cup {<<>>}]
Progress == [at : {"unborn", "born", "done"}, waits : Nat]

TypeInv ==
  /\ ctx \in [Task -> Ctx]
  /\ free \in Seq(Task)
  /\ runable \in [Prio -> Seq(Task)]
  /\ wait \in Seq(Job)
  /\ requests \in Seq(Request)
  /\ local \in Seq(Handle) /\ remote \in Seq(Handle)
  /\ running \in Task \cup {0}
  /\ phase = "exec" => batch \in Seq(Handle) /\ batch # <<>>
  /\ phase = "start" => batch \in Seq(Request) /\ batch # <<>>
  /\ waits \subseteq Handle
  /\ progress \in [Job -> Progress]
  /\ use \in Uses

(* No element of the list is on it twice.                                  *)
Distinct(q) == \A i, j \in 1..Len(q) : q[i] = q[j] => i = j

(* The list names the elements of S, each at one place.                    *)
Listing(q, S) == Distinct(q) /\ Range(q) = S

FreeTasks == {t \in Task : ctx[t].state = "free"}
Ready(p) == {t \in Task : ctx[t].state = "runnable" /\ ctx[t].priority = p}

(* The lists are the ones the states say; a task that is in use runs a     *)
(* job; tasks run in one phase of the loop only, and only a running task   *)
(* prepares to yield.                                                      *)
ListInv ==
  /\ Listing(free, FreeTasks)
  /\ \A p \in Prio : Listing(runable[p], Ready(p))
  /\ \A t \in Task : running = t <=> ctx[t].state = "running"
  /\ \A t \in Task : ctx[t].state # "free" => ctx[t].job \in Job
  /\ running # 0 => phase = "tasks"
  /\ \A t \in Task : ctx[t].pre_yield => running = t

CoreInv == TypeInv /\ ListInv

-----------------------------------------------------------------------------
(* Lists.                                                                  *)

LEMMA RangeOf ==
  ASSUME NEW T, NEW q \in Seq(T)
  PROVE  /\ Range(q) = {q[i] : i \in 1..Len(q)}
         /\ Range(q) \subseteq T
         /\ Len(q) \in Nat
  BY DEF Range

(* A new element at the end.                                               *)
LEMMA ListAppend ==
  ASSUME NEW T, NEW q \in Seq(T), NEW t \in T
  PROVE  /\ Append(q, t) \in Seq(T)
         /\ Append(q, t) # <<>>
         /\ Range(Append(q, t)) = Range(q) \cup {t}
         /\ Distinct(q) /\ t \notin Range(q) => Distinct(Append(q, t))
  <1>1. PICK r : r = Append(q, t)
    OBVIOUS
  <1>2. /\ Len(r) = Len(q) + 1 /\ r[Len(q) + 1] = t /\ Len(q) \in Nat
        /\ \A i \in 1..Len(q) : r[i] = q[i]
        /\ r \in Seq(T) /\ r # <<>>
    BY <1>1
  <1>3. Range(r) = Range(q) \cup {t}
    <2>1. \A i \in 1..Len(r) : i \in 1..Len(q) \/ i = Len(q) + 1
      BY <1>2
    <2>2. \A i \in 1..Len(q) : i \in 1..Len(r)
      BY <1>2
    <2>3. Len(q) + 1 \in 1..Len(r)
      BY <1>2
    <2>4. Range(r) = {r[i] : i \in 1..Len(r)} /\ Range(q) = {q[i] : i \in 1..Len(q)}
      BY <1>2, RangeOf
    <2> QED BY <1>2, <2>1, <2>2, <2>3, <2>4
  <1>4. ASSUME Distinct(q), t \notin Range(q)
        PROVE  Distinct(r)
    <2>1. \A i \in 1..Len(q) : q[i] # t
      BY <1>4, RangeOf
    <2> QED BY <1>2, <1>4, <2>1 DEF Distinct
  <1> QED BY <1>1, <1>2, <1>3, <1>4

(* The first element is taken away.                                        *)
LEMMA ListTail ==
  ASSUME NEW T, NEW q \in Seq(T), q # <<>>
  PROVE  /\ Tail(q) \in Seq(T)
         /\ Head(q) \in Range(q) /\ Head(q) \in T
         /\ Len(q) = 1 <=> Tail(q) = <<>>
         /\ Distinct(q) => Listing(Tail(q), Range(q) \ {Head(q)})
  <1>1. PICK r : r = Tail(q)
    OBVIOUS
  <1>2. /\ Len(q) \in Nat /\ Len(q) >= 1 /\ Len(r) = Len(q) - 1
        /\ \A i \in 1..Len(r) : r[i] = q[i + 1]
        /\ r \in Seq(T)
    BY <1>1
  <1>3. /\ Range(q) = {q[i] : i \in 1..Len(q)}
        /\ Range(r) = {r[i] : i \in 1..Len(r)}
    BY <1>2, RangeOf
  <1>4. Head(q) = q[1] /\ q[1] \in T /\ q[1] \in Range(q)
    BY <1>2, <1>3
  <1>5. Len(q) = 1 <=> r = <<>>
    BY <1>2
  <1>6. ASSUME Distinct(q)
        PROVE  Listing(r, Range(q) \ {q[1]})
    <2>1. Distinct(r)
      BY <1>2, <1>6 DEF Distinct
    <2>2. ASSUME NEW i \in 1..Len(r)
          PROVE  r[i] \in Range(q) \ {q[1]}
      <3>1. i + 1 \in 1..Len(q) /\ 1 \in 1..Len(q) /\ i + 1 # 1
        BY <1>2
      <3> QED BY <1>2, <1>3, <1>6, <3>1 DEF Distinct
    <2>3. ASSUME NEW u \in Range(q) \ {q[1]}
          PROVE  u \in Range(r)
      <3>1. PICK k \in 1..Len(q) : q[k] = u
        BY <1>3
      <3>2. k - 1 \in 1..Len(r) /\ r[k - 1] = q[k]
        BY <1>2, <2>3, <3>1
      <3> QED BY <1>3, <3>1, <3>2
    <2> QED BY <1>3, <2>1, <2>2, <2>3 DEF Listing
  <1> QED BY <1>1, <1>2, <1>4, <1>5, <1>6

(* A new element at the front.                                             *)
LEMMA ListPush ==
  ASSUME NEW T, NEW q \in Seq(T), NEW t \in T
  PROVE  /\ <<t>> \o q \in Seq(T)
         /\ Distinct(q) /\ t \notin Range(q) => Listing(<<t>> \o q, Range(q) \cup {t})
  <1>1. PICK r : r = <<t>> \o q
    OBVIOUS
  <1>2. /\ Len(r) = Len(q) + 1 /\ r[1] = t /\ Len(q) \in Nat
        /\ \A i \in 1..Len(q) : r[i + 1] = q[i]
        /\ r \in Seq(T)
    BY <1>1
  <1>3. /\ Range(q) = {q[i] : i \in 1..Len(q)}
        /\ Range(r) = {r[i] : i \in 1..Len(r)}
    BY <1>2, RangeOf
  <1>4. \A i \in 1..Len(r) : i = 1 \/ (i - 1 \in 1..Len(q) /\ r[i] = q[i - 1])
    <2> TAKE i \in 1..Len(r)
    <2>1. ASSUME i # 1
          PROVE  i - 1 \in 1..Len(q) /\ r[i] = q[i - 1]
      <3>1. i - 1 \in 1..Len(q) /\ (i - 1) + 1 = i
        BY <1>2, <2>1
      <3> QED BY <1>2, <3>1
    <2> QED BY <2>1
  <1>5. Range(r) = Range(q) \cup {t}
    <2>1. \A i \in 1..Len(q) : i + 1 \in 1..Len(r)
      BY <1>2
    <2>2. 1 \in 1..Len(r)
      BY <1>2
    <2>3. \A i \in 1..Len(r) : r[i] \in Range(q) \cup {t}
      BY <1>2, <1>3, <1>4
    <2>4. \A u \in Range(q) : u \in Range(r)
      BY <1>2, <1>3, <2>1
    <2>5. t \in Range(r)
      BY <1>2, <1>3, <2>2
    <2> QED BY <1>3, <2>3, <2>4, <2>5
  <1>6. ASSUME Distinct(q), t \notin Range(q)
        PROVE  Distinct(r)
    <2>1. \A i \in 1..Len(q) : q[i] # t
      BY <1>3, <1>6
    <2> SUFFICES ASSUME NEW i \in 1..Len(r), NEW j \in 1..Len(r), r[i] = r[j]
                 PROVE  i = j
      BY DEF Distinct
    <2>2. CASE i = 1 /\ j # 1
      BY <2>1, <2>2, <1>2, <1>4
    <2>3. CASE i # 1 /\ j = 1
      BY <2>1, <2>3, <1>2, <1>4
    <2>4. CASE i # 1 /\ j # 1
      <3>1. /\ i - 1 \in 1..Len(q) /\ j - 1 \in 1..Len(q)
            /\ q[i - 1] = q[j - 1]
        BY <1>4, <2>4
      <3>2. i - 1 = j - 1
        BY <1>6, <3>1 DEF Distinct
      <3> QED BY <1>2, <3>2
    <2> QED BY <2>2, <2>3, <2>4
  <1> QED BY <1>1, <1>2, <1>5, <1>6 DEF Listing

LEMMA ListEmpty ==
  /\ \A T : <<>> \in Seq(T)
  /\ Distinct(<<>>)
  /\ Range(<<>>) = {}
  BY DEF Distinct, Range

(* How often a task is on a list.                                          *)
LEMMA ListCount ==
  ASSUME NEW q \in Seq(Task), NEW S \in SUBSET Task, Listing(q, S), NEW t \in Task
  PROVE  Cardinality({i \in DOMAIN q : q[i] = t}) = IF t \in S THEN 1 ELSE 0
  <1>1. DOMAIN q = 1..Len(q) /\ S = {q[i] : i \in 1..Len(q)}
    BY RangeOf DEF Listing
  <1>2. CASE t \in S
    <2>1. PICK k \in 1..Len(q) : q[k] = t
      BY <1>1, <1>2
    <2>2. {i \in DOMAIN q : q[i] = t} = {k}
      BY <1>1, <2>1 DEF Listing, Distinct
    <2>3. Cardinality({k}) = 1
      BY FS_Singleton
    <2> QED BY <1>2, <2>2, <2>3, Zenon
  <1>3. CASE t \notin S
    <2>1. {i \in DOMAIN q : q[i] = t} = {}
      BY <1>1, <1>3
    <2>2. Cardinality({}) = 0
      BY FS_EmptySet
    <2> QED BY <1>3, <2>1, <2>2, Zenon
  <1> QED BY <1>2, <1>3

-----------------------------------------------------------------------------
(* What the actions do, element by element.                                *)

OtherTasks(t) == \A u \in Task : u # t => ctx'[u] = ctx[u]
OtherLists(p) == \A q \in Prio : q # p => runable'[q] = runable[q]

(* The task a job is started on.                                           *)
TaskStarts(n, j, p) ==
  /\ n \in Task /\ p \in Prio
  /\ free # <<>> /\ n = Head(free)
  /\ ctx'[n].state = "runnable" /\ ctx'[n].priority = p /\ ctx'[n].job = j
  /\ ctx'[n].pre_yield = FALSE /\ ctx'[n].yielded = FALSE
  /\ runable' \in [Prio -> Seq(Task)]
  /\ runable'[p] = Append(runable[p], n) /\ OtherLists(p)

JobStarts(j) ==
  /\ ctx' \in [Task -> Ctx]
  /\ \E n \in Task, p \in Prio : TaskStarts(n, j, p) /\ OtherTasks(n)
  /\ free' = Tail(free) /\ UNCHANGED <<wait, aborted>>

JobHeld(j) == wait' = Append(wait, j) /\ UNCHANGED <<ctx, free, runable, aborted>>

NoTaskLeft ==
  /\ free = <<>> /\ aborted' = "no_free_task"
  /\ UNCHANGED <<wait, ctx, free, runable>>

LEMMA PrioFact ==
  0 \in Prio /\ -1 \notin Prio /\ 0 \notin Task
  BY ScheduleAssumption DEF Prio, Task

LEMMA StartedType ==
  ASSUME NEW c \in Ctx, NEW j \in Job, NEW p \in Prio
  PROVE  /\ Started(c, j, p) \in Ctx
         /\ Started(c, j, p).state = "runnable" /\ Started(c, j, p).priority = p
         /\ Started(c, j, p).job = j /\ Started(c, j, p).pre_yield = FALSE
         /\ Started(c, j, p).yielded = FALSE
  <1>1. PICK f \in Nat : f = c.fp + 1
    BY DEF Ctx
  <1>2. Started(c, j, p) = [c EXCEPT !.state = "runnable", !.fp = f, !.pre_yield = FALSE,
                                     !.priority = p, !.yielded = FALSE, !.job = j]
    BY <1>1 DEF Started, Ctx
  <1> QED BY <1>2, ZenonT(40) DEF Ctx

LEMMA TaskNewEffect ==
  ASSUME TypeInv, NEW j \in Job, NEW p \in Prio \cup {-1}, NEW tc \in BOOLEAN,
         TaskNew(j, p, tc)
  PROVE  JobHeld(j) \/ NoTaskLeft \/ JobStarts(j)
  <1>1. CASE tc /\ ~Hasfree(free)
    BY <1>1 DEF TaskNew, JobHeld
  <1>2. CASE ~(tc /\ ~Hasfree(free)) /\ free = <<>>
    BY <1>2 DEF TaskNew, NoTaskLeft
  <1>3. CASE ~(tc /\ ~Hasfree(free)) /\ free # <<>>
    <2>1. PICK n \in Task : n = Head(free)
      BY <1>3, ListTail DEF TypeInv
    <2>2. PICK q \in Prio : q = Priority(p)
      BY PrioFact DEF Priority, TypeInv, Ctx
    <2>3. PICK c \in Ctx : c = Started(ctx[n], j, q)
      BY StartedType DEF TypeInv
    <2>4. PICK r \in Seq(Task) : r = Append(runable[q], n)
      BY ListAppend DEF TypeInv
    <2>5. /\ ctx' = [ctx EXCEPT ![n] = c] /\ free' = Tail(free)
          /\ runable' = [runable EXCEPT ![q] = r]
          /\ UNCHANGED <<wait, aborted>>
      BY <1>3, <2>1, <2>2, <2>3, <2>4 DEF TaskNew
    <2>6. /\ ctx' \in [Task -> Ctx] /\ ctx'[n] = c /\ OtherTasks(n)
      BY <2>5 DEF TypeInv, OtherTasks
    <2>7. /\ runable' \in [Prio -> Seq(Task)] /\ runable'[q] = r /\ OtherLists(q)
      BY <2>5 DEF TypeInv, OtherLists
    <2>8. /\ c.state = "runnable" /\ c.priority = q /\ c.job = j
          /\ c.pre_yield = FALSE /\ c.yielded = FALSE
      <3>1. ctx[n] \in Ctx
        BY DEF TypeInv
      <3> QED BY <2>3, <3>1, StartedType, ZenonT(40)
    <2>9. TaskStarts(n, j, q)
      BY <1>3, <2>1, <2>4, <2>6, <2>7, <2>8 DEF TaskStarts
    <2> QED BY <2>5, <2>6, <2>9 DEF JobStarts
  <1> QED BY <1>1, <1>2, <1>3

(* The running task goes on: its list is none.                             *)
Gets(t, h) ==
  /\ running = t /\ t \in Task /\ ctx[t].pre_yield = FALSE
  /\ ctx' \in [Task -> Ctx] /\ OtherTasks(t)
  /\ ctx'[t].state = ctx[t].state /\ ctx'[t].priority = ctx[t].priority
  /\ ctx'[t].job = ctx[t].job /\ ctx'[t].yielded = ctx[t].yielded
  /\ ctx'[t].pre_yield = TRUE /\ ctx'[t].fp = ctx[t].fp + 1
  /\ h \in Handle /\ h.task = t /\ h.fp = ctx'[t].fp
  /\ h.answer = <<ctx[t].job, progress'[ctx[t].job].waits>>
  /\ waits' = waits \cup {h}
  /\ progress' \in [Job -> Progress]
  /\ \A j \in Job : progress'[j].at = progress[j].at
  /\ \A j \in Job : j # ctx[t].job => progress'[j] = progress[j]
  /\ UNCHANGED <<free, runable, wait, requests, local, remote, running, core,
                 aborted, use>>

LEMMA GetEffect ==
  ASSUME CoreInv, schedule_task_get
  PROVE  \E h \in Handle : Gets(running, h)
  <1>1. PICK t \in Task : t = running
    BY DEF CoreInv, TypeInv, schedule_task_get
  <1>2. PICK j \in Job : j = ctx[t].job
    BY <1>1 DEF CoreInv, ListInv
  <1>3. PICK k \in Nat : k = progress[j].waits + 1
    BY DEF CoreInv, TypeInv, Progress
  <1>4. ctx[t] \in Ctx /\ progress[j] \in Progress
    BY DEF CoreInv, TypeInv
  <1>f. PICK f \in Nat : f = ctx[t].fp + 1
    BY <1>4 DEF Ctx
  <1>5. PICK c \in Ctx : c = [ctx[t] EXCEPT !.pre_yield = TRUE, !.fp = f]
    BY <1>4 DEF Ctx
  <1>6. PICK g \in Progress : g = [progress[j] EXCEPT !.waits = k]
    BY <1>4 DEF Progress
  <1>7. PICK h \in Handle : h = [task |-> t, fp |-> f, answer |-> <<j, k>>]
    BY DEF Handle, Wait
  <1>8. /\ ctx' = [ctx EXCEPT ![t] = c]
        /\ progress' = [progress EXCEPT ![j] = g]
        /\ waits' = waits \cup {h}
        /\ ctx[t].pre_yield = FALSE
        /\ UNCHANGED <<free, runable, wait, requests, local, remote, running, core,
                       aborted, use>>
    <2>1. ctx' = [ctx EXCEPT ![t] = c]
      BY <1>1, <1>2, <1>3, <1>4, <1>f, <1>5 DEF schedule_task_get, CoreInv, TypeInv, Ctx
    <2>2. progress' = [progress EXCEPT ![j] = g]
      BY <1>1, <1>2, <1>3, <1>4, <1>6 DEF schedule_task_get, CoreInv, TypeInv, Progress
    <2>3. ctx[t].pre_yield = FALSE
      BY <1>1, <1>4, Zenon DEF schedule_task_get, Ctx
    <2> QED BY <1>1, <1>2, <1>3, <1>f, <1>7, <2>1, <2>2, <2>3 DEF schedule_task_get
  <1>9. ctx' \in [Task -> Ctx] /\ OtherTasks(t) /\ ctx'[t] = c
    BY <1>8 DEF CoreInv, TypeInv, OtherTasks
  <1>10. /\ progress' \in [Job -> Progress] /\ progress'[j] = g
         /\ \A i \in Job : i # j => progress'[i] = progress[i]
    BY <1>8 DEF CoreInv, TypeInv
  <1>11. /\ c.state = ctx[t].state /\ c.priority = ctx[t].priority
         /\ c.job = ctx[t].job /\ c.yielded = ctx[t].yielded
         /\ c.pre_yield = TRUE /\ c.fp = f
    BY <1>4, <1>5 DEF Ctx
  <1>12. g.at = progress[j].at /\ g.waits = k
    BY <1>4, <1>6 DEF Progress
  <1>13. h.task = t /\ h.fp = c.fp /\ h.answer = <<j, g.waits>>
    BY <1>7, <1>11, <1>12
  <1>14. Gets(t, h)
    BY <1>1, <1>2, <1>f, <1>8, <1>9, <1>10, <1>11, <1>12, <1>13 DEF Gets
  <1> QED BY <1>1, <1>14

(* The running task gives the wait up.                                     *)
Resets(t) ==
  /\ running = t /\ t \in Task /\ ctx[t].pre_yield
  /\ use.shared \/ \E h \in waits : Own(h)
  /\ ctx' \in [Task -> Ctx] /\ OtherTasks(t)
  /\ ctx'[t].state = ctx[t].state /\ ctx'[t].priority = ctx[t].priority
  /\ ctx'[t].job = ctx[t].job /\ ctx'[t].yielded = ctx[t].yielded
  /\ ctx'[t].pre_yield = FALSE /\ ctx'[t].fp = ctx[t].fp
  /\ waits' = {h \in waits : ~Own(h)}
  /\ UNCHANGED <<free, runable, wait, requests, local, remote, running, core,
                 progress, aborted, use>>

LEMMA ResetEffect ==
  ASSUME CoreInv, schedule_task_reset
  PROVE  Resets(running)
  <1>1. PICK t \in Task : t = running
    BY DEF CoreInv, TypeInv, schedule_task_reset
  <1>2. ctx[t] \in Ctx
    BY DEF CoreInv, TypeInv
  <1>3. PICK c \in Ctx : c = [ctx[t] EXCEPT !.pre_yield = FALSE]
    BY <1>2 DEF Ctx
  <1>4. ctx' = [ctx EXCEPT ![t] = c]
    BY <1>1, <1>2, <1>3 DEF schedule_task_reset, CoreInv, TypeInv, Ctx
  <1>5. ctx' \in [Task -> Ctx] /\ OtherTasks(t) /\ ctx'[t] = c
    BY <1>4 DEF CoreInv, TypeInv, OtherTasks
  <1>6. /\ c.state = ctx[t].state /\ c.priority = ctx[t].priority
        /\ c.job = ctx[t].job /\ c.yielded = ctx[t].yielded
        /\ c.pre_yield = FALSE /\ c.fp = ctx[t].fp
    BY <1>2, <1>3 DEF Ctx
  <1> QED BY <1>1, <1>5, <1>6 DEF Resets, schedule_task_reset

(* The running task suspends.                                              *)
Yields(t) ==
  /\ running = t /\ t \in Task /\ ctx[t].pre_yield
  /\ ctx' \in [Task -> Ctx] /\ OtherTasks(t)
  /\ ctx'[t].state = "suspend" /\ ctx'[t].fp = ctx[t].fp
  /\ ctx'[t].job = ctx[t].job /\ ctx'[t].pre_yield = FALSE
  /\ running' = 0
  /\ UNCHANGED <<free, runable, wait, requests, local, remote, core, waits,
                 progress, aborted, use>>

LEMMA YieldEffect ==
  ASSUME CoreInv, schedule_yield1
  PROVE  Yields(running)
  <1>1. PICK t \in Task : t = running
    BY DEF CoreInv, TypeInv, schedule_yield1
  <1>2. ctx[t] \in Ctx
    BY DEF CoreInv, TypeInv
  <1>3. PICK c \in Ctx : c = [ctx[t] EXCEPT !.pre_yield = FALSE, !.state = "suspend",
                                            !.yielded = TRUE]
    BY <1>2 DEF Ctx
  <1>4. ctx' = [ctx EXCEPT ![t] = c]
    BY <1>1, <1>2, <1>3 DEF schedule_yield1, CoreInv, TypeInv, Ctx
  <1>5. ctx' \in [Task -> Ctx] /\ OtherTasks(t) /\ ctx'[t] = c
    BY <1>4 DEF CoreInv, TypeInv, OtherTasks
  <1>6. /\ c.state = "suspend" /\ c.fp = ctx[t].fp
        /\ c.job = ctx[t].job /\ c.pre_yield = FALSE
    BY <1>2, <1>3 DEF Ctx
  <1> QED BY <1>1, <1>5, <1>6 DEF Yields, schedule_yield1

(* The running task ends, and perhaps starts a job that was held back.     *)
TaskEnds(t) ==
  /\ running = t /\ t \in Task /\ ctx[t].pre_yield = FALSE /\ ctx[t].job \in Job
  /\ ctx' \in [Task -> Ctx]
  /\ ctx'[t].state = "free" /\ ctx'[t].pre_yield = FALSE /\ ctx'[t].fp = 0
  /\ progress' \in [Job -> Progress]
  /\ progress'[ctx[t].job].at = "done"
  /\ \A j \in Job : progress'[j].waits = progress[j].waits
  /\ \A j \in Job : j # ctx[t].job => progress'[j] = progress[j]
  /\ running' = 0
  /\ UNCHANGED <<requests, local, remote, core, waits, aborted, use>>

EndsAlone(t) ==
  TaskEnds(t) /\ OtherTasks(t) /\ free' = <<t>> \o free /\ UNCHANGED <<wait, runable>>

EndsAndStarts(t, n, p) ==
  /\ TaskEnds(t) /\ TaskStarts(n, Head(wait), p)
  /\ wait # <<>> /\ n # t
  /\ \A u \in Task : u # t /\ u # n => ctx'[u] = ctx[u]
  /\ free' = <<t>> \o Tail(free) /\ wait' = Tail(wait)

LEMMA HasfreeFact ==
  ASSUME NEW q \in Seq(Task), Hasfree(q)
  PROVE  q # <<>>
  <1>1. Len(q) \in Nat /\ Len(q) >= TaskMax - Limit
    BY ScheduleAssumption DEF Hasfree
  <1> QED BY <1>1, ScheduleAssumption

LEMMA FinishEffect ==
  ASSUME CoreInv, Finish
  PROVE  \/ EndsAlone(running)
         \/ \E n \in Task, p \in Prio : EndsAndStarts(running, n, p)
  <1>1. PICK t \in Task : t = running
    BY DEF CoreInv, TypeInv, Finish
  <1>2. PICK j \in Job : j = ctx[t].job
    BY <1>1 DEF CoreInv, ListInv
  <1>3. /\ ctx[t] \in Ctx /\ progress[j] \in Progress /\ ctx[t].state = "running"
        /\ ctx[t].pre_yield = FALSE
    <2>1. ctx[t] \in Ctx /\ progress[j] \in Progress
      BY DEF CoreInv, TypeInv
    <2>2. ctx[t].state = "running"
      BY <1>1 DEF CoreInv, ListInv
    <2>3. ctx[t].pre_yield = FALSE
      BY <1>1, <2>1, Zenon DEF Finish, Ctx
    <2> QED BY <2>1, <2>2, <2>3
  <1>4. PICK c \in Ctx : c = [ctx[t] EXCEPT !.fp = 0, !.job = NoJob, !.state = "free"]
    BY <1>3 DEF Ctx
  <1>5. PICK g \in Progress : g = [progress[j] EXCEPT !.at = "done"]
    BY <1>3 DEF Progress
  <1>6. PICK e \in [Task -> Ctx] : e = [ctx EXCEPT ![t] = c]
    BY DEF CoreInv, TypeInv
  <1>7. e = [ctx EXCEPT ![t].fp = 0, ![t].job = NoJob, ![t].state = "free"]
    BY <1>3, <1>4, <1>6 DEF CoreInv, TypeInv, Ctx
  <1>8. e[t] = c /\ \A u \in Task : u # t => e[u] = ctx[u]
    BY <1>6 DEF CoreInv, TypeInv
  <1>9. c.state = "free" /\ c.pre_yield = FALSE /\ c.fp = 0
    <2>1. c.state = "free" /\ c.pre_yield = FALSE
      BY <1>3, <1>4, Zenon DEF Ctx
    <2>2. c.fp = 0
      BY <1>3, <1>4 DEF Ctx
    <2> QED BY <2>1, <2>2
  <1>10. /\ progress' \in [Job -> Progress] /\ progress'[j] = g
         /\ \A i \in Job : i # j => progress'[i] = progress[i]
         /\ g.at = "done" /\ g.waits = progress[j].waits
    <2>1. progress' = [progress EXCEPT ![j] = g]
      BY <1>1, <1>2, <1>3, <1>5 DEF Finish, CoreInv, TypeInv, Progress
    <2>2. g.at = "done" /\ g.waits = progress[j].waits
      BY <1>3, <1>5 DEF Progress
    <2> QED BY <2>1, <2>2 DEF CoreInv, TypeInv
  <1>11. ASSUME ctx' \in [Task -> Ctx], ctx'[t] = c
         PROVE  TaskEnds(t)
    BY <1>1, <1>2, <1>3, <1>9, <1>10, <1>11 DEF TaskEnds, Finish
  <1>12. CASE ~(wait # <<>> /\ Hasfree(free))
    <2>1. ctx' = e /\ free' = <<t>> \o free /\ UNCHANGED <<wait, runable>>
      BY <1>1, <1>7, <1>12 DEF Finish
    <2>2. OtherTasks(t)
      BY <1>8, <2>1 DEF OtherTasks
    <2> QED BY <1>1, <1>8, <1>11, <2>1, <2>2 DEF EndsAlone
  <1>13. CASE wait # <<>> /\ Hasfree(free)
    <2>1. free \in Seq(Task) /\ free # <<>>
      BY <1>13, HasfreeFact DEF CoreInv, TypeInv
    <2>2. PICK n \in Task : n = Head(free) /\ n \in Range(free)
      BY <2>1, ListTail
    <2>3. ctx[n].state = "free" /\ n # t
      BY <1>3, <2>2 DEF CoreInv, ListInv, Listing, FreeTasks
    <2>4. PICK p \in Prio : p = ctx[t].priority
      BY <1>3 DEF Ctx
    <2>5. PICK i \in Job : i = Head(wait)
      BY <1>13 DEF CoreInv, TypeInv
    <2>6. PICK d \in Ctx : /\ d = Started(ctx[n], i, p)
                           /\ d.state = "runnable" /\ d.priority = p /\ d.job = i
                           /\ d.pre_yield = FALSE /\ d.yielded = FALSE
      <3>1. ctx[n] \in Ctx
        BY DEF CoreInv, TypeInv
      <3> QED BY <3>1, StartedType, ZenonT(40)
    <2>7. PICK r \in Seq(Task) : r = Append(runable[p], n)
      BY ListAppend DEF CoreInv, TypeInv
    <2>8. /\ ctx' = [e EXCEPT ![n] = d] /\ free' = <<t>> \o Tail(free)
          /\ runable' = [runable EXCEPT ![p] = r]
          /\ wait' = Tail(wait)
      <3>1. ctx' = [e EXCEPT ![n] = Started(e[n], i, p)]
        BY <1>1, <1>7, <1>13, <2>2, <2>4, <2>5 DEF Finish
      <3>2. e[n] = ctx[n]
        BY <1>8, <2>3
      <3>3. runable' = [runable EXCEPT ![p] = r]
        BY <1>1, <1>13, <2>2, <2>4, <2>7 DEF Finish
      <3> QED BY <1>1, <1>13, <2>6, <3>1, <3>2, <3>3 DEF Finish
    <2>9. /\ ctx' \in [Task -> Ctx] /\ ctx'[n] = d /\ ctx'[t] = c
          /\ \A u \in Task : u # t /\ u # n => ctx'[u] = ctx[u]
      BY <1>8, <2>3, <2>8
    <2>10. /\ runable' \in [Prio -> Seq(Task)] /\ runable'[p] = r /\ OtherLists(p)
      BY <2>8 DEF CoreInv, TypeInv, OtherLists
    <2>11. TaskStarts(n, Head(wait), p)
      BY <2>1, <2>2, <2>5, <2>6, <2>7, <2>9, <2>10 DEF TaskStarts
    <2>12. EndsAndStarts(t, n, p)
      BY <1>11, <1>13, <2>3, <2>8, <2>9, <2>11 DEF EndsAndStarts
    <2> QED BY <1>1, <2>12
  <1> QED BY <1>12, <1>13

(* A reply makes its task runnable.                                        *)
Resumes(h, p) ==
  /\ h.fp = ctx[h.task].fp /\ ctx[h.task].state = "suspend"
  /\ p \in Prio
  /\ ctx' \in [Task -> Ctx] /\ OtherTasks(h.task)
  /\ ctx'[h.task].state = "runnable" /\ ctx'[h.task].answer = h.answer
  /\ ctx'[h.task].priority = p /\ ctx'[h.task].job = ctx[h.task].job
  /\ ctx'[h.task].pre_yield = ctx[h.task].pre_yield
  /\ ctx'[h.task].fp = ctx[h.task].fp
  /\ runable' \in [Prio -> Seq(Task)]
  /\ runable'[p] = Append(runable[p], h.task) /\ OtherLists(p)
  /\ UNCHANGED aborted

(* Every reply leaves the queue.                                           *)
Handles(h) ==
  /\ phase = "exec" /\ batch \in Seq(Handle) /\ batch # <<>> /\ h = Head(batch)
  /\ batch' = Tail(batch)
  /\ phase' = IF batch' = <<>> THEN "local" ELSE "exec"
  /\ batch' \in Seq(Handle)
  /\ UNCHANGED <<free, wait, requests, local, remote, running, ran, waits,
                 progress, use>>

LEMMA ExecEffect ==
  ASSUME CoreInv, schedule_exec
  PROVE  \E h \in Handle :
           /\ Handles(h)
           /\ \/ h.fp # ctx[h.task].fp /\ UNCHANGED <<ctx, runable, aborted>>
              \/ /\ ctx[h.task].state # "suspend" /\ h.fp = ctx[h.task].fp
                 /\ aborted' = "resumed_task_is_not_suspended"
                 /\ UNCHANGED <<ctx, runable>>
              \/ \E p \in Prio : Resumes(h, p)
  <1>1. phase = "exec" /\ batch \in Seq(Handle) /\ batch # <<>>
    BY DEF CoreInv, TypeInv, schedule_exec
  <1>2. PICK h \in Handle : h = Head(batch)
    BY <1>1
  <1>3. PICK t \in Task : t = h.task
    BY DEF Handle
  <1>4. ctx[t] \in Ctx
    BY DEF CoreInv, TypeInv
  <1>5. /\ Tail(batch) \in Seq(Handle)
        /\ Len(batch) = 1 <=> Tail(batch) = <<>>
    BY <1>1, ListTail
  <1>6. Handles(h)
    BY <1>1, <1>2, <1>5 DEF Handles, schedule_exec
  <1>7. ASSUME h.fp = ctx[t].fp, ctx[t].state = "suspend"
        PROVE  \E p \in Prio : Resumes(h, p)
    <2>1. PICK p \in Prio : p = ctx[t].priority
      BY <1>4 DEF Ctx
    <2>2. PICK c \in Ctx : c = [ctx[t] EXCEPT !.state = "runnable", !.answer = h.answer]
      BY <1>4 DEF Ctx, Handle
    <2>3. PICK r \in Seq(Task) : r = Append(runable[p], t)
      BY ListAppend DEF CoreInv, TypeInv
    <2>4. ctx' = [ctx EXCEPT ![t] = c]
      BY <1>2, <1>3, <1>4, <1>7, <2>2 DEF schedule_exec, CoreInv, TypeInv, Ctx
    <2>5. runable' = [runable EXCEPT ![p] = r] /\ UNCHANGED aborted
      BY <1>2, <1>3, <1>7, <2>1, <2>3 DEF schedule_exec
    <2>6. ctx' \in [Task -> Ctx] /\ OtherTasks(t) /\ ctx'[t] = c
      BY <2>4 DEF CoreInv, TypeInv, OtherTasks
    <2>7. /\ runable' \in [Prio -> Seq(Task)] /\ runable'[p] = r /\ OtherLists(p)
      BY <2>5 DEF CoreInv, TypeInv, OtherLists
    <2>8. /\ c.state = "runnable" /\ c.answer = h.answer /\ c.priority = p
          /\ c.job = ctx[t].job /\ c.pre_yield = ctx[t].pre_yield /\ c.fp = ctx[t].fp
      BY <1>4, <2>1, <2>2 DEF Ctx
    <2> QED BY <1>3, <1>7, <2>3, <2>5, <2>6, <2>7, <2>8 DEF Resumes
  <1>8. \/ h.fp # ctx[t].fp /\ UNCHANGED <<ctx, runable, aborted>>
        \/ /\ ctx[t].state # "suspend" /\ h.fp = ctx[t].fp
           /\ aborted' = "resumed_task_is_not_suspended" /\ UNCHANGED <<ctx, runable>>
        \/ h.fp = ctx[t].fp /\ ctx[t].state = "suspend"
    BY <1>2, <1>3 DEF schedule_exec
  <1> QED BY <1>3, <1>6, <1>7, <1>8

(* The loop switches to a task.                                            *)
Switches(t, p) ==
  /\ phase = "tasks" /\ running = 0 /\ t \in Task /\ p \in Prio
  /\ runable[p] # <<>> /\ t = Head(runable[p])
  /\ running' = t
  /\ runable' \in [Prio -> Seq(Task)]
  /\ runable'[p] = Tail(runable[p]) /\ OtherLists(p)
  /\ ctx' \in [Task -> Ctx] /\ OtherTasks(t)
  /\ ctx'[t].state = "running" /\ ctx'[t].job = ctx[t].job
  /\ ctx'[t].pre_yield = ctx[t].pre_yield /\ ctx'[t].fp >= ctx[t].fp
  /\ UNCHANGED <<free, wait, requests, local, remote, phase, batch, waits,
                 progress, aborted, use>>

LEMMA RunEffect ==
  ASSUME CoreInv, task_run
  PROVE  \E t \in Task, p \in Prio : Switches(t, p)
  <1>1. PICK p \in Prio :
          /\ Best(p)
          /\ LET t == Head(runable[p])
             IN  /\ running' = t
                 /\ runable' = [runable EXCEPT ![p] = Tail(@)]
                 /\ ctx' = [ctx EXCEPT ![t].state = "running",
                                       ![t].fp = IF ctx[t].yielded THEN @ + 1 ELSE @]
    BY DEF task_run
  <1>2. runable[p] \in Seq(Task) /\ runable[p] # <<>>
    BY <1>1 DEF CoreInv, TypeInv, Best
  <1>3. PICK t \in Task : t = Head(runable[p])
    BY <1>2, ListTail
  <1>4. PICK r \in Seq(Task) : r = Tail(runable[p])
    BY <1>2, ListTail
  <1>5. ctx[t] \in Ctx
    BY DEF CoreInv, TypeInv
  <1>6. PICK f \in Nat : f = IF ctx[t].yielded THEN ctx[t].fp + 1 ELSE ctx[t].fp
    <2>1. ctx[t].fp \in Nat /\ ctx[t].fp + 1 \in Nat
      BY <1>5 DEF Ctx
    <2> QED BY <2>1
  <1>7. PICK c \in Ctx : c = [ctx[t] EXCEPT !.state = "running", !.fp = f]
    BY <1>5 DEF Ctx
  <1>8. ctx' = [ctx EXCEPT ![t] = c]
    BY <1>1, <1>3, <1>5, <1>6, <1>7 DEF CoreInv, TypeInv, Ctx
  <1>9. runable' = [runable EXCEPT ![p] = r]
    BY <1>1, <1>4
  <1>10. ctx' \in [Task -> Ctx] /\ OtherTasks(t) /\ ctx'[t] = c
    BY <1>8 DEF CoreInv, TypeInv, OtherTasks
  <1>11. /\ runable' \in [Prio -> Seq(Task)] /\ runable'[p] = r /\ OtherLists(p)
    BY <1>9 DEF CoreInv, TypeInv, OtherLists
  <1>12. /\ c.state = "running" /\ c.job = ctx[t].job /\ c.pre_yield = ctx[t].pre_yield
         /\ c.fp >= ctx[t].fp
    <2>1. ctx[t].fp \in Nat /\ f >= ctx[t].fp
      BY <1>5, <1>6 DEF Ctx
    <2> QED BY <1>5, <1>7, <2>1 DEF Ctx
  <1>13. Switches(t, p)
    BY <1>1, <1>2, <1>3, <1>4, <1>10, <1>11, <1>12 DEF Switches, task_run
  <1> QED BY <1>13

(* A job is created.                                                       *)
Comes(j) ==
  /\ j \in Job /\ j \in use.jobs
  /\ progress[j].at = "unborn"
  /\ progress' \in [Job -> Progress]
  /\ progress'[j].at = "born" /\ progress'[j].waits = progress[j].waits
  /\ \A i \in Job : i # j => progress'[i] = progress[i]

LEMMA BornEffect ==
  ASSUME TypeInv, NEW j \in use.jobs, Born(j)
  PROVE  Comes(j)
  <1>1. j \in Job
    BY ScheduleAssumption DEF TypeInv, Use
  <1>2. progress[j] \in Progress
    BY <1>1 DEF TypeInv
  <1>3. PICK g \in Progress : g = [progress[j] EXCEPT !.at = "born"]
    BY <1>2 DEF Progress
  <1>4. progress' = [progress EXCEPT ![j] = g]
    BY <1>1, <1>2, <1>3 DEF Born, TypeInv, Progress
  <1>5. g.at = "born" /\ g.waits = progress[j].waits
    BY <1>2, <1>3 DEF Progress
  <1> QED BY <1>1, <1>4, <1>5 DEF Comes, Born, TypeInv

NewTask(j) ==
  /\ running # 0 \/ phase = "idle"
  /\ Comes(j)
  /\ JobHeld(j) \/ NoTaskLeft \/ JobStarts(j)
  /\ UNCHANGED <<requests, local, remote, running, core, waits, use>>

NewRequest(j, r) ==
  /\ Comes(j) /\ r \in Request /\ r.job = j
  /\ requests' = Append(requests, r)
  /\ UNCHANGED <<ctx, free, runable, wait, local, remote, running, core, waits,
                 aborted, use>>

Requested(r) ==
  /\ phase = "start" /\ batch \in Seq(Request) /\ batch # <<>> /\ r = Head(batch)
  /\ JobHeld(r.job) \/ NoTaskLeft \/ JobStarts(r.job)
  /\ batch' = Tail(batch) /\ batch' \in Seq(Request)
  /\ phase' = IF batch' = <<>> THEN "check" ELSE "start"
  /\ UNCHANGED <<requests, local, remote, running, ran, waits, progress, use>>

LEMMA NewTaskEffect ==
  ASSUME TypeInv, NEW j \in use.jobs, NEW p \in Prio \cup {-1}, schedule_task_new(j, p)
  PROVE  NewTask(j)
  <1>1. Comes(j)
    BY BornEffect DEF schedule_task_new
  <1>2. TRUE \in BOOLEAN /\ FALSE \in BOOLEAN
    OBVIOUS
  <1>3. TaskNew(j, p, TRUE) \/ TaskNew(j, p, FALSE)
    BY DEF schedule_task_new, TaskNew
  <1>4. JobHeld(j) \/ NoTaskLeft \/ JobStarts(j)
    BY <1>1, <1>2, <1>3, TaskNewEffect DEF Comes
  <1> QED BY <1>1, <1>4 DEF NewTask, schedule_task_new

LEMMA NewRequestEffect ==
  ASSUME TypeInv, NEW j \in use.jobs, NEW p \in Prio \cup {-1}, schedule_request(j, p)
  PROVE  \E r \in Request : NewRequest(j, r)
  <1>1. Comes(j)
    BY BornEffect DEF schedule_request
  <1>2. PICK r \in Request : r = [job |-> j, prio |-> p] /\ r.job = j
    <2>1. j \in Job
      BY <1>1 DEF Comes
    <2>2. [job |-> j, prio |-> p] \in Request
      BY <2>1 DEF Request
    <2> QED BY <2>2
  <1> QED BY <1>1, <1>2 DEF NewRequest, schedule_request

LEMMA RequestedEffect ==
  ASSUME CoreInv, request_queue_run
  PROVE  \E r \in Request : Requested(r)
  <1>1. phase = "start" /\ batch \in Seq(Request) /\ batch # <<>>
    BY DEF CoreInv, TypeInv, request_queue_run
  <1>2. PICK r \in Request : r = Head(batch)
    BY <1>1, ListTail
  <1>3. r.job \in Job /\ r.prio \in Prio \cup {-1}
    BY DEF Request
  <1>4. JobHeld(r.job) \/ NoTaskLeft \/ JobStarts(r.job)
    BY <1>2, <1>3, TaskNewEffect DEF request_queue_run, CoreInv
  <1>5. /\ Tail(batch) \in Seq(Request)
        /\ Len(batch) = 1 <=> Tail(batch) = <<>>
    BY <1>1, ListTail
  <1> QED BY <1>1, <1>2, <1>4, <1>5 DEF Requested, request_queue_run

-----------------------------------------------------------------------------
(* The inductive invariant of the lists.                                   *)

LEMMA TypeInit == Init => CoreInv
  <1> SUFFICES ASSUME Init PROVE CoreInv
    OBVIOUS
  <1>1. TaskMax \in Nat
    BY ScheduleAssumption
  <1>2. free \in Seq(Task) /\ Len(free) = TaskMax /\ \A i \in Task : free[i] = i
    BY <1>1 DEF Init, Task
  <1>3. TypeInv
    <2>1. ctx \in [Task -> Ctx]
      BY PrioFact DEF Init, Ctx
    <2>2. progress \in [Job -> Progress]
      BY DEF Init, Progress
    <2>3. runable \in [Prio -> Seq(Task)]
      BY ListEmpty DEF Init
    <2> QED BY <1>2, <2>1, <2>2, <2>3, ListEmpty DEF Init, TypeInv
  <1>4. ListInv
    <2>1. \A t \in Task : ctx[t].state = "free" /\ ctx[t].pre_yield = FALSE
      BY DEF Init
    <2>2. FreeTasks = Task
      BY <2>1 DEF FreeTasks
    <2>3. Range(free) = Task
      <3>1. Range(free) = {free[i] : i \in 1..TaskMax}
        BY <1>2, RangeOf
      <3> QED BY <1>2, <3>1 DEF Task
    <2>4. Distinct(free)
      BY <1>1, <1>2 DEF Distinct, Task
    <2>5. \A p \in Prio : runable[p] = <<>> /\ Ready(p) = {}
      BY <2>1 DEF Init, Ready
    <2>6. \A p \in Prio : Listing(runable[p], Ready(p))
      BY <2>5, ListEmpty DEF Listing
    <2> QED BY <2>1, <2>2, <2>3, <2>4, <2>6, PrioFact DEF Init, ListInv, Listing
  <1> QED BY <1>3, <1>4 DEF CoreInv

LEMMA JobStartsType ==
  ASSUME TypeInv, NEW j \in Job, JobHeld(j) \/ NoTaskLeft \/ JobStarts(j)
  PROVE  /\ ctx' \in [Task -> Ctx] /\ free' \in Seq(Task)
         /\ runable' \in [Prio -> Seq(Task)] /\ wait' \in Seq(Job)
  <1>1. CASE JobHeld(j)
    BY <1>1, ListAppend DEF JobHeld, TypeInv
  <1>2. CASE NoTaskLeft
    BY <1>2 DEF NoTaskLeft, TypeInv
  <1>3. CASE JobStarts(j)
    BY <1>3, ListTail DEF JobStarts, TaskStarts, TypeInv
  <1> QED BY <1>1, <1>2, <1>3

LEMMA TypeNext ==
  ASSUME CoreInv, Next
  PROVE  TypeInv'
  <1> USE DEF CoreInv, core, tasks
  <1>1. CASE schedule_task_get
    BY <1>1, GetEffect DEF Gets, TypeInv
  <1>2. CASE schedule_task_reset
    BY <1>2, ResetEffect DEF Resets, TypeInv
  <1>3. CASE schedule_yield1
    BY <1>3, YieldEffect DEF Yields, TypeInv
  <1>4. CASE Finish
    <2>1. CASE EndsAlone(running)
      <3>1. free' \in Seq(Task)
        BY <2>1, ListPush DEF EndsAlone, TaskEnds, TypeInv
      <3> QED BY <2>1, <3>1 DEF EndsAlone, TaskEnds, TypeInv
    <2>2. ASSUME NEW n \in Task, NEW p \in Prio, EndsAndStarts(running, n, p)
          PROVE  TypeInv'
      <3>1. Tail(free) \in Seq(Task) /\ running \in Task
        BY <2>2, ListTail DEF EndsAndStarts, TaskStarts, TaskEnds, TypeInv
      <3>2. free' \in Seq(Task)
        BY <2>2, <3>1, ListPush DEF EndsAndStarts
      <3>3. wait' \in Seq(Job)
        BY <2>2, ListTail DEF EndsAndStarts, TypeInv
      <3> QED BY <2>2, <3>2, <3>3 DEF EndsAndStarts, TaskEnds, TaskStarts, TypeInv
    <2> QED BY <1>4, <2>1, <2>2, FinishEffect
  <1>5. CASE schedule_run
    BY <1>5 DEF schedule_run, TypeInv
  <1>6. CASE reply_local_run
    BY <1>6, ListEmpty DEF reply_local_run, TypeInv
  <1>7. CASE reply_remote_run
    BY <1>7, ListEmpty DEF reply_remote_run, TypeInv
  <1>8. CASE schedule_exec
    <2>1. PICK h \in Handle :
           /\ Handles(h)
           /\ \/ h.fp # ctx[h.task].fp /\ UNCHANGED <<ctx, runable, aborted>>
              \/ /\ ctx[h.task].state # "suspend" /\ h.fp = ctx[h.task].fp
                 /\ aborted' = "resumed_task_is_not_suspended"
                 /\ UNCHANGED <<ctx, runable>>
              \/ \E p \in Prio : Resumes(h, p)
      BY <1>8, ExecEffect
    <2>2. ctx' \in [Task -> Ctx] /\ runable' \in [Prio -> Seq(Task)]
      BY <2>1 DEF Resumes, TypeInv
    <2> QED BY <2>1, <2>2 DEF Handles, TypeInv
  <1>9. CASE task_run
    BY <1>9, RunEffect DEF Switches, TypeInv
  <1>10. CASE task_run_end
    BY <1>10, ListEmpty DEF task_run_end, TypeInv
  <1>11. CASE request_queue_run
    <2>1. PICK r \in Request : Requested(r)
      BY <1>11, RequestedEffect
    <2>2. r.job \in Job
      BY DEF Request
    <2> QED BY <2>1, <2>2, JobStartsType DEF Requested, TypeInv
  <1>12. ASSUME NEW j \in use.jobs, NEW p \in Prio \cup {-1}, schedule_task_new(j, p)
         PROVE  TypeInv'
    <2>1. NewTask(j)
      BY <1>12, NewTaskEffect
    <2> QED BY <2>1, JobStartsType DEF NewTask, Comes, TypeInv
  <1>13. ASSUME NEW j \in use.jobs, NEW p \in Prio \cup {-1}, schedule_request(j, p)
         PROVE  TypeInv'
    <2>1. PICK r \in Request : NewRequest(j, r)
      BY <1>13, NewRequestEffect
    <2>2. requests' \in Seq(Request)
      BY <2>1, ListAppend DEF NewRequest, TypeInv
    <2> QED BY <2>1, <2>2 DEF NewRequest, Comes, TypeInv
  <1>14. ASSUME NEW h \in waits, ResumeLocal(h)
         PROVE  TypeInv'
    <2>1. local' \in Seq(Handle)
      <3>1. local \in Seq(Handle) /\ h \in Handle
        BY DEF TypeInv
      <3>2. Append(local, h) \in Seq(Handle)
        BY <3>1, ListAppend
      <3> QED BY <1>14, <3>1, <3>2 DEF ResumeLocal
    <2> QED BY <1>14, <2>1 DEF ResumeLocal, TypeInv
  <1>15. ASSUME NEW h \in waits, ResumeRemote(h)
         PROVE  TypeInv'
    <2>1. remote' \in Seq(Handle)
      BY <1>15, ListAppend DEF ResumeRemote, TypeInv
    <2> QED BY <1>15, <2>1 DEF ResumeRemote, TypeInv
  <1> QED
    BY <1>1, <1>2, <1>3, <1>4, <1>5, <1>6, <1>7, <1>8, <1>9, <1>10, <1>11, <1>12, <1>13,
       <1>14, <1>15 DEF Next, TaskStep, LoopStep, Submit, Answer

(* A job is started on the first free task.                                *)
LEMMA StartsLists ==
  ASSUME CoreInv, NEW j \in Job, NEW n \in Task, NEW p \in Prio, TaskStarts(n, j, p)
  PROVE  /\ n \in FreeTasks /\ n # running
         /\ Listing(Tail(free), FreeTasks \ {n})
         /\ Listing(runable'[p], Ready(p) \cup {n})
         /\ \A q \in Prio : q # p => Listing(runable'[q], Ready(q))
  <1>1. /\ n \in FreeTasks /\ Listing(Tail(free), FreeTasks \ {n})
    BY ListTail DEF CoreInv, TypeInv, ListInv, TaskStarts, Listing
  <1>2. ctx[n].state = "free"
    BY <1>1 DEF FreeTasks
  <1>3. n # running /\ n \notin Ready(p)
    BY <1>2 DEF CoreInv, ListInv, Ready
  <1>4. Listing(runable'[p], Ready(p) \cup {n})
    BY <1>3, ListAppend DEF CoreInv, TypeInv, ListInv, TaskStarts, Listing
  <1>5. \A q \in Prio : q # p => Listing(runable'[q], Ready(q))
    BY DEF CoreInv, ListInv, TaskStarts, OtherLists
  <1> QED BY <1>1, <1>3, <1>4, <1>5

LEMMA JobStartsLists ==
  ASSUME CoreInv, NEW j \in Job, JobHeld(j) \/ NoTaskLeft \/ JobStarts(j),
         running' = running, running # 0 => phase' = "tasks"
  PROVE  ListInv'
  <1>1. CASE UNCHANGED <<ctx, free, runable>>
    <2>1. FreeTasks' = FreeTasks /\ \A p \in Prio : Ready(p)' = Ready(p)
      BY <1>1 DEF FreeTasks, Ready
    <2> QED BY <1>1, <2>1 DEF CoreInv, ListInv
  <1>2. CASE JobStarts(j)
    <2>1. PICK n \in Task, p \in Prio : TaskStarts(n, j, p) /\ OtherTasks(n)
      BY <1>2 DEF JobStarts
    <2>2. /\ n \in FreeTasks /\ n # running
          /\ Listing(Tail(free), FreeTasks \ {n})
          /\ Listing(runable'[p], Ready(p) \cup {n})
          /\ \A q \in Prio : q # p => Listing(runable'[q], Ready(q))
      BY <2>1, StartsLists
    <2>3. ctx[n].state = "free"
      BY <2>2 DEF FreeTasks
    <2>4. FreeTasks' = FreeTasks \ {n}
      BY <2>1 DEF FreeTasks, TaskStarts, OtherTasks
    <2>5. Ready(p)' = Ready(p) \cup {n}
      BY <2>1 DEF Ready, TaskStarts, OtherTasks
    <2>6. \A q \in Prio : q # p => Ready(q)' = Ready(q)
      BY <2>1, <2>3 DEF Ready, TaskStarts, OtherTasks
    <2>7. \A q \in Prio : Listing(runable'[q], Ready(q)')
      BY <2>2, <2>5, <2>6
    <2>8. Listing(free', FreeTasks')
      BY <1>2, <2>2, <2>4 DEF JobStarts
    <2>9. /\ \A t \in Task : running' = t <=> ctx'[t].state = "running"
          /\ \A t \in Task : ctx'[t].state # "free" => ctx'[t].job \in Job
          /\ \A t \in Task : ctx'[t].pre_yield => running' = t
      BY <2>1, <2>2 DEF CoreInv, ListInv, TaskStarts, OtherTasks
    <2> QED BY <2>7, <2>8, <2>9 DEF ListInv
  <1> QED BY <1>1, <1>2 DEF JobHeld, NoTaskLeft

(* Nothing of a task changes that the lists depend on.                     *)
LEMMA ListsKept ==
  ASSUME ListInv, UNCHANGED <<ctx, free, runable, running>>, running # 0 => phase' = "tasks"
  PROVE  ListInv'
  <1>1. FreeTasks' = FreeTasks /\ \A p \in Prio : Ready(p)' = Ready(p)
    BY DEF FreeTasks, Ready
  <1> QED BY <1>1 DEF ListInv

(* The running task changes, and stays off the lists.                      *)
LEMMA RunningKept ==
  ASSUME CoreInv, NEW t \in Task, running = t, OtherTasks(t),
         ctx'[t].state \in {"running", "suspend"}, ctx'[t].job = ctx[t].job,
         UNCHANGED <<free, runable, phase>>,
         running' = IF ctx'[t].state = "running" THEN t ELSE 0,
         ctx'[t].pre_yield => ctx'[t].state = "running"
  PROVE  ListInv'
  <1>1. ctx[t].state = "running"
    BY DEF CoreInv, ListInv
  <1>2. FreeTasks' = FreeTasks /\ \A p \in Prio : Ready(p)' = Ready(p)
    BY <1>1 DEF FreeTasks, Ready, OtherTasks
  <1>3. /\ \A u \in Task : running' = u <=> ctx'[u].state = "running"
        /\ \A u \in Task : ctx'[u].state # "free" => ctx'[u].job \in Job
        /\ \A u \in Task : ctx'[u].pre_yield => running' = u
    BY <1>1, PrioFact DEF CoreInv, ListInv, OtherTasks
  <1>4. running' # 0 => phase' = "tasks"
    BY DEF CoreInv, ListInv
  <1> QED BY <1>2, <1>3, <1>4 DEF CoreInv, ListInv

LEMMA EndsLists ==
  ASSUME CoreInv, NEW t \in Task, EndsAlone(t)
  PROVE  ListInv'
  <1>1. ctx[t].state = "running" /\ t \notin FreeTasks
    BY DEF CoreInv, ListInv, EndsAlone, TaskEnds, FreeTasks
  <1>2. FreeTasks' = FreeTasks \cup {t} /\ \A p \in Prio : Ready(p)' = Ready(p)
    BY <1>1 DEF FreeTasks, Ready, EndsAlone, TaskEnds, OtherTasks
  <1>3. Listing(free', FreeTasks')
    BY <1>1, <1>2, ListPush DEF CoreInv, TypeInv, ListInv, EndsAlone, Listing
  <1>4. \A p \in Prio : Listing(runable'[p], Ready(p)')
    BY <1>2 DEF CoreInv, ListInv, EndsAlone
  <1>5. /\ \A u \in Task : running' = u <=> ctx'[u].state = "running"
        /\ \A u \in Task : ctx'[u].state # "free" => ctx'[u].job \in Job
        /\ \A u \in Task : ctx'[u].pre_yield => running' = u
    BY <1>1, PrioFact DEF CoreInv, ListInv, EndsAlone, TaskEnds, OtherTasks
  <1> QED BY <1>3, <1>4, <1>5 DEF ListInv, EndsAlone, TaskEnds

LEMMA EndsStartsLists ==
  ASSUME CoreInv, NEW t \in Task, NEW n \in Task, NEW p \in Prio, EndsAndStarts(t, n, p)
  PROVE  ListInv'
  <1>1. ctx[t].state = "running" /\ t \notin FreeTasks
    BY DEF CoreInv, ListInv, EndsAndStarts, TaskEnds, FreeTasks
  <1>2. PICK j \in Job : j = Head(wait)
    BY ListTail DEF CoreInv, TypeInv, EndsAndStarts
  <1>3. TaskStarts(n, j, p)
    BY <1>2 DEF EndsAndStarts
  <1>4. /\ n \in FreeTasks /\ n # running
        /\ Listing(Tail(free), FreeTasks \ {n})
        /\ Listing(runable'[p], Ready(p) \cup {n})
        /\ \A q \in Prio : q # p => Listing(runable'[q], Ready(q))
    BY <1>3, StartsLists
  <1>5. ctx[n].state = "free"
    BY <1>4 DEF FreeTasks
  <1>6. FreeTasks' = (FreeTasks \ {n}) \cup {t}
    BY <1>3 DEF FreeTasks, EndsAndStarts, TaskEnds, TaskStarts
  <1>7. Ready(p)' = Ready(p) \cup {n}
    BY <1>1, <1>3 DEF Ready, EndsAndStarts, TaskEnds, TaskStarts
  <1>8. \A q \in Prio : q # p => Ready(q)' = Ready(q)
    BY <1>1, <1>3, <1>5 DEF Ready, EndsAndStarts, TaskEnds, TaskStarts
  <1>9. \A q \in Prio : Listing(runable'[q], Ready(q)')
    BY <1>4, <1>7, <1>8
  <1>10. Tail(free) \in Seq(Task) /\ t \notin FreeTasks \ {n}
    BY <1>1, <1>3, ListTail DEF CoreInv, TypeInv, TaskStarts
  <1>11. Listing(<<t>> \o Tail(free), (FreeTasks \ {n}) \cup {t})
    <2>1. PICK q \in Seq(Task) : q = Tail(free)
      BY <1>10
    <2>2. Distinct(q) /\ Range(q) = FreeTasks \ {n}
      BY <1>4, <2>1 DEF Listing
    <2>3. t \notin Range(q)
      BY <1>10, <2>2
    <2>4. Listing(<<t>> \o q, Range(q) \cup {t})
      BY <2>2, <2>3, ListPush
    <2> QED BY <2>1, <2>2, <2>4
  <1>12. Listing(free', FreeTasks')
    BY <1>6, <1>11 DEF EndsAndStarts
  <1>13. /\ \A u \in Task : running' = u <=> ctx'[u].state = "running"
         /\ \A u \in Task : ctx'[u].state # "free" => ctx'[u].job \in Job
         /\ \A u \in Task : ctx'[u].pre_yield => running' = u
    BY <1>1, <1>3, PrioFact DEF CoreInv, ListInv, EndsAndStarts, TaskEnds, TaskStarts
  <1> QED BY <1>9, <1>12, <1>13 DEF ListInv, EndsAndStarts, TaskEnds

LEMMA ResumesLists ==
  ASSUME CoreInv, NEW h \in Handle, NEW p \in Prio, Resumes(h, p), Handles(h)
  PROVE  ListInv'
  <1>1. PICK t \in Task : t = h.task
    BY DEF Handle
  <1>2. ctx[t].state = "suspend" /\ t \notin Ready(p)
    BY <1>1 DEF Resumes, Ready
  <1>3. FreeTasks' = FreeTasks
    BY <1>1, <1>2 DEF FreeTasks, Resumes, OtherTasks
  <1>4. Ready(p)' = Ready(p) \cup {t}
    BY <1>1, <1>2 DEF Ready, Resumes, OtherTasks
  <1>5. \A q \in Prio : q # p => Ready(q)' = Ready(q)
    BY <1>1, <1>2 DEF Ready, Resumes, OtherTasks
  <1>6. Listing(runable'[p], Ready(p) \cup {t})
    BY <1>1, <1>2, ListAppend DEF CoreInv, TypeInv, ListInv, Resumes, Listing
  <1>7. \A q \in Prio : Listing(runable'[q], Ready(q)')
    BY <1>4, <1>5, <1>6 DEF CoreInv, ListInv, Resumes, OtherLists
  <1>8. /\ \A u \in Task : running' = u <=> ctx'[u].state = "running"
        /\ \A u \in Task : ctx'[u].state # "free" => ctx'[u].job \in Job
        /\ \A u \in Task : ctx'[u].pre_yield => running' = u
    BY <1>1, <1>2, ZenonT(40) DEF CoreInv, ListInv, Resumes, Handles, OtherTasks
  <1>9. Listing(free', FreeTasks') /\ (running' # 0 => phase' = "tasks")
    BY <1>3 DEF CoreInv, ListInv, Handles
  <1> QED BY <1>7, <1>8, <1>9 DEF ListInv

LEMMA SwitchesLists ==
  ASSUME CoreInv, NEW t \in Task, NEW p \in Prio, Switches(t, p)
  PROVE  /\ ctx[t].state = "runnable" /\ ctx[t].pre_yield = FALSE
         /\ ListInv'
  <1>1. t \in Ready(p) /\ Listing(runable'[p], Ready(p) \ {t})
    BY ListTail DEF CoreInv, TypeInv, ListInv, Switches, Listing
  <1>2. ctx[t].state = "runnable" /\ ctx[t].priority = p
    BY <1>1 DEF Ready
  <1>3. ctx[t].pre_yield = FALSE
    <2>1. ~ctx[t].pre_yield
      BY PrioFact DEF CoreInv, ListInv, Switches
    <2>2. ctx[t].pre_yield \in BOOLEAN
      BY DEF CoreInv, TypeInv, Ctx
    <2> QED BY <2>1, <2>2, Zenon
  <1>4. FreeTasks' = FreeTasks
    BY <1>2 DEF FreeTasks, Switches, OtherTasks
  <1>5. Ready(p)' = Ready(p) \ {t} /\ \A q \in Prio : q # p => Ready(q)' = Ready(q)
    BY <1>2 DEF Ready, Switches, OtherTasks
  <1>6. \A q \in Prio : Listing(runable'[q], Ready(q)')
    BY <1>1, <1>5 DEF CoreInv, ListInv, Switches, OtherLists
  <1>7. /\ \A u \in Task : running' = u <=> ctx'[u].state = "running"
        /\ \A u \in Task : ctx'[u].state # "free" => ctx'[u].job \in Job
        /\ \A u \in Task : ctx'[u].pre_yield => running' = u
    BY <1>2, <1>3, PrioFact DEF CoreInv, ListInv, Switches, OtherTasks
  <1>8. Listing(free', FreeTasks') /\ phase' = "tasks"
    BY <1>4 DEF CoreInv, ListInv, Switches
  <1> QED BY <1>2, <1>3, <1>6, <1>7, <1>8 DEF ListInv

LEMMA ListsNext ==
  ASSUME CoreInv, Next
  PROVE  ListInv'
  <1> USE DEF core, tasks
  <1>1. CASE schedule_task_get
    <2>1. PICK h \in Handle : Gets(running, h)
      BY <1>1, GetEffect
    <2>2. ctx[running].state = "running"
      BY <2>1 DEF Gets, CoreInv, ListInv
    <2> QED BY <2>1, <2>2, RunningKept DEF Gets
  <1>2. CASE schedule_task_reset
    <2>1. Resets(running)
      BY <1>2, ResetEffect
    <2>2. ctx[running].state = "running"
      BY <2>1 DEF Resets, CoreInv, ListInv
    <2> QED BY <2>1, <2>2, RunningKept DEF Resets
  <1>3. CASE schedule_yield1
    BY <1>3, YieldEffect, RunningKept DEF Yields
  <1>4. CASE Finish
    <2>1. running \in Task
      BY <1>4 DEF Finish, CoreInv, TypeInv
    <2> QED BY <1>4, <2>1, FinishEffect, EndsLists, EndsStartsLists
  <1>5. CASE schedule_run
    BY <1>5, ListsKept DEF schedule_run, CoreInv
  <1>6. CASE reply_local_run
    BY <1>6, ListsKept DEF reply_local_run, CoreInv, ListInv
  <1>7. CASE reply_remote_run
    BY <1>7, ListsKept DEF reply_remote_run, CoreInv, ListInv
  <1>8. CASE schedule_exec
    <2>1. PICK h \in Handle :
           /\ Handles(h)
           /\ \/ UNCHANGED <<ctx, runable>>
              \/ \E p \in Prio : Resumes(h, p)
      BY <1>8, ExecEffect
    <2>2. CASE UNCHANGED <<ctx, runable>>
      BY <2>1, <2>2, ListsKept DEF Handles, CoreInv, ListInv
    <2> QED BY <2>1, <2>2, ResumesLists
  <1>9. CASE task_run
    BY <1>9, RunEffect, SwitchesLists
  <1>10. CASE task_run_end
    BY <1>10, ListsKept DEF task_run_end, CoreInv
  <1>11. CASE request_queue_run
    <2>1. PICK r \in Request : Requested(r)
      BY <1>11, RequestedEffect
    <2>2. r.job \in Job /\ running = 0
      BY <2>1 DEF Request, Requested, CoreInv, ListInv
    <2> QED BY <2>1, <2>2, JobStartsLists DEF Requested
  <1>12. ASSUME NEW j \in use.jobs, NEW p \in Prio \cup {-1}, schedule_task_new(j, p)
         PROVE  ListInv'
    <2>1. NewTask(j)
      BY <1>12, NewTaskEffect DEF CoreInv
    <2> QED BY <2>1, JobStartsLists DEF NewTask, Comes, CoreInv, ListInv
  <1>13. ASSUME NEW j \in use.jobs, NEW p \in Prio \cup {-1}, schedule_request(j, p)
         PROVE  ListInv'
    BY <1>13, ListsKept DEF schedule_request, CoreInv, ListInv
  <1>14. ASSUME NEW h \in waits, ResumeLocal(h)
         PROVE  ListInv'
    BY <1>14, ListsKept DEF ResumeLocal, CoreInv, ListInv
  <1>15. ASSUME NEW h \in waits, ResumeRemote(h)
         PROVE  ListInv'
    BY <1>15, ListsKept DEF ResumeRemote, CoreInv, ListInv
  <1> QED
    BY <1>1, <1>2, <1>3, <1>4, <1>5, <1>6, <1>7, <1>8, <1>9, <1>10, <1>11, <1>12, <1>13,
       <1>14, <1>15 DEF Next, TaskStep, LoopStep, Submit, Answer

LEMMA CoreStutter == CoreInv /\ UNCHANGED vars => CoreInv'
  <1> SUFFICES ASSUME CoreInv, UNCHANGED vars PROVE CoreInv'
    OBVIOUS
  <1>1. TypeInv'
    BY DEF CoreInv, TypeInv, vars, core
  <1>2. ListInv'
    BY ListsKept DEF CoreInv, ListInv, vars, core
  <1> QED BY <1>1, <1>2 DEF CoreInv

LEMMA CoreAlways == Spec => []CoreInv
  <1>1. CoreInv /\ [Next]_vars => CoreInv'
    BY TypeNext, ListsNext, CoreStutter DEF CoreInv
  <1> QED BY <1>1, TypeInit, PTL DEF Spec

(* The lists of the scheduler and the states of its tasks agree, whatever  *)
(* the use: a task is on the free list exactly when it is free and on the  *)
(* list of its priority exactly when it is runnable, once, and the running *)
(* task is the one whose state says so.  The hooks that tie a task into    *)
(* these lists are shared between them.                                    *)
THEOREM ScheduleListsAgree == Spec => []ListsAgree
  <1>1. ASSUME CoreInv
        PROVE  ListsAgree
    <2> SUFFICES ASSUME NEW t \in Task
                 PROVE  /\ Cardinality({i \in DOMAIN free : free[i] = t}) =
                             IF ctx[t].state = "free" THEN 1 ELSE 0
                        /\ \A p \in Prio : Cardinality({i \in DOMAIN runable[p] : runable[p][i] = t}) =
                             IF ctx[t].state = "runnable" /\ ctx[t].priority = p THEN 1 ELSE 0
                        /\ running = t <=> ctx[t].state = "running"
      BY DEF ListsAgree
    <2>1. /\ free \in Seq(Task) /\ FreeTasks \in SUBSET Task
          /\ t \in FreeTasks <=> ctx[t].state = "free"
      BY <1>1 DEF CoreInv, TypeInv, FreeTasks
    <2>2. Cardinality({i \in DOMAIN free : free[i] = t}) =
            IF ctx[t].state = "free" THEN 1 ELSE 0
      BY <1>1, <2>1, ListCount DEF CoreInv, ListInv
    <2>3. ASSUME NEW p \in Prio
          PROVE  Cardinality({i \in DOMAIN runable[p] : runable[p][i] = t}) =
                   IF ctx[t].state = "runnable" /\ ctx[t].priority = p THEN 1 ELSE 0
      <3>1. PICK q \in Seq(Task) : q = runable[p]
        BY <1>1 DEF CoreInv, TypeInv
      <3>2. /\ Ready(p) \in SUBSET Task
            /\ t \in Ready(p) <=> ctx[t].state = "runnable" /\ ctx[t].priority = p
        BY DEF Ready
      <3>3. Listing(q, Ready(p))
        BY <1>1, <3>1 DEF CoreInv, ListInv
      <3>4. Cardinality({i \in DOMAIN q : q[i] = t}) = IF t \in Ready(p) THEN 1 ELSE 0
        BY <3>2, <3>3, ListCount
      <3> QED BY <3>1, <3>2, <3>4
    <2> QED BY <1>1, <2>2, <2>3 DEF CoreInv, ListInv
  <1> QED BY <1>1, CoreAlways, PTL

-----------------------------------------------------------------------------
(* Where a job is.                                                         *)

JobsOf(q) == [i \in 1..Len(q) |-> q[i].job]
Starting == IF phase = "start" THEN JobsOf(batch) ELSE <<>>
OnTasks == {j \in Job : \E t \in Task : ctx[t].state # "free" /\ ctx[t].job = j}

(* The four places where a job can be have none in common.                 *)
Apart(W, R, B, T) ==
  /\ W \cap R = {} /\ W \cap B = {} /\ W \cap T = {}
  /\ R \cap B = {} /\ R \cap T = {} /\ B \cap T = {}

(* A job that was created and has not ended is held back, asked for, taken *)
(* over or on one task.                                                    *)
JobInv ==
  /\ \A t, u \in Task : ctx[t].state # "free" /\ ctx[u].state # "free"
                          /\ ctx[t].job = ctx[u].job => t = u
  /\ Distinct(wait) /\ Distinct(JobsOf(requests)) /\ Distinct(Starting)
  /\ Apart(Range(wait), Range(JobsOf(requests)), Range(Starting), OnTasks)
  /\ \A j \in Range(wait) \cup Range(JobsOf(requests)) \cup Range(Starting) \cup OnTasks :
       progress[j].at = "born"
  /\ \A j \in Job : progress[j].at # "unborn" => j \in use.jobs

LEMMA JobsOfType ==
  ASSUME NEW q \in Seq(Request)
  PROVE  /\ JobsOf(q) \in Seq(Job) /\ Len(JobsOf(q)) = Len(q)
         /\ \A i \in 1..Len(q) : JobsOf(q)[i] = q[i].job
  <1>1. Len(q) \in Nat /\ \A i \in 1..Len(q) : q[i].job \in Job
    <2>1. Len(q) \in Nat /\ \A i \in 1..Len(q) : q[i] \in Request
      OBVIOUS
    <2>2. \A r \in Request : r.job \in Job
      BY DEF Request
    <2> QED BY <2>1, <2>2
  <1>2. JobsOf(q) \in [1..Len(q) -> Job]
    BY <1>1 DEF JobsOf
  <1>3. JobsOf(q) \in Seq(Job)
    BY <1>1, <1>2
  <1>4. DOMAIN JobsOf(q) = 1..Len(q)
    BY DEF JobsOf
  <1>5. Len(JobsOf(q)) = Len(q)
    BY <1>1, <1>3, <1>4
  <1>6. \A i \in 1..Len(q) : JobsOf(q)[i] = q[i].job
    BY DEF JobsOf
  <1> QED BY <1>3, <1>5, <1>6

LEMMA JobsOfAppend ==
  ASSUME NEW q \in Seq(Request), NEW r \in Request
  PROVE  JobsOf(Append(q, r)) = Append(JobsOf(q), r.job)
  <1>1. PICK s \in Seq(Request) : s = Append(q, r)
    BY ListAppend
  <1>2. /\ Len(q) \in Nat /\ Len(s) = Len(q) + 1 /\ s[Len(q) + 1] = r
        /\ \A i \in 1..Len(q) : s[i] = q[i]
    BY <1>1
  <1>3. r.job \in Job
    BY DEF Request
  <1>4. PICK u \in Seq(Job) : u = JobsOf(q)
    BY JobsOfType
  <1>5. PICK v \in Seq(Job) : v = Append(u, r.job)
    BY <1>3, ListAppend
  <1>6. PICK w \in Seq(Job) : w = JobsOf(s)
    BY JobsOfType
  <1>7. Len(u) = Len(q) /\ \A i \in 1..Len(q) : u[i] = q[i].job
    BY <1>4, JobsOfType
  <1>8. Len(w) = Len(s) /\ \A i \in 1..Len(s) : w[i] = s[i].job
    BY <1>6, JobsOfType
  <1>9. /\ Len(v) = Len(u) + 1 /\ v[Len(u) + 1] = r.job
        /\ \A i \in 1..Len(u) : v[i] = u[i]
    BY <1>5
  <1>10. \A i \in 1..Len(w) : w[i] = v[i]
    <2> TAKE i \in 1..Len(w)
    <2>1. CASE i \in 1..Len(q)
      BY <2>1, <1>2, <1>7, <1>8, <1>9
    <2>2. CASE i = Len(q) + 1
      BY <2>2, <1>2, <1>7, <1>8, <1>9
    <2> QED BY <1>2, <1>8, <2>1, <2>2
  <1>11. Len(w) = Len(v)
    BY <1>2, <1>7, <1>8, <1>9
  <1>12. w = v
    BY <1>10, <1>11, SeqEqual
  <1> QED BY <1>1, <1>4, <1>5, <1>6, <1>12

LEMMA JobsOfTail ==
  ASSUME NEW q \in Seq(Request), q # <<>>
  PROVE  /\ JobsOf(q) # <<>> /\ Head(JobsOf(q)) = Head(q).job
         /\ JobsOf(Tail(q)) = Tail(JobsOf(q))
  <1>1. PICK s \in Seq(Request) : s = Tail(q)
    BY ListTail
  <1>2. /\ Len(q) \in Nat /\ Len(q) >= 1 /\ Len(s) = Len(q) - 1 /\ Head(q) = q[1]
        /\ \A i \in 1..Len(s) : s[i] = q[i + 1]
    BY <1>1
  <1>3. PICK u \in Seq(Job) : u = JobsOf(q)
    BY JobsOfType
  <1>4. PICK w \in Seq(Job) : w = JobsOf(s)
    BY JobsOfType
  <1>5. Len(u) = Len(q) /\ \A i \in 1..Len(q) : u[i] = q[i].job
    BY <1>3, JobsOfType
  <1>6. Len(w) = Len(s) /\ \A i \in 1..Len(s) : w[i] = s[i].job
    BY <1>4, JobsOfType
  <1>7. u # <<>> /\ Head(u) = u[1] /\ u[1] = q[1].job
    BY <1>2, <1>5
  <1>8. PICK v \in Seq(Job) : v = Tail(u)
    BY <1>7, ListTail
  <1>9. Len(v) = Len(u) - 1 /\ \A i \in 1..Len(v) : v[i] = u[i + 1]
    BY <1>7, <1>8
  <1>10. \A i \in 1..Len(w) : w[i] = v[i]
    <2> TAKE i \in 1..Len(w)
    <2>1. i \in 1..Len(s) /\ i \in 1..Len(v) /\ i + 1 \in 1..Len(q)
      BY <1>2, <1>5, <1>6, <1>9
    <2> QED BY <2>1, <1>2, <1>5, <1>6, <1>9
  <1>11. Len(w) = Len(v)
    BY <1>2, <1>5, <1>6, <1>9
  <1>12. w = v
    BY <1>10, <1>11, SeqEqual
  <1> QED BY <1>1, <1>2, <1>3, <1>4, <1>7, <1>8, <1>12

LEMMA JobsOfEmpty == JobsOf(<<>>) = <<>>
  <1>1. <<>> \in Seq(Request)
    OBVIOUS
  <1>2. JobsOf(<<>>) \in Seq(Job) /\ Len(JobsOf(<<>>)) = 0
    BY <1>1, JobsOfType
  <1> QED BY <1>2

(* Adding to and taking from these queues.                                 *)
LEMMA RequestAppend ==
  ASSUME NEW q \in Seq(Request), NEW r \in Request
  PROVE  /\ Range(JobsOf(Append(q, r))) = Range(JobsOf(q)) \cup {r.job}
         /\ Distinct(JobsOf(q)) /\ r.job \notin Range(JobsOf(q))
              => Distinct(JobsOf(Append(q, r)))
  <1>1. JobsOf(q) \in Seq(Job) /\ r.job \in Job
    BY JobsOfType DEF Request
  <1>2. PICK u \in Seq(Job) : u = JobsOf(q)
    BY <1>1
  <1>3. PICK j \in Job : j = r.job
    BY <1>1
  <1>4. /\ Range(Append(u, j)) = Range(u) \cup {j}
        /\ Distinct(u) /\ j \notin Range(u) => Distinct(Append(u, j))
    BY ListAppend
  <1>5. JobsOf(Append(q, r)) = Append(u, j)
    BY <1>2, <1>3, JobsOfAppend
  <1> QED BY <1>2, <1>3, <1>4, <1>5

LEMMA RequestTail ==
  ASSUME NEW q \in Seq(Request), q # <<>>, Distinct(JobsOf(q))
  PROVE  /\ Head(q).job \in Range(JobsOf(q)) /\ Head(q).job \in Job
         /\ Listing(JobsOf(Tail(q)), Range(JobsOf(q)) \ {Head(q).job})
  <1>1. JobsOf(q) \in Seq(Job)
    BY JobsOfType
  <1> QED BY <1>1, JobsOfTail, ListTail

LEMMA StartedJobs ==
  ASSUME CoreInv, JobInv, NEW j \in Job, NEW n \in Task, NEW p \in Prio,
         TaskStarts(n, j, p), OtherTasks(n), j \notin OnTasks
  PROVE  /\ OnTasks' = OnTasks \cup {j}
         /\ \A t, u \in Task : ctx'[t].state # "free" /\ ctx'[u].state # "free"
                          /\ ctx'[t].job = ctx'[u].job => t = u
  <1>1. ctx[n].state = "free" /\ n # running
    BY StartsLists DEF FreeTasks
  <1>2. /\ ctx'[n].state = "runnable" /\ ctx'[n].job = j
        /\ \A u \in Task : u # n => ctx'[u] = ctx[u]
    BY DEF TaskStarts, OtherTasks
  <1>3. OnTasks' = OnTasks \cup {j}
    BY <1>1, <1>2 DEF OnTasks
  <1>4. \A u \in Task : u # n /\ ctx[u].state # "free" => ctx[u].job # j
    BY DEF OnTasks
  <1> QED BY <1>2, <1>3, <1>4 DEF JobInv

LEMMA JobStartsJob ==
  ASSUME CoreInv, JobInv, NEW j \in Job, JobHeld(j) \/ NoTaskLeft \/ JobStarts(j),
         j \notin OnTasks, j \notin Range(wait),
         j \notin Range(JobsOf(requests')), j \notin Range(Starting'),
         Distinct(JobsOf(requests')), Distinct(Starting'),
         Apart(Range(wait), Range(JobsOf(requests')), Range(Starting'), OnTasks),
         \A i \in Range(wait) \cup Range(JobsOf(requests')) \cup Range(Starting')
                    \cup OnTasks \cup {j} : progress'[i].at = "born",
         \A i \in Job : progress'[i].at # "unborn" => i \in use'.jobs
  PROVE  JobInv'
  <1>1. CASE JobHeld(j)
    <2>1. wait \in Seq(Job) /\ wait' = Append(wait, j) /\ ctx' = ctx
      BY <1>1 DEF CoreInv, TypeInv, JobHeld
    <2>2. Distinct(wait') /\ Range(wait') = Range(wait) \cup {j}
      BY <2>1, ListAppend DEF JobInv
    <2>3. OnTasks' = OnTasks
      BY <2>1 DEF OnTasks
    <2>4. Apart(Range(wait'), Range(JobsOf(requests')), Range(Starting'), OnTasks')
      BY <2>2, <2>3 DEF Apart
    <2> QED BY <2>1, <2>2, <2>3, <2>4 DEF JobInv
  <1>2. CASE NoTaskLeft
    <2>1. OnTasks' = OnTasks /\ ctx' = ctx /\ wait' = wait
      BY <1>2 DEF OnTasks, NoTaskLeft
    <2> QED BY <2>1 DEF JobInv
  <1>3. CASE JobStarts(j)
    <2>1. /\ OnTasks' = OnTasks \cup {j} /\ wait' = wait
          /\ \A t, u \in Task : ctx'[t].state # "free" /\ ctx'[u].state # "free"
                          /\ ctx'[t].job = ctx'[u].job => t = u
      BY <1>3, StartedJobs DEF JobStarts
    <2>2. Apart(Range(wait'), Range(JobsOf(requests')), Range(Starting'), OnTasks')
      BY <2>1 DEF Apart
    <2> QED BY <2>1, <2>2 DEF JobInv
  <1> QED BY <1>1, <1>2, <1>3

(* No job changes its place.                                               *)
LEMMA JobsStay ==
  ASSUME JobInv, UNCHANGED <<wait, requests, use>>, Starting' = Starting,
         \A t \in Task : ctx'[t].job = ctx[t].job
                         /\ (ctx'[t].state = "free" <=> ctx[t].state = "free"),
         \A j \in Job : progress'[j].at = progress[j].at,
         Range(wait) \cup Range(JobsOf(requests)) \cup Range(Starting) \subseteq Job
  PROVE  JobInv'
  <1>1. OnTasks' = OnTasks
    BY DEF OnTasks
  <1>2. OnTasks \subseteq Job
    BY DEF OnTasks
  <1> QED BY <1>1, <1>2 DEF JobInv

LEMMA PlacesType ==
  ASSUME TypeInv
  PROVE  /\ Range(wait) \cup Range(JobsOf(requests)) \cup Range(Starting) \subseteq Job
         /\ OnTasks \subseteq Job
         /\ wait \in Seq(Job) /\ JobsOf(requests) \in Seq(Job) /\ Starting \in Seq(Job)
  <1>1. wait \in Seq(Job) /\ JobsOf(requests) \in Seq(Job)
    BY JobsOfType DEF TypeInv
  <1>2. Starting \in Seq(Job)
    BY JobsOfType, ListEmpty DEF Starting, TypeInv
  <1>3. OnTasks \subseteq Job
    BY DEF OnTasks
  <1> QED BY <1>1, <1>2, <1>3, RangeOf

LEMMA JobNext ==
  ASSUME CoreInv, JobInv, Next
  PROVE  JobInv'
  <1>a. /\ Range(wait) \cup Range(JobsOf(requests)) \cup Range(Starting) \subseteq Job
        /\ wait \in Seq(Job) /\ OnTasks \subseteq Job
    BY PlacesType DEF CoreInv
  <1>b. ASSUME UNCHANGED core
        PROVE  Starting' = Starting
    BY <1>b DEF Starting, core
  <1>c. ASSUME UNCHANGED ctx
        PROVE  \A t \in Task : ctx'[t].job = ctx[t].job
                         /\ (ctx'[t].state = "free" <=> ctx[t].state = "free")
    BY <1>c
  <1>d. ASSUME UNCHANGED progress
        PROVE  \A j \in Job : progress'[j].at = progress[j].at
    BY <1>d
  <1>1. CASE schedule_task_get
    <2>1. PICK h \in Handle : Gets(running, h)
      BY <1>1, GetEffect
    <2>2. \A t \in Task : ctx'[t].job = ctx[t].job
                         /\ (ctx'[t].state = "free" <=> ctx[t].state = "free")
      BY <2>1 DEF Gets, OtherTasks
    <2> QED BY <1>a, <1>b, <2>1, <2>2, JobsStay DEF Gets
  <1>2. CASE schedule_task_reset
    <2>1. Resets(running)
      BY <1>2, ResetEffect
    <2>2. \A t \in Task : ctx'[t].job = ctx[t].job
                         /\ (ctx'[t].state = "free" <=> ctx[t].state = "free")
      BY <2>1 DEF Resets, OtherTasks
    <2> QED BY <1>a, <1>b, <1>d, <2>1, <2>2, JobsStay DEF Resets
  <1>3. CASE schedule_yield1
    <2>1. Yields(running)
      BY <1>3, YieldEffect
    <2>2. ctx[running].state = "running"
      BY <2>1 DEF Yields, CoreInv, ListInv
    <2>3. \A t \in Task : ctx'[t].job = ctx[t].job
                         /\ (ctx'[t].state = "free" <=> ctx[t].state = "free")
      BY <2>1, <2>2 DEF Yields, OtherTasks
    <2> QED BY <1>a, <1>b, <1>d, <2>1, <2>3, JobsStay DEF Yields
  <1>4. CASE Finish
    <2>1. PICK t \in Task : running = t
      BY <1>4 DEF Finish, CoreInv, TypeInv
    <2>2. ASSUME TaskEnds(t)
          PROVE  /\ ctx[t].state = "running" /\ ctx[t].job \in OnTasks
                 /\ \A u \in Task : u # t /\ ctx[u].state # "free" => ctx[u].job # ctx[t].job
                 /\ Starting' = Starting /\ requests' = requests
                 /\ \A j \in Job : j # ctx[t].job => progress'[j] = progress[j]
                 /\ \A j \in Job : progress'[j].at # "unborn" => j \in use'.jobs
                 /\ progress[ctx[t].job].at = "born"
      <3>1. ctx[t].state = "running" /\ ctx[t].job \in OnTasks
        BY <2>1, <2>2 DEF CoreInv, ListInv, OnTasks, TaskEnds
      <3>2. \A u \in Task : u # t /\ ctx[u].state # "free" => ctx[u].job # ctx[t].job
        BY <3>1 DEF JobInv
      <3>3. progress[ctx[t].job].at = "born"
        BY <3>1 DEF JobInv
      <3>4. \A j \in Job : progress'[j].at # "unborn" => j \in use'.jobs
        BY <2>2, <3>3 DEF JobInv, TaskEnds
      <3> QED BY <1>b, <2>2, <3>1, <3>2, <3>3, <3>4 DEF TaskEnds
    <2>3. CASE EndsAlone(t)
      <3>1. TaskEnds(t) /\ wait' = wait
        BY <2>3 DEF EndsAlone
      <3>2. OnTasks' = OnTasks \ {ctx[t].job}
        <4>1. ctx'[t].state = "free" /\ \A u \in Task : u # t => ctx'[u] = ctx[u]
          BY <2>3 DEF EndsAlone, TaskEnds, OtherTasks
        <4>2. \A u \in Task : u # t /\ ctx[u].state # "free" => ctx[u].job # ctx[t].job
          BY <2>2, <3>1
        <4> QED BY <4>1, <4>2 DEF OnTasks
      <3>3. \A u, v \in Task : ctx'[u].state # "free" /\ ctx'[v].state # "free"
                          /\ ctx'[u].job = ctx'[v].job => u = v
        BY <2>3 DEF JobInv, EndsAlone, TaskEnds, OtherTasks
      <3>4. Apart(Range(wait'), Range(JobsOf(requests')), Range(Starting'), OnTasks')
        BY <2>2, <3>1, <3>2 DEF JobInv, Apart
      <3>5. \A j \in Range(wait') \cup Range(JobsOf(requests')) \cup Range(Starting') \cup OnTasks' :
              j # ctx[t].job /\ j \in Job /\ progress[j].at = "born"
        BY <1>a, <2>2, <3>1, <3>2 DEF JobInv, Apart
      <3> QED BY <2>2, <3>1, <3>3, <3>4, <3>5 DEF JobInv
    <2>4. ASSUME NEW n \in Task, NEW p \in Prio, EndsAndStarts(t, n, p)
          PROVE  JobInv'
      <3>1. TaskEnds(t) /\ wait' = Tail(wait) /\ wait # <<>> /\ n # t
        BY <2>4 DEF EndsAndStarts
      <3>2. PICK j \in Job : j = Head(wait) /\ j \in Range(wait)
                             /\ Listing(wait', Range(wait) \ {j})
        BY <1>a, <3>1, ListTail DEF JobInv
      <3>3. j \notin OnTasks /\ j # ctx[t].job
        BY <2>2, <3>1, <3>2 DEF JobInv, Apart
      <3>4. TaskStarts(n, j, p) /\ ctx[n].state = "free"
        BY <2>4, <3>2, StartsLists DEF EndsAndStarts, FreeTasks
      <3>5. /\ ctx'[n].state = "runnable" /\ ctx'[n].job = j /\ ctx'[t].state = "free"
            /\ \A u \in Task : u # t /\ u # n => ctx'[u] = ctx[u]
        BY <2>4, <3>4 DEF EndsAndStarts, TaskStarts, TaskEnds
      <3>6. OnTasks' = (OnTasks \ {ctx[t].job}) \cup {j}
        BY <2>2, <3>1, <3>3, <3>4, <3>5 DEF OnTasks
      <3>7. \A u \in Task : u # n /\ u # t /\ ctx[u].state # "free" => ctx[u].job # j
        BY <3>3 DEF OnTasks
      <3>8. \A u, v \in Task : ctx'[u].state # "free" /\ ctx'[v].state # "free"
                          /\ ctx'[u].job = ctx'[v].job => u = v
        BY <3>5, <3>7 DEF JobInv
      <3>9. Range(wait') = Range(wait) \ {j} /\ Distinct(wait')
        BY <3>2 DEF Listing
      <3>10. Apart(Range(wait'), Range(JobsOf(requests')), Range(Starting'), OnTasks')
        BY <2>2, <3>1, <3>2, <3>6, <3>9 DEF JobInv, Apart
      <3>11. \A i \in Range(wait') \cup Range(JobsOf(requests')) \cup Range(Starting') \cup OnTasks' :
              i # ctx[t].job /\ i \in Job /\ progress[i].at = "born"
        BY <1>a, <2>2, <3>1, <3>2, <3>3, <3>6, <3>9 DEF JobInv, Apart
      <3> QED BY <2>2, <3>1, <3>8, <3>9, <3>10, <3>11 DEF JobInv
    <2> QED BY <1>4, <2>1, <2>3, <2>4, FinishEffect
  <1>5. CASE schedule_run
    <2>1. Starting' = Starting
      BY <1>5 DEF schedule_run, Starting
    <2> QED BY <1>a, <1>c, <1>d, <1>5, <2>1, JobsStay DEF schedule_run, tasks
  <1>6. CASE reply_local_run
    <2>1. Starting' = Starting
      BY <1>6 DEF reply_local_run, Starting
    <2> QED BY <1>a, <1>c, <1>d, <1>6, <2>1, JobsStay DEF reply_local_run, tasks
  <1>7. CASE reply_remote_run
    <2>1. Starting' = Starting
      BY <1>7 DEF reply_remote_run, Starting
    <2> QED BY <1>a, <1>c, <1>d, <1>7, <2>1, JobsStay DEF reply_remote_run, tasks
  <1>8. CASE schedule_exec
    <2>1. PICK h \in Handle :
           /\ Handles(h)
           /\ \/ UNCHANGED <<ctx, runable>>
              \/ \E p \in Prio : Resumes(h, p)
      BY <1>8, ExecEffect
    <2>2. Starting' = Starting
      BY <2>1 DEF Handles, Starting
    <2>3. \A t \in Task : ctx'[t].job = ctx[t].job
                         /\ (ctx'[t].state = "free" <=> ctx[t].state = "free")
      BY <2>1 DEF Resumes, OtherTasks
    <2> QED BY <1>a, <1>d, <2>1, <2>2, <2>3, JobsStay DEF Handles
  <1>9. CASE task_run
    <2>1. PICK t \in Task, p \in Prio : Switches(t, p)
      BY <1>9, RunEffect
    <2>2. \A u \in Task : ctx'[u].job = ctx[u].job
                         /\ (ctx'[u].state = "free" <=> ctx[u].state = "free")
      BY <2>1, SwitchesLists DEF Switches, OtherTasks
    <2>3. Starting' = Starting
      BY <2>1 DEF Switches, Starting
    <2> QED BY <1>a, <1>d, <2>1, <2>2, <2>3, JobsStay DEF Switches
  <1>10. CASE task_run_end
    <2>1. /\ ctx' = ctx /\ wait' = wait /\ progress' = progress /\ use' = use
          /\ Starting = <<>>
      BY <1>10 DEF task_run_end, tasks, Starting
    <2>2. OnTasks' = OnTasks
      BY <2>1 DEF OnTasks
    <2>3. CASE ran
      <3>1. Starting' = Starting /\ requests' = requests
        BY <1>10, <2>3 DEF task_run_end, Starting
      <3> QED BY <1>a, <1>c, <1>d, <2>1, <3>1, JobsStay
    <2>4. CASE ~ran
      <3>1. requests' = <<>> /\ batch' = requests
            /\ phase' = IF requests = <<>> THEN "check" ELSE "start"
        BY <1>10, <2>4 DEF task_run_end
      <3>2. Starting' = JobsOf(requests)
        BY <3>1, JobsOfEmpty DEF Starting
      <3>3. Range(JobsOf(requests')) = {} /\ Distinct(JobsOf(requests'))
        BY <3>1, JobsOfEmpty, ListEmpty
      <3>4. Apart(Range(wait'), Range(JobsOf(requests')), Range(Starting'), OnTasks')
        BY <2>1, <2>2, <3>2, <3>3 DEF JobInv, Apart
      <3> QED BY <2>1, <2>2, <3>2, <3>3, <3>4 DEF JobInv
    <2> QED BY <2>3, <2>4
  <1>11. CASE request_queue_run
    <2>1. PICK r \in Request : Requested(r)
      BY <1>11, RequestedEffect
    <2>2. PICK j \in Job : j = r.job
      BY DEF Request
    <2>3. Starting = JobsOf(batch) /\ requests' = requests /\ progress' = progress /\ use' = use
      BY <2>1 DEF Requested, Starting
    <2>4. Starting' = JobsOf(Tail(batch))
      BY <2>1, JobsOfEmpty DEF Requested, Starting
    <2>5. j \in Range(Starting) /\ Listing(Starting', Range(Starting) \ {j})
      BY <2>1, <2>2, <2>3, <2>4, RequestTail DEF Requested, JobInv
    <2>6. Distinct(Starting') /\ Range(Starting') = Range(Starting) \ {j}
      BY <2>5 DEF Listing
    <2>7. Apart(Range(wait), Range(JobsOf(requests')), Range(Starting'), OnTasks)
      BY <2>3, <2>6 DEF JobInv, Apart
    <2>8. /\ j \notin OnTasks /\ j \notin Range(wait)
          /\ j \notin Range(JobsOf(requests')) /\ j \notin Range(Starting')
      BY <2>3, <2>5, <2>6 DEF JobInv, Apart
    <2>9. /\ \A i \in Range(wait) \cup Range(JobsOf(requests')) \cup Range(Starting')
                    \cup OnTasks \cup {j} : progress'[i].at = "born"
          /\ \A i \in Job : progress'[i].at # "unborn" => i \in use'.jobs
          /\ Distinct(JobsOf(requests'))
      BY <2>3, <2>5, <2>6 DEF JobInv
    <2>10. JobHeld(j) \/ NoTaskLeft \/ JobStarts(j)
      BY <2>1, <2>2 DEF Requested
    <2> QED BY <2>6, <2>7, <2>8, <2>9, <2>10, JobStartsJob
  <1>12. ASSUME NEW j \in Job, Comes(j)
         PROVE  /\ j \notin OnTasks /\ j \notin Range(wait)
                /\ j \notin Range(JobsOf(requests)) /\ j \notin Range(Starting)
                /\ \A i \in Range(wait) \cup Range(JobsOf(requests)) \cup Range(Starting)
                    \cup OnTasks \cup {j} : progress'[i].at = "born"
                /\ \A i \in Job : progress'[i].at # "unborn" => i \in use.jobs
    <2>1. progress[j].at # "born"
      BY <1>12 DEF Comes
    <2>2. /\ j \notin OnTasks /\ j \notin Range(wait)
          /\ j \notin Range(JobsOf(requests)) /\ j \notin Range(Starting)
      BY <2>1 DEF JobInv
    <2>3. \A i \in Range(wait) \cup Range(JobsOf(requests)) \cup Range(Starting) \cup OnTasks :
             i \in Job /\ i # j /\ progress[i].at = "born"
      BY <1>a, <2>2 DEF JobInv
    <2> QED BY <1>12, <2>2, <2>3 DEF Comes, JobInv
  <1>13. ASSUME NEW j \in use.jobs, NEW p \in Prio \cup {-1}, schedule_task_new(j, p)
         PROVE  JobInv'
    <2>1. NewTask(j)
      BY <1>13, NewTaskEffect DEF CoreInv
    <2>2. j \in Job /\ Starting' = Starting /\ requests' = requests /\ use' = use
      BY <1>b, <2>1 DEF NewTask, Comes
    <2> QED BY <1>12, <2>1, <2>2, JobStartsJob DEF NewTask, JobInv
  <1>14. ASSUME NEW j \in use.jobs, NEW p \in Prio \cup {-1}, schedule_request(j, p)
         PROVE  JobInv'
    <2>1. PICK r \in Request : NewRequest(j, r)
      BY <1>14, NewRequestEffect DEF CoreInv
    <2>2. /\ j \in Job /\ Starting' = Starting /\ use' = use /\ r.job = j
          /\ wait' = wait /\ ctx' = ctx /\ Comes(j)
      BY <1>b, <2>1 DEF NewRequest, Comes
    <2>3. OnTasks' = OnTasks
      BY <2>2 DEF OnTasks
    <2>4. requests \in Seq(Request) /\ requests' = Append(requests, r)
      BY <2>1 DEF NewRequest, CoreInv, TypeInv
    <2>5. /\ Distinct(JobsOf(requests'))
          /\ Range(JobsOf(requests')) = Range(JobsOf(requests)) \cup {j}
      BY <1>12, <2>2, <2>4, RequestAppend DEF JobInv
    <2>6. Apart(Range(wait'), Range(JobsOf(requests')), Range(Starting'), OnTasks')
      BY <1>12, <2>2, <2>3, <2>5 DEF JobInv, Apart
    <2> QED BY <1>12, <2>2, <2>3, <2>5, <2>6 DEF JobInv
  <1>15. ASSUME NEW h \in waits, ResumeLocal(h)
         PROVE  JobInv'
    BY <1>a, <1>b, <1>c, <1>d, <1>15, JobsStay DEF ResumeLocal
  <1>16. ASSUME NEW h \in waits, ResumeRemote(h)
         PROVE  JobInv'
    BY <1>a, <1>b, <1>c, <1>d, <1>16, JobsStay DEF ResumeRemote
  <1> QED
    BY <1>1, <1>2, <1>3, <1>4, <1>5, <1>6, <1>7, <1>8, <1>9, <1>10, <1>11, <1>13,
       <1>14, <1>15, <1>16 DEF Next, TaskStep, LoopStep, Submit, Answer

LEMMA JobInit == Init => JobInv
  <1> SUFFICES ASSUME Init PROVE JobInv
    OBVIOUS
  <1>1. wait = <<>> /\ requests = <<>> /\ Starting = <<>>
    BY DEF Init, Starting
  <1>2. \A t \in Task : ctx[t].state = "free"
    BY DEF Init
  <1>3. OnTasks = {}
    BY <1>2 DEF OnTasks
  <1>4. Distinct(wait) /\ Distinct(JobsOf(requests)) /\ Distinct(Starting)
    BY <1>1, ListEmpty, JobsOfEmpty
  <1>5. Range(wait) = {} /\ Range(JobsOf(requests)) = {} /\ Range(Starting) = {}
    BY <1>1, ListEmpty, JobsOfEmpty
  <1>6. \A j \in Job : progress[j].at = "unborn"
    BY DEF Init
  <1> QED BY <1>2, <1>3, <1>4, <1>5, <1>6 DEF JobInv, Apart

LEMMA JobStutter == CoreInv /\ JobInv /\ UNCHANGED vars => JobInv'
  <1> SUFFICES ASSUME CoreInv, JobInv, UNCHANGED vars PROVE JobInv'
    OBVIOUS
  <1>1. UNCHANGED <<ctx, wait, requests, use, progress, phase, batch>>
    BY DEF vars, core
  <1>2. Starting' = Starting
    BY <1>1 DEF Starting
  <1>3. /\ \A t \in Task : ctx'[t].job = ctx[t].job
                         /\ (ctx'[t].state = "free" <=> ctx[t].state = "free")
        /\ \A j \in Job : progress'[j].at = progress[j].at
    BY <1>1
  <1> QED BY <1>1, <1>2, <1>3, JobsStay, PlacesType DEF CoreInv

-----------------------------------------------------------------------------
(* Where a handle is.                                                      *)

Replies == IF phase = "exec" THEN batch ELSE <<>>
Out == waits \cup Range(local) \cup Range(remote) \cup Range(Replies)

Waiting(t) == ctx[t].state = "suspend" \/ ctx[t].pre_yield

(* A handle that is still good: its task has not come back from the wait.  *)
Good(h) ==
  /\ h.fp = ctx[h.task].fp /\ h.fp # 0
  /\ h.answer = <<ctx[h.task].job, progress[ctx[h.task].job].waits>>
  /\ Waiting(h.task)

(* One whose wait was given up: the task has ended since, has gone on to   *)
(* another fingerprint, or is still running with this one and must take a  *)
(* new one before it can suspend itself.                                   *)
Stale(h) ==
  /\ use.shared /\ h.fp # 0
  /\ \/ ctx[h.task].state = "free" /\ ctx[h.task].fp = 0
     \/ ctx[h.task].state # "free" /\ h.fp < ctx[h.task].fp
     \/ /\ ctx[h.task].state = "running" /\ ctx[h.task].pre_yield = FALSE
        /\ h.fp = ctx[h.task].fp

(* Every handle is in one place.  Those that nobody has resumed yet are    *)
(* good; a local reply is one to a suspended task; only the remote replies *)
(* may hold stale ones.  A task that waits or is about to has a good one.  *)
HandleInv ==
  /\ Distinct(local) /\ Distinct(remote) /\ Distinct(Replies)
  /\ Apart(waits, Range(local), Range(remote), Range(Replies))
  /\ \A h \in waits : Good(h)
  /\ \A h \in Range(local) : Good(h) /\ ctx[h.task].state = "suspend"
  /\ \A h \in Out : Good(h) \/ Stale(h)
  /\ \A t \in Task : Waiting(t) => \E h \in Out : h.task = t /\ Good(h)
  /\ AnswerIsOwn
  /\ aborted # "reply_queue_full" /\ aborted # "resumed_task_is_not_suspended"

(* What the fingerprint, which starts from zero with every task, cannot    *)
(* see to: that a free task is started while a reply to a job it ran       *)
(* before is still on its way.                                             *)
FreshStart ==
  \A t \in Task : ctx[t].state = "free" /\ ctx'[t].state # "free" =>
     \A h \in Out : h.task # t

LEMMA OutType ==
  ASSUME TypeInv
  PROVE  /\ Replies \in Seq(Handle) /\ Out \subseteq Handle
         /\ local \in Seq(Handle) /\ remote \in Seq(Handle)
         /\ \A h \in Out : h.task \in Task
  <1>1. Replies \in Seq(Handle)
    BY ListEmpty DEF TypeInv, Replies
  <1>2. Out \subseteq Handle
    BY <1>1, RangeOf DEF TypeInv, Out
  <1>3. \A h \in Handle : h.task \in Task
    BY DEF Handle
  <1> QED BY <1>1, <1>2, <1>3 DEF TypeInv

(* A task has one good handle at most.                                     *)
LEMMA GoodUnique ==
  ASSUME TypeInv, NEW h \in Out, NEW g \in Out, h.task = g.task, Good(h), Good(g)
  PROVE  h = g
  <1>1. h \in Handle /\ g \in Handle
    BY OutType
  <1>2. h.fp = g.fp /\ h.answer = g.answer
    BY DEF Good
  <1> QED BY <1>1, <1>2 DEF Handle

(* A stale handle does not fit a task that waits.                          *)
LEMMA StaleDiffers ==
  ASSUME CoreInv, NEW h \in Out, Stale(h)
  PROVE  /\ ~Good(h)
         /\ ctx[h.task].state # "running" => h.fp # ctx[h.task].fp
         /\ ctx[h.task].state # "free" => h.fp <= ctx[h.task].fp
  <1>1. PICK t \in Task : t = h.task
    BY OutType DEF CoreInv
  <1>2. h.fp \in Nat /\ ctx[t].fp \in Nat
    BY <1>1, OutType DEF CoreInv, TypeInv, Ctx, Handle
  <1>3. ctx[t].pre_yield => ctx[t].state = "running"
    BY DEF CoreInv, ListInv
  <1>4. Waiting(t) => h.fp # ctx[t].fp
    BY <1>1, <1>2, <1>3 DEF Stale, Waiting
  <1>5. ~Good(h)
    BY <1>1, <1>4 DEF Good
  <1> QED BY <1>1, <1>2, <1>5 DEF Stale

(* What a task and its job keep when it waits, or is done waiting.         *)
WaitKept(t) ==
  /\ Waiting(t)' => Waiting(t)
  /\ Waiting(t) => /\ Waiting(t)' /\ ctx'[t].fp = ctx[t].fp /\ ctx'[t].job = ctx[t].job
                   /\ progress'[ctx[t].job].waits = progress[ctx[t].job].waits
  /\ ctx[t].state = "suspend" => ctx'[t].state = "suspend"

StaleKept(t) == \A h \in Out : h.task = t /\ Stale(h) => Stale(h)'

AnswerKept(t) ==
  \/ ctx'[t].state # "runnable" \/ ctx'[t].yielded = FALSE
  \/ /\ ctx'[t].state = ctx[t].state /\ ctx'[t].yielded = ctx[t].yielded
     /\ ctx'[t].answer = ctx[t].answer /\ ctx'[t].job = ctx[t].job
     /\ progress'[ctx[t].job].waits = progress[ctx[t].job].waits

Kept(t) == WaitKept(t) /\ StaleKept(t) /\ AnswerKept(t)

LEMMA AnswersStay ==
  ASSUME HandleInv, \A t \in Task : AnswerKept(t)
  PROVE  AnswerIsOwn'
  BY DEF HandleInv, AnswerIsOwn, AnswerKept

LEMMA GoodStays ==
  ASSUME NEW h, Good(h), WaitKept(h.task)
  PROVE  Good(h)'
  BY DEF Good, WaitKept, Waiting

(* No handle changes its place.                                            *)
LEMMA HandlesStay ==
  ASSUME TypeInv, HandleInv, UNCHANGED <<waits, local, remote>>, Replies' = Replies,
         \A t \in Task : Kept(t),
         aborted' # "reply_queue_full", aborted' # "resumed_task_is_not_suspended"
  PROVE  HandleInv'
  <1>1. Out' = Out
    BY DEF Out
  <1>2. \A h \in Out : Good(h) => Good(h)'
    BY GoodStays, OutType DEF Kept
  <1>3. \A h \in waits : Good(h)'
    BY <1>2 DEF HandleInv, Out
  <1>4. \A h \in Range(local) : Good(h)' /\ ctx'[h.task].state = "suspend"
    <2> SUFFICES ASSUME NEW h \in Range(local)
                 PROVE  Good(h)' /\ ctx'[h.task].state = "suspend"
      OBVIOUS
    <2>1. h \in Out
      BY DEF Out
    <2>2. h.task \in Task
      BY <2>1, OutType
    <2> QED BY <1>2, <2>1, <2>2 DEF HandleInv, Kept, WaitKept
  <1>5. \A h \in Out : Good(h)' \/ Stale(h)'
    BY <1>2, OutType DEF HandleInv, Kept, StaleKept
  <1>6. \A t \in Task : Waiting(t)' => \E h \in Out : h.task = t /\ Good(h)'
    BY <1>2 DEF HandleInv, Kept, WaitKept
  <1>7. AnswerIsOwn'
    BY AnswersStay DEF Kept
  <1> QED BY <1>1, <1>3, <1>4, <1>5, <1>6, <1>7 DEF HandleInv

(* A task that waits neither before nor after.                             *)
LEMMA FreeKept ==
  ASSUME CoreInv, NEW t \in Task, ctx[t].state \in {"free", "running", "runnable"},
         ctx[t].pre_yield = FALSE \/ running # t,
         ctx'[t].state # "suspend", ctx'[t].pre_yield = FALSE
  PROVE  WaitKept(t)
  <1>1. ~Waiting(t)
    BY DEF CoreInv, ListInv, Waiting
  <1>2. ~Waiting(t)'
    BY DEF Waiting
  <1> QED BY <1>1, <1>2 DEF WaitKept

LEMMA SameKept ==
  ASSUME NEW t \in Task, ctx'[t] = ctx[t],
         ctx[t].state # "free" => progress'[ctx[t].job].waits = progress[ctx[t].job].waits,
         CoreInv, use' = use
  PROVE  Kept(t)
  <1>1. Waiting(t) => ctx[t].state # "free"
    BY DEF Waiting, CoreInv, ListInv
  <1>2. Waiting(t)' <=> Waiting(t)
    BY DEF Waiting
  <1>3. StaleKept(t)
    BY DEF StaleKept, Stale
  <1>4. CASE ctx[t].state # "free"
    BY <1>2, <1>3, <1>4 DEF Kept, WaitKept, AnswerKept
  <1>5. CASE ctx[t].state = "free"
    BY <1>1, <1>2, <1>3, <1>5 DEF Kept, WaitKept, AnswerKept
  <1> QED BY <1>4, <1>5

(* A job is started: its task has no handle yet.                           *)
LEMMA StartKept ==
  ASSUME CoreInv, NEW j \in Job, NEW n \in Task, NEW p \in Prio, TaskStarts(n, j, p),
         FreshStart
  PROVE  Kept(n)
  <1>1. ctx[n].state = "free" /\ n # running
    BY StartsLists DEF FreeTasks
  <1>2. ctx'[n].state = "runnable" /\ ctx'[n].pre_yield = FALSE /\ ctx'[n].yielded = FALSE
    BY DEF TaskStarts
  <1>3. WaitKept(n)
    BY <1>1, <1>2, FreeKept
  <1>4. StaleKept(n)
    BY <1>1, <1>2 DEF FreshStart, StaleKept
  <1> QED BY <1>2, <1>3, <1>4 DEF Kept, AnswerKept

LEMMA JobStartsHandles ==
  ASSUME CoreInv, HandleInv, NEW j \in Job, JobHeld(j) \/ NoTaskLeft \/ JobStarts(j),
         \A i \in Job : progress'[i].waits = progress[i].waits,
         UNCHANGED <<waits, local, remote, use>>, Replies' = Replies, FreshStart
  PROVE  HandleInv'
  <1>1. aborted' # "reply_queue_full" /\ aborted' # "resumed_task_is_not_suspended"
    BY DEF JobHeld, NoTaskLeft, JobStarts, HandleInv
  <1>2. \A t \in Task : ctx[t].state # "free" =>
            progress'[ctx[t].job].waits = progress[ctx[t].job].waits
    BY DEF CoreInv, ListInv
  <1>3. CASE ctx' = ctx
    <2>1. \A t \in Task : Kept(t)
      BY <1>2, <1>3, SameKept
    <2> QED BY <1>1, <2>1, HandlesStay DEF CoreInv
  <1>4. CASE JobStarts(j)
    <2>1. PICK n \in Task, p \in Prio : TaskStarts(n, j, p) /\ OtherTasks(n)
      BY <1>4 DEF JobStarts
    <2>2. Kept(n)
      BY <2>1, StartKept
    <2>3. \A t \in Task : Kept(t)
      BY <1>2, <2>1, <2>2, SameKept DEF OtherTasks
    <2> QED BY <1>1, <2>3, HandlesStay DEF CoreInv
  <1> QED BY <1>3, <1>4 DEF JobHeld, NoTaskLeft

(* The replies fit in their array: one task is still awaited, and of every *)
(* other one there is a reply at most.                                     *)
LEMMA LocalFits ==
  ASSUME CoreInv, HandleInv, NEW h \in waits
  PROVE  Len(local) # TaskMax
  <1> SUFFICES ASSUME Len(local) = TaskMax PROVE FALSE
    OBVIOUS
  <1>1. TaskMax \in Nat /\ local \in Seq(Handle) /\ h \in Handle /\ h.task \in Task
    BY ScheduleAssumption DEF CoreInv, TypeInv, Handle
  <1>2. \A i \in Task : local[i] \in Handle /\ local[i] \in Range(local)
    BY <1>1, RangeOf DEF Task
  <1>3. \A i \in Task : local[i] \in Out /\ local[i].task \in Task /\ Good(local[i])
    BY <1>2 DEF Out, Handle, HandleInv
  <1>4. h \in Out /\ Good(h)
    BY DEF Out, HandleInv
  <1>5. \A i \in Task : local[i].task # h.task
    <2> SUFFICES ASSUME NEW i \in Task, local[i].task = h.task PROVE FALSE
      OBVIOUS
    <2>1. local[i] = h
      BY <1>3, <1>4, GoodUnique DEF CoreInv
    <2> QED BY <1>2, <2>1 DEF HandleInv, Apart
  <1>6. \A i, k \in Task : local[i].task = local[k].task => i = k
    <2> SUFFICES ASSUME NEW i \in Task, NEW k \in Task, local[i].task = local[k].task
                 PROVE  i = k
      OBVIOUS
    <2>1. local[i] = local[k]
      BY <1>3, GoodUnique DEF CoreInv
    <2> QED BY <1>1, <2>1 DEF HandleInv, Distinct, Task
  <1> DEFINE T == Task \ {h.task}
             f == [i \in Task |-> local[i].task]
  <1>7. f \in [Task -> T]
    BY <1>3, <1>5
  <1>8. IsFiniteSet(Task) /\ Cardinality(Task) = TaskMax
    <2>1. TaskMax >= 1
      BY <1>1 DEF Task
    <2> QED BY <1>1, <2>1, FS_Interval DEF Task
  <1>9. IsFiniteSet(T) /\ Cardinality(T) = TaskMax - 1
    BY <1>1, <1>8, FS_RemoveElement
  <1>10. Cardinality(T) < Cardinality(Task)
    BY <1>1, <1>8, <1>9
  <1> HIDE DEF T, f
  <1>11. \E i, k \in Task : i # k /\ f[i] = f[k]
    BY <1>7, <1>8, <1>9, <1>10, FS_PigeonHole
  <1>12. \A i \in Task : f[i] = local[i].task
    BY DEF f
  <1> QED BY <1>6, <1>11, <1>12

(* The whole queue is taken over.                                          *)
LEMMA TakenOver ==
  ASSUME CoreInv, HandleInv, UNCHANGED <<waits, ctx, progress, aborted, use>>,
         Replies = <<>>,
         \/ Replies' = local /\ local' = <<>> /\ remote' = remote
         \/ Replies' = remote /\ remote' = <<>> /\ local' = local
  PROVE  HandleInv'
  <1>1. Range(<<>>) = {} /\ Distinct(<<>>)
    BY ListEmpty
  <1>2. Out' = Out
    BY <1>1 DEF Out
  <1>3. Apart(waits', Range(local'), Range(remote'), Range(Replies'))
    BY <1>1 DEF HandleInv, Apart
  <1>4. Distinct(local') /\ Distinct(remote') /\ Distinct(Replies')
    BY <1>1 DEF HandleInv
  <1>5. /\ \A h \in Out : (Good(h)' <=> Good(h)) /\ (Stale(h)' <=> Stale(h))
        /\ \A t \in Task : Waiting(t)' <=> Waiting(t)
    BY DEF Good, Stale, Waiting
  <1>6. \A h \in Range(local') : h \in Range(local) /\ h \in Out
    BY <1>1 DEF Out
  <1>7. AnswerIsOwn'
    BY DEF HandleInv, AnswerIsOwn
  <1>8. \A h \in waits : Good(h)'
    BY <1>5 DEF HandleInv, Out
  <1> QED BY <1>2, <1>3, <1>4, <1>5, <1>6, <1>7, <1>8 DEF HandleInv

(* A handle goes into one of the queues.                                   *)
LEMMA Resumed ==
  ASSUME CoreInv, HandleInv, NEW h \in waits, waits' = waits \ {h},
         UNCHANGED <<ctx, progress, aborted, use>>, Replies' = Replies,
         \/ local' = Append(local, h) /\ remote' = remote /\ ctx[h.task].state = "suspend"
         \/ remote' = Append(remote, h) /\ local' = local
  PROVE  HandleInv'
  <1>1. h \in Handle /\ local \in Seq(Handle) /\ remote \in Seq(Handle)
    BY DEF CoreInv, TypeInv
  <1>2. h \notin Range(local) /\ h \notin Range(remote) /\ h \notin Range(Replies)
    BY DEF HandleInv, Apart
  <1>3. /\ Range(Append(local, h)) = Range(local) \cup {h}
        /\ Range(Append(remote, h)) = Range(remote) \cup {h}
        /\ Distinct(Append(local, h)) /\ Distinct(Append(remote, h))
    BY <1>1, <1>2, ListAppend DEF HandleInv
  <1>4. Out' = Out
    BY <1>3 DEF Out
  <1>5. Apart(waits', Range(local'), Range(remote'), Range(Replies'))
    BY <1>2, <1>3 DEF HandleInv, Apart
  <1>6. Distinct(local') /\ Distinct(remote') /\ Distinct(Replies')
    BY <1>3 DEF HandleInv
  <1>7. /\ \A g \in Out : (Good(g)' <=> Good(g)) /\ (Stale(g)' <=> Stale(g))
        /\ \A t \in Task : Waiting(t)' <=> Waiting(t)
    BY DEF Good, Stale, Waiting
  <1>8. \A g \in waits' : Good(g)'
    BY <1>7 DEF HandleInv, Out
  <1>9. \A g \in Range(local') : Good(g)' /\ ctx'[g.task].state = "suspend"
    BY <1>3, <1>7 DEF HandleInv, Out
  <1>10. AnswerIsOwn'
    BY DEF HandleInv, AnswerIsOwn
  <1> QED BY <1>4, <1>5, <1>6, <1>7, <1>8, <1>9, <1>10 DEF HandleInv

LEMMA GetHandles ==
  ASSUME CoreInv, JobInv, HandleInv, NEW h \in Handle, NEW t \in Task, Gets(t, h)
  PROVE  HandleInv'
  <1>1. ctx[t].state = "running" /\ ctx[t].job \in Job /\ ~Waiting(t) /\ ctx[t].fp \in Nat
    BY DEF Gets, CoreInv, TypeInv, Ctx, ListInv, Waiting
  <1>2. Replies' = Replies /\ use' = use
    BY DEF Gets, core, Replies
  <1>3. \A g \in Out : g.task = t => Stale(g) /\ ~Good(g) /\ g.fp <= ctx[t].fp
    BY <1>1, StaleDiffers DEF CoreInv, HandleInv, Good
  <1>4. h \notin Out
    BY <1>1, <1>3 DEF Gets
  <1>5. Out' = Out \cup {h}
    BY <1>2 DEF Out, Gets
  <1>6. \A u \in Task : u # t /\ ctx[u].state # "free" =>
           progress'[ctx[u].job].waits = progress[ctx[u].job].waits
    <2>1. \A u \in Task : u # t /\ ctx[u].state # "free" => ctx[u].job # ctx[t].job
      BY <1>1 DEF JobInv
    <2> QED BY <2>1 DEF Gets, CoreInv, ListInv
  <1>7. \A u \in Task : u # t => Kept(u)
    BY <1>2, <1>6, SameKept DEF Gets, OtherTasks
  <1>8. AnswerKept(t)
    BY <1>1 DEF Gets, AnswerKept
  <1>9. AnswerIsOwn'
    BY <1>7, <1>8, AnswersStay DEF Kept
  <1>10. Good(h)' /\ h.task = t
    BY <1>1 DEF Gets, Good, Waiting
  <1>11. \A g \in Out : g.task = t => Stale(g)'
    <2> SUFFICES ASSUME NEW g \in Out, g.task = t PROVE Stale(g)'
      OBVIOUS
    <2>1. g \in Handle /\ Stale(g) /\ g.fp <= ctx[t].fp
      BY <1>3, OutType DEF CoreInv
    <2>2. g.fp < ctx'[t].fp
      BY <1>1, <2>1 DEF Gets, Handle
    <2> QED BY <1>1, <1>2, <2>1, <2>2 DEF Stale, Gets
  <1>12. \A g \in Out : Good(g) => g.task # t /\ Good(g)'
    BY <1>1, <1>7, GoodStays, OutType DEF Kept, Good, CoreInv
  <1>13. \A g \in Out' : Good(g)' \/ Stale(g)'
    <2> SUFFICES ASSUME NEW g \in Out PROVE Good(g)' \/ Stale(g)'
      BY <1>5, <1>10
    <2>1. g.task \in Task
      BY OutType DEF CoreInv
    <2> QED BY <1>7, <1>11, <1>12, <2>1 DEF HandleInv, Kept, StaleKept
  <1>14. \A u \in Task : Waiting(u)' => \E g \in Out' : g.task = u /\ Good(g)'
    <2> SUFFICES ASSUME NEW u \in Task, Waiting(u)', u # t
                 PROVE  \E g \in Out : g.task = u /\ Good(g)'
      BY <1>5, <1>10
    <2> QED BY <1>7, <1>12 DEF HandleInv, Kept, WaitKept
  <1>15. \A g \in waits' : Good(g)'
    BY <1>10, <1>12 DEF HandleInv, Gets, Out
  <1>16. \A g \in Range(local') : Good(g)' /\ ctx'[g.task].state = "suspend"
    <2> SUFFICES ASSUME NEW g \in Range(local)
                 PROVE  Good(g)' /\ ctx'[g.task].state = "suspend"
      BY DEF Gets
    <2>1. g \in Out /\ Good(g) /\ ctx[g.task].state = "suspend"
      BY DEF Out, HandleInv
    <2>2. g.task \in Task
      BY <2>1, OutType DEF CoreInv
    <2> QED BY <1>7, <1>12, <2>1, <2>2 DEF Kept, WaitKept
  <1>17. Apart(waits', Range(local'), Range(remote'), Range(Replies'))
    BY <1>2, <1>4 DEF HandleInv, Apart, Gets, Out
  <1> QED BY <1>2, <1>9, <1>13, <1>14, <1>15, <1>16, <1>17 DEF HandleInv, Gets

(* A wait is given up.  The handle is taken back where it is still out;    *)
(* where it was answered, the reply turns stale.                           *)
LEMMA ResetHandles ==
  ASSUME CoreInv, HandleInv, NEW t \in Task, Resets(t)
  PROVE  HandleInv'
  <1>1. ctx[t].state = "running" /\ running = t
    BY DEF Resets, CoreInv, ListInv
  <1>2. Replies' = Replies /\ local' = local /\ remote' = remote /\ use' = use
    BY DEF Resets, core, Replies
  <1>3. waits' = {h \in waits : h.task # t}
    BY <1>1 DEF Resets, Own, HandleInv, Good
  <1>4. \A g \in Range(local) : g.task # t
    BY <1>1 DEF HandleInv
  <1>5. \A u \in Task : u # t => Kept(u)
    BY <1>2, SameKept DEF Resets, OtherTasks
  <1>6. AnswerKept(t) /\ ~Waiting(t)'
    BY <1>1 DEF Resets, AnswerKept, Waiting
  <1>7. AnswerIsOwn'
    BY <1>5, <1>6, AnswersStay DEF Kept
  <1>8. \A g \in Out : g.task \in Task /\ (g.task # t /\ Good(g) => Good(g)')
    BY <1>5, GoodStays, OutType DEF Kept, CoreInv
  <1>9. Out' \subseteq Out /\ \A g \in Out : g.task # t => g \in Out'
    BY <1>2, <1>3 DEF Out
  <1>10. \A g \in Out' : g.task = t => Stale(g)'
    <2> SUFFICES ASSUME NEW g \in Out', g.task = t PROVE Stale(g)'
      OBVIOUS
    <2>1. g \in Out /\ g \notin waits
      <3>1. g \notin waits'
        BY <1>3
      <3>2. g \in Range(remote) \cup Range(Replies)
        BY <1>2, <1>4, <3>1 DEF Out
      <3> QED BY <3>2 DEF Out, HandleInv, Apart
    <2>2. CASE Stale(g)
      <3>1. ctx'[t].state = "running" /\ ctx'[t].fp = ctx[t].fp /\ ctx'[t].pre_yield = FALSE
        BY <1>1 DEF Resets
      <3> QED BY <1>1, <1>2, <2>2, <3>1 DEF Stale
    <2>3. CASE Good(g)
      <3>1. use.shared
        <4> SUFFICES ASSUME ~use.shared PROVE FALSE
          OBVIOUS
        <4>1. PICK h \in waits : h.task = t
          BY <1>1 DEF Resets, Own
        <4>2. h \in Out /\ Good(h)
          BY DEF Out, HandleInv
        <4>3. g = h
          BY <2>1, <2>3, <4>1, <4>2, GoodUnique DEF CoreInv
        <4> QED BY <2>1, <4>3
      <3> QED BY <1>1, <1>2, <2>3, <3>1 DEF Good, Stale, Resets
    <2> QED BY <2>1, <2>2, <2>3 DEF HandleInv
  <1>11. \A g \in Out' : Good(g)' \/ Stale(g)'
    <2> SUFFICES ASSUME NEW g \in Out', g.task # t PROVE Good(g)' \/ Stale(g)'
      BY <1>10
    <2> QED BY <1>5, <1>8, <1>9 DEF HandleInv, Kept, StaleKept
  <1>12. \A u \in Task : Waiting(u)' => \E g \in Out' : g.task = u /\ Good(g)'
    <2> SUFFICES ASSUME NEW u \in Task, Waiting(u)', u # t
                 PROVE  \E g \in Out' : g.task = u /\ Good(g)'
      BY <1>6
    <2>1. Waiting(u)
      BY <1>5 DEF Kept, WaitKept
    <2>2. PICK g \in Out : g.task = u /\ Good(g)
      BY <2>1 DEF HandleInv
    <2> QED BY <1>8, <1>9, <2>2
  <1>13. \A g \in waits' : Good(g)'
    BY <1>3, <1>8 DEF HandleInv, Out
  <1>14. \A g \in Range(local') : Good(g)' /\ ctx'[g.task].state = "suspend"
    <2> SUFFICES ASSUME NEW g \in Range(local)
                 PROVE  Good(g)' /\ ctx'[g.task].state = "suspend"
      BY <1>2
    <2>1. g \in Out /\ g.task # t
      BY <1>4 DEF Out
    <2> QED BY <1>5, <1>8, <2>1 DEF HandleInv, Kept, WaitKept
  <1>15. Apart(waits', Range(local'), Range(remote'), Range(Replies'))
    BY <1>2, <1>3 DEF HandleInv, Apart
  <1> QED BY <1>2, <1>7, <1>11, <1>12, <1>13, <1>14, <1>15 DEF HandleInv, Resets

(* The next reply: a stale one is dropped for its fingerprint, a good one  *)
(* finds its task suspended and wakes it.                                  *)
LEMMA ExecHandles ==
  ASSUME CoreInv, HandleInv, NEW h \in Handle, Handles(h)
  PROVE  /\ h.fp # ctx[h.task].fp \/ ctx[h.task].state = "suspend"
         /\ h.fp # ctx[h.task].fp /\ UNCHANGED <<ctx, aborted>> => HandleInv'
         /\ \A p \in Prio : Resumes(h, p) => HandleInv'
  <1>1. /\ Replies = batch /\ batch \in Seq(Handle) /\ batch # <<>> /\ h = Head(batch)
        /\ running = 0 /\ use' = use
    BY DEF Handles, Replies, CoreInv, ListInv
  <1>2. Replies' = Tail(batch)
    BY DEF Handles, Replies
  <1>3. h \in Range(Replies) /\ Distinct(Replies') /\ Range(Replies') = Range(Replies) \ {h}
    BY <1>1, <1>2, ListTail DEF HandleInv, Listing
  <1>4. h \in Out /\ h.task \in Task
    BY <1>3, OutType DEF Out, CoreInv
  <1>5. Out' = Out \ {h} /\ waits' = waits /\ local' = local /\ h \notin waits \cup Range(local)
    BY <1>3 DEF Out, HandleInv, Apart, Handles
  <1>6. Apart(waits', Range(local'), Range(remote'), Range(Replies'))
    BY <1>3 DEF HandleInv, Apart, Handles
  <1>7. \A t \in Task : ctx[t].state # "running" /\ ctx[t].pre_yield = FALSE
    BY <1>1, PrioFact DEF CoreInv, TypeInv, Ctx, ListInv
  <1>8. Good(h) => ctx[h.task].state = "suspend"
    BY <1>4, <1>7 DEF Good, Waiting
  <1>9. Stale(h) => h.fp # ctx[h.task].fp
    BY <1>4, <1>7, StaleDiffers
  <1>10. ASSUME h.fp # ctx[h.task].fp, UNCHANGED <<ctx, aborted>>
         PROVE  HandleInv'
    <2>1. /\ \A g \in Out : (Good(g)' <=> Good(g)) /\ (Stale(g)' <=> Stale(g))
          /\ \A t \in Task : Waiting(t)' <=> Waiting(t)
      BY <1>1, <1>10 DEF Good, Stale, Waiting, Handles
    <2>2. ~Good(h)
      BY <1>10 DEF Good
    <2>3. AnswerIsOwn'
      BY <1>10 DEF HandleInv, AnswerIsOwn, Handles
    <2>4. \A g \in waits' : Good(g)'
      BY <1>5, <2>1 DEF HandleInv, Out
    <2>5. \A g \in Range(local') : Good(g)' /\ ctx'[g.task].state = "suspend"
      BY <1>5, <1>10, <2>1 DEF HandleInv, Out
    <2>6. \A g \in Out' : Good(g)' \/ Stale(g)'
      BY <1>5, <2>1 DEF HandleInv
    <2>7. \A t \in Task : Waiting(t)' => \E g \in Out' : g.task = t /\ Good(g)'
      BY <1>5, <2>1, <2>2 DEF HandleInv
    <2> QED BY <1>3, <1>6, <1>10, <2>3, <2>4, <2>5, <2>6, <2>7 DEF HandleInv, Handles
  <1>11. ASSUME NEW p \in Prio, Resumes(h, p)
         PROVE  HandleInv'
    <2>1. PICK t \in Task : t = h.task
      BY <1>4
    <2>2. Good(h)
      BY <1>4, <1>9, <1>11 DEF HandleInv, Resumes
    <2>3. \A u \in Task : u # t => Kept(u)
      BY <1>1, <1>11, <2>1, SameKept DEF Resumes, Handles, OtherTasks
    <2>4. ~Waiting(t)'
      BY <1>7, <1>11, <2>1 DEF Waiting, Resumes
    <2>5. \A g \in Out' : g \in Out /\ g.task \in Task /\ (g.task = t => ~Good(g))
      BY <1>4, <1>5, <2>1, <2>2, OutType, GoodUnique DEF CoreInv
    <2>6. \A g \in Out' : Good(g) => Good(g)'
      BY <2>3, <2>5, GoodStays DEF Kept
    <2>7. \A g \in Out' : g.task = t => Stale(g)'
      <3> SUFFICES ASSUME NEW g \in Out', g.task = t PROVE Stale(g)'
        OBVIOUS
      <3>1. Stale(g)
        BY <2>5 DEF HandleInv
      <3>2. ctx[t].state = "suspend" /\ ctx'[t].state = "runnable" /\ ctx'[t].fp = ctx[t].fp
        BY <1>11, <2>1 DEF Resumes
      <3> QED BY <1>1, <3>1, <3>2 DEF Stale
    <2>8. \A g \in Out' : Good(g)' \/ Stale(g)'
      BY <2>3, <2>5, <2>6, <2>7 DEF HandleInv, Kept, StaleKept
    <2>9. AnswerIsOwn'
      <3> SUFFICES ASSUME NEW u \in Task, ctx'[u].state = "runnable", ctx'[u].yielded
                   PROVE  ctx'[u].answer = <<ctx'[u].job, progress'[ctx'[u].job].waits>>
        BY DEF AnswerIsOwn
      <3>1. CASE u = t
        BY <1>11, <2>1, <2>2, <3>1 DEF Resumes, Handles, Good
      <3>2. CASE u # t
        BY <1>11, <2>1, <3>2 DEF Resumes, Handles, OtherTasks, HandleInv, AnswerIsOwn
      <3> QED BY <3>1, <3>2
    <2>10. \A u \in Task : Waiting(u)' => \E g \in Out' : g.task = u /\ Good(g)'
      <3> SUFFICES ASSUME NEW u \in Task, Waiting(u)'
                   PROVE  \E g \in Out' : g.task = u /\ Good(g)'
        OBVIOUS
      <3>1. u # t
        BY <2>4
      <3>2. Waiting(u)
        BY <2>3, <3>1 DEF Kept, WaitKept
      <3>3. PICK g \in Out : g.task = u /\ Good(g)
        BY <3>2 DEF HandleInv
      <3>4. g \in Out'
        BY <1>5, <2>1, <3>1, <3>3
      <3> QED BY <2>6, <3>3, <3>4
    <2>11. \A g \in waits' \cup Range(local') : g \in Out' /\ Good(g)
      BY <1>5 DEF HandleInv, Out
    <2>12. \A g \in Range(local') : ctx'[g.task].state = "suspend"
      <3> SUFFICES ASSUME NEW g \in Range(local) PROVE ctx'[g.task].state = "suspend"
        BY <1>5
      <3>1. g.task \in Task /\ g.task # t
        BY <1>5, <2>5, <2>11
      <3> QED BY <2>3, <3>1 DEF HandleInv, Kept, WaitKept
    <2> QED
      BY <1>3, <1>6, <1>11, <2>6, <2>8, <2>9, <2>10, <2>11, <2>12
      DEF HandleInv, Handles, Resumes
  <1> QED BY <1>4, <1>8, <1>9, <1>10, <1>11 DEF HandleInv

LEMMA HandleNext ==
  ASSUME CoreInv, JobInv, HandleInv, Next, FreshStart
  PROVE  HandleInv'
  <1> USE DEF core, tasks
  <1>a. /\ aborted = "no"
        /\ \A t \in Task : ctx[t].state # "free" => ctx[t].job \in Job
    BY DEF Next, CoreInv, ListInv
  <1>b. ASSUME UNCHANGED <<ctx, progress, aborted, waits, local, remote, use>>,
               Replies' = Replies
        PROVE  HandleInv'
    <2>1. \A t \in Task : Kept(t)
      BY <1>b, SameKept
    <2> QED BY <1>a, <1>b, <2>1, HandlesStay DEF CoreInv
  <1>1. CASE schedule_task_get
    BY <1>1, GetEffect, GetHandles DEF Gets
  <1>2. CASE schedule_task_reset
    BY <1>2, ResetEffect, ResetHandles DEF Resets
  <1>3. CASE schedule_yield1
    <2>1. PICK t \in Task : t = running
      BY <1>3 DEF schedule_yield1, CoreInv, TypeInv
    <2>2. Yields(t)
      BY <1>3, <2>1, YieldEffect
    <2>3. Replies' = Replies
      BY <2>2 DEF Yields, Replies
    <2>a. WaitKept(t) /\ AnswerKept(t)
      BY <2>2 DEF Yields, WaitKept, AnswerKept, Waiting
    <2>b. StaleKept(t)
      <3>1. ctx[t].state = "running" /\ ctx[t].pre_yield
        BY <2>2 DEF Yields, CoreInv, ListInv
      <3>2. ctx'[t].state = "suspend" /\ ctx'[t].fp = ctx[t].fp /\ use' = use
        BY <2>2 DEF Yields
      <3> QED BY <3>1, <3>2 DEF StaleKept, Stale
    <2>4. Kept(t)
      BY <2>a, <2>b DEF Kept
    <2>5. \A u \in Task : Kept(u)
      BY <2>2, <2>4, SameKept DEF Yields, OtherTasks
    <2> QED BY <1>a, <2>2, <2>3, <2>5, HandlesStay DEF CoreInv, Yields
  <1>4. CASE Finish
    <2>1. PICK t \in Task : t = running
      BY <1>4 DEF Finish, CoreInv, TypeInv
    <2>2. ASSUME TaskEnds(t)
          PROVE  /\ Kept(t) /\ Replies' = Replies
                 /\ aborted' = "no" /\ UNCHANGED <<waits, local, remote, use>>
                 /\ \A u \in Task : ctx[u].state # "free" =>
                       progress'[ctx[u].job].waits = progress[ctx[u].job].waits
      <3>1. ctx[t].state = "running"
        BY <2>1 DEF CoreInv, ListInv
      <3>2. WaitKept(t)
        BY <2>2, <3>1, FreeKept DEF TaskEnds
      <3>3. Replies' = Replies
        BY <2>2 DEF TaskEnds, Replies
      <3>4. StaleKept(t)
        BY <2>2, <3>1 DEF TaskEnds, StaleKept, Stale
      <3> QED BY <1>a, <2>2, <3>2, <3>3, <3>4 DEF TaskEnds, Kept, AnswerKept
    <2>3. CASE EndsAlone(t)
      <3>1. \A u \in Task : Kept(u)
        BY <2>2, <2>3, SameKept DEF EndsAlone, OtherTasks
      <3> QED BY <2>2, <2>3, <3>1, HandlesStay DEF CoreInv, EndsAlone
    <2>4. ASSUME NEW n \in Task, NEW p \in Prio, EndsAndStarts(t, n, p)
          PROVE  HandleInv'
      <3>1. Head(wait) \in Job
        BY <2>4, ListTail DEF EndsAndStarts, CoreInv, TypeInv
      <3>3. Kept(n)
        BY <2>4, <3>1, StartKept DEF EndsAndStarts
      <3>4. TaskEnds(t)
        BY <2>4 DEF EndsAndStarts
      <3>5. \A u \in Task : Kept(u)
        BY <2>2, <2>4, <3>3, <3>4, SameKept DEF EndsAndStarts
      <3> QED BY <2>2, <3>4, <3>5, HandlesStay DEF CoreInv
    <2> QED BY <1>4, <2>1, <2>3, <2>4, FinishEffect
  <1>5. CASE schedule_run
    BY <1>b, <1>5 DEF schedule_run, Replies
  <1>6. CASE reply_local_run
    <2>1. Replies = <<>> /\ Replies' = local
      BY <1>6 DEF reply_local_run, Replies
    <2> QED BY <1>6, <2>1, TakenOver DEF reply_local_run
  <1>7. CASE reply_remote_run
    <2>1. Replies = <<>> /\ Replies' = remote
      BY <1>7 DEF reply_remote_run, Replies
    <2> QED BY <1>7, <2>1, TakenOver DEF reply_remote_run
  <1>8. CASE schedule_exec
    <2>1. PICK h \in Handle :
           /\ Handles(h)
           /\ \/ h.fp # ctx[h.task].fp /\ UNCHANGED <<ctx, aborted>>
              \/ h.fp = ctx[h.task].fp /\ ctx[h.task].state # "suspend"
              \/ \E p \in Prio : Resumes(h, p)
      BY <1>8, ExecEffect
    <2> QED BY <2>1, ExecHandles
  <1>9. CASE task_run
    <2>1. PICK t \in Task, p \in Prio : Switches(t, p)
      BY <1>9, RunEffect
    <2>2. ctx[t].state = "runnable" /\ ctx[t].pre_yield = FALSE
      BY <2>1, SwitchesLists
    <2>a. WaitKept(t) /\ AnswerKept(t)
      BY <2>1, <2>2, FreeKept DEF Switches, AnswerKept
    <2>b. StaleKept(t)
      <3> SUFFICES ASSUME NEW h \in Out, h.task = t, Stale(h) PROVE Stale(h)'
        BY DEF StaleKept
      <3>1. h.fp \in Nat /\ ctx[t].fp \in Nat /\ ctx'[t].fp \in Nat
        BY <2>1, OutType DEF Switches, CoreInv, TypeInv, Ctx, Handle
      <3>2. ctx'[t].state = "running" /\ ctx'[t].fp >= ctx[t].fp /\ use' = use
        BY <2>1 DEF Switches
      <3>3. h.fp < ctx'[t].fp
        BY <2>2, <3>1, <3>2 DEF Stale
      <3> QED BY <3>2, <3>3 DEF Stale
    <2>3. Kept(t)
      BY <2>a, <2>b DEF Kept
    <2>4. \A u \in Task : Kept(u)
      BY <2>1, <2>3, SameKept DEF Switches, OtherTasks
    <2>5. Replies' = Replies
      BY <2>1 DEF Switches, Replies
    <2> QED BY <1>a, <2>1, <2>4, <2>5, HandlesStay DEF CoreInv, Switches
  <1>10. CASE task_run_end
    BY <1>b, <1>10 DEF task_run_end, Replies
  <1>11. CASE request_queue_run
    <2>1. PICK r \in Request : Requested(r)
      BY <1>11, RequestedEffect
    <2>2. r.job \in Job /\ Replies' = Replies
      BY <2>1 DEF Request, Requested, Replies
    <2> QED BY <2>1, <2>2, JobStartsHandles DEF Requested
  <1>12. ASSUME NEW j \in use.jobs, NEW p \in Prio \cup {-1}, schedule_task_new(j, p)
         PROVE  HandleInv'
    <2>1. NewTask(j)
      BY <1>12, NewTaskEffect DEF CoreInv
    <2>2. Replies' = Replies /\ j \in Job
      BY <2>1 DEF NewTask, Replies, Comes
    <2>3. \A i \in Job : progress'[i].waits = progress[i].waits
      BY <2>1 DEF NewTask, Comes
    <2> QED BY <2>1, <2>2, <2>3, JobStartsHandles DEF NewTask
  <1>13. ASSUME NEW j \in use.jobs, NEW p \in Prio \cup {-1}, schedule_request(j, p)
         PROVE  HandleInv'
    <2>1. PICK r \in Request : NewRequest(j, r)
      BY <1>13, NewRequestEffect DEF CoreInv
    <2>2. Replies' = Replies
      BY <2>1 DEF NewRequest, Replies
    <2>3. \A i \in Job : progress'[i].waits = progress[i].waits
      BY <2>1 DEF NewRequest, Comes
    <2>4. \A t \in Task : Kept(t)
      BY <1>a, <2>1, <2>3, SameKept DEF NewRequest
    <2> QED BY <1>a, <2>1, <2>2, <2>4, HandlesStay DEF CoreInv, NewRequest
  <1>14. ASSUME NEW h \in waits, ResumeLocal(h)
         PROVE  HandleInv'
    <2>1. Len(local) # TaskMax
      BY LocalFits
    <2>2. Replies' = Replies
      BY <1>14 DEF ResumeLocal, Replies
    <2>3. h \in Out /\ Good(h) /\ h.task \in Task
      BY OutType DEF Out, HandleInv, CoreInv
    <2>4. ctx[h.task].state = "suspend"
      <3>1. h.task # running
        BY <1>14, <2>3, PrioFact DEF ResumeLocal, Own, Good
      <3> QED BY <2>3, <3>1 DEF Good, Waiting, CoreInv, ListInv
    <2> QED BY <1>14, <2>1, <2>2, <2>4, Resumed DEF ResumeLocal
  <1>15. ASSUME NEW h \in waits, ResumeRemote(h)
         PROVE  HandleInv'
    <2>1. Replies' = Replies
      BY <1>15 DEF ResumeRemote, Replies
    <2> QED BY <1>15, <2>1, Resumed DEF ResumeRemote
  <1> QED
    BY <1>1, <1>2, <1>3, <1>4, <1>5, <1>6, <1>7, <1>8, <1>9, <1>10, <1>11, <1>12, <1>13,
       <1>14, <1>15 DEF Next, TaskStep, LoopStep, Submit, Answer

LEMMA HandleInit == Init => HandleInv
  <1> SUFFICES ASSUME Init PROVE HandleInv
    OBVIOUS
  <1>1. local = <<>> /\ remote = <<>> /\ Replies = <<>> /\ waits = {} /\ aborted = "no"
    BY DEF Init, Replies
  <1>2. /\ Range(local) = {} /\ Range(remote) = {} /\ Range(Replies) = {}
        /\ Distinct(local) /\ Distinct(remote) /\ Distinct(Replies)
    BY <1>1, ListEmpty
  <1>3. \A t \in Task : ctx[t].state = "free" /\ ctx[t].pre_yield = FALSE
    BY DEF Init
  <1>4. Out = {}
    BY <1>1, <1>2 DEF Out
  <1> QED BY <1>1, <1>2, <1>3, <1>4 DEF HandleInv, Apart, Waiting, AnswerIsOwn

-----------------------------------------------------------------------------
(* No more jobs than tasks.                                                *)
FewJobs == IsFiniteSet(use.jobs) /\ Cardinality(use.jobs) <= TaskMax

(* The jobs that are on tasks are of the use and differ, so one of them    *)
(* that is not on a task finds a free one.                                 *)
LEMMA TaskLeft ==
  ASSUME CoreInv, JobInv, FewJobs, NEW j \in Job, j \in use.jobs, j \notin OnTasks
  PROVE  free # <<>>
  <1> SUFFICES ASSUME free = <<>> PROVE FALSE
    OBVIOUS
  <1>1. FreeTasks = {}
    BY ListEmpty DEF CoreInv, ListInv, Listing
  <1>2. \A t \in Task : ctx[t].state # "free" /\ ctx[t].job \in Job
    BY <1>1 DEF FreeTasks, CoreInv, ListInv
  <1>3. \A t \in Task : ctx[t].job \in OnTasks
    BY <1>2 DEF OnTasks
  <1>4. \A t \in Task : ctx[t].job \in use.jobs \ {j}
    BY <1>2, <1>3 DEF JobInv
  <1>5. \A t, u \in Task : ctx[t].job = ctx[u].job => t = u
    BY <1>2 DEF JobInv
  <1> DEFINE T == use.jobs \ {j}
             f == [t \in Task |-> ctx[t].job]
  <1>6. f \in [Task -> T]
    BY <1>4
  <1>7. TaskMax \in Nat /\ TaskMax >= 1
    BY ScheduleAssumption
  <1>8. IsFiniteSet(Task) /\ Cardinality(Task) = TaskMax
    BY <1>7, FS_Interval DEF Task
  <1>9. IsFiniteSet(T) /\ Cardinality(T) = Cardinality(use.jobs) - 1
    BY FS_RemoveElement DEF FewJobs
  <1>10. Cardinality(use.jobs) \in Nat
    BY FS_CardinalityType DEF FewJobs
  <1>11. Cardinality(T) < Cardinality(Task)
    BY <1>7, <1>8, <1>9, <1>10 DEF FewJobs
  <1> HIDE DEF T, f
  <1>12. \E t, u \in Task : t # u /\ f[t] = f[u]
    BY <1>6, <1>8, <1>9, <1>11, FS_PigeonHole
  <1>13. \A t \in Task : f[t] = ctx[t].job
    BY DEF f
  <1> QED BY <1>5, <1>12, <1>13

LEMMA AbortNext ==
  ASSUME CoreInv, JobInv, HandleInv, FewJobs, Next
  PROVE  aborted' = "no"
  <1>a. aborted = "no"
    BY DEF Next
  <1>1. CASE TaskStep
    BY <1>1, <1>a DEF TaskStep, schedule_task_get, schedule_task_reset, schedule_yield1, Finish
  <1>2. CASE schedule_exec
    <2>1. PICK h \in Handle :
           /\ Handles(h)
           /\ \/ h.fp # ctx[h.task].fp /\ UNCHANGED aborted
              \/ h.fp = ctx[h.task].fp /\ ctx[h.task].state # "suspend"
              \/ \E p \in Prio : Resumes(h, p)
      BY <1>2, ExecEffect
    <2> QED BY <1>a, <2>1, ExecHandles DEF Resumes
  <1>3. CASE request_queue_run
    <2>1. PICK r \in Request : Requested(r)
      BY <1>3, RequestedEffect
    <2>2. PICK j \in Job : j = r.job
      BY DEF Request
    <2>3. Starting = JobsOf(batch)
      BY <2>1 DEF Requested, Starting
    <2>4. j \in Range(Starting)
      BY <2>1, <2>2, <2>3, RequestTail DEF Requested, JobInv
    <2>5. j \notin OnTasks /\ j \in use.jobs
      BY <2>4 DEF JobInv, Apart
    <2>6. free # <<>>
      BY <2>5, TaskLeft
    <2> QED BY <1>a, <2>1, <2>6 DEF Requested, JobHeld, NoTaskLeft, JobStarts
  <1>4. ASSUME NEW j \in use.jobs, NEW p \in Prio \cup {-1}, schedule_task_new(j, p)
        PROVE  aborted' = "no"
    <2>1. NewTask(j)
      BY <1>4, NewTaskEffect DEF CoreInv
    <2>2. j \in Job /\ progress[j].at # "born"
      BY <2>1 DEF NewTask, Comes
    <2>3. j \notin OnTasks
      BY <2>2 DEF JobInv
    <2>4. free # <<>>
      BY <2>2, <2>3, TaskLeft
    <2> QED BY <1>a, <2>1, <2>4 DEF NewTask, JobHeld, NoTaskLeft, JobStarts
  <1>5. CASE Answer
    <2>1. \A h \in waits : Len(local) # TaskMax
      BY LocalFits
    <2> QED BY <1>a, <1>5, <2>1 DEF Answer, ResumeLocal, ResumeRemote
  <1>6. CASE \/ schedule_run \/ reply_local_run \/ reply_remote_run \/ task_run
             \/ task_run_end
    BY <1>a, <1>6 DEF schedule_run, reply_local_run, reply_remote_run, task_run, task_run_end
  <1>7. CASE \E j \in use.jobs, p \in Prio \cup {-1} : schedule_request(j, p)
    BY <1>a, <1>7 DEF schedule_request
  <1> QED BY <1>1, <1>2, <1>3, <1>4, <1>5, <1>6, <1>7 DEF Next, LoopStep, Submit

(* The inductive invariant of the waits.                                   *)
WaitInv ==
  /\ CoreInv /\ JobInv /\ HandleInv
  /\ FewJobs => NoAbort

LEMMA UseKept == CoreInv /\ Next => use' = use
  BY DEF Next, TaskStep, LoopStep, Submit, Answer, schedule_task_get, schedule_task_reset,
     schedule_yield1, Finish, schedule_run, reply_local_run, reply_remote_run, schedule_exec,
     task_run, task_run_end, request_queue_run, schedule_task_new, schedule_request,
     ResumeLocal, ResumeRemote

LEMMA PlacesNext == CoreInv /\ JobInv /\ Next => CoreInv' /\ JobInv'
  BY TypeNext, ListsNext, JobNext DEF CoreInv

LEMMA PlacesStutter == CoreInv /\ JobInv /\ UNCHANGED vars => CoreInv' /\ JobInv'
  BY CoreStutter, JobStutter

LEMMA WaitInit == Init => WaitInv
  BY TypeInit, JobInit, HandleInit DEF WaitInv, NoAbort, Init

LEMMA WaitNext ==
  ASSUME WaitInv, Next, FreshStart
  PROVE  WaitInv'
  <1>1. CoreInv' /\ JobInv' /\ HandleInv' /\ use' = use
    BY PlacesNext, HandleNext, UseKept DEF WaitInv
  <1>2. FewJobs => aborted' = "no"
    BY AbortNext DEF WaitInv
  <1>3. FewJobs' <=> FewJobs
    BY <1>1 DEF FewJobs
  <1> QED BY <1>1, <1>2, <1>3 DEF WaitInv, NoAbort

LEMMA WaitStutter == WaitInv /\ UNCHANGED vars => WaitInv'
  <1> SUFFICES ASSUME WaitInv, UNCHANGED vars PROVE WaitInv'
    OBVIOUS
  <1>1. CoreInv' /\ JobInv'
    BY PlacesStutter DEF WaitInv
  <1>2. UNCHANGED <<ctx, local, remote, phase, batch, waits, progress, aborted, use>>
    BY DEF vars, core
  <1>3. Replies' = Replies
    BY <1>2 DEF Replies
  <1>4. \A t \in Task : Kept(t)
    BY <1>2, SameKept DEF WaitInv
  <1>5. HandleInv'
    BY <1>2, <1>3, <1>4, HandlesStay DEF WaitInv, CoreInv, HandleInv
  <1>6. FewJobs' <=> FewJobs
    BY <1>2 DEF FewJobs
  <1> QED BY <1>1, <1>2, <1>5, <1>6 DEF WaitInv, NoAbort

LEMMA HandleWakes ==
  ASSUME CoreInv, HandleInv
  PROVE  WakeupPending
  <1> SUFFICES ASSUME NEW t \in Task, ctx[t].state = "suspend"
               PROVE  \E h \in waits \cup Reply : h.task = t /\ h.fp = ctx[t].fp
    BY DEF WakeupPending
  <1>1. PICK h \in Out : h.task = t /\ Good(h)
    BY DEF HandleInv, Waiting
  <1>2. h.fp = ctx[t].fp
    BY <1>1 DEF Good
  <1>3. h \in waits \cup Reply
    BY ListEmpty DEF Out, Reply, Replies
  <1> QED BY <1>1, <1>2, <1>3

(* Whatever tasks do with their waits, the fingerprint that                *)
(* __schedule_exec compares keeps every answer with its wait, no wake-up   *)
(* is lost and no assertion fails, as long as __schedule_task_new reuses   *)
(* no task to which a reply is still on its way.  That is the one thing it *)
(* cannot tell, because __schedule_trampoline sets it to zero.             *)
THEOREM ScheduleFreshStart ==
  Spec /\ [][FreshStart]_vars =>
    [](AnswerIsOwn /\ WakeupPending /\ (FewJobs => NoAbort))
  <1>1. WaitInv /\ [Next]_vars /\ [FreshStart]_vars => WaitInv'
    BY WaitNext, WaitStutter
  <1>2. WaitInv => AnswerIsOwn /\ WakeupPending /\ (FewJobs => NoAbort)
    BY HandleWakes DEF WaitInv, HandleInv
  <1> QED BY <1>1, <1>2, WaitInit, PTL DEF Spec

-----------------------------------------------------------------------------
(* The uses in which no task is ever started with a reply on its way.      *)

(* No wait is given up after it was answered, or there is one job.         *)
OneJob == \A i, j \in use.jobs : i = j
Calm == ~use.shared \/ OneJob

Begun(j) == j \in OnTasks \/ progress[j].at = "done"

(* With one job, a handle is there once it is on its task.                 *)
OneJobInv == OneJob => Out = {} \/ \A j \in use.jobs : Begun(j)

(* A free task is started for a job that has not begun.                    *)
LEMMA StartsNew ==
  ASSUME CoreInv, JobInv, Next, NEW t \in Task, ctx[t].state = "free",
         ctx'[t].state # "free"
  PROVE  \E j \in use.jobs : ~Begun(j)
  <1>0. ctx' # ctx /\ t # running
    BY DEF CoreInv, ListInv
  <1>a. ASSUME NEW j \in Job, j \in Range(wait) \cup Range(Starting)
        PROVE  j \in use.jobs /\ ~Begun(j)
    BY <1>a DEF JobInv, Apart, Begun
  <1>1. CASE schedule_task_get
    BY <1>0, <1>1, GetEffect DEF Gets, OtherTasks
  <1>2. CASE schedule_task_reset
    BY <1>0, <1>2, ResetEffect DEF Resets, OtherTasks
  <1>3. CASE schedule_yield1
    BY <1>0, <1>3, YieldEffect DEF Yields, OtherTasks
  <1>4. CASE Finish
    <2>1. CASE EndsAlone(running)
      BY <1>0, <2>1 DEF EndsAlone, OtherTasks
    <2>2. ASSUME NEW n \in Task, NEW p \in Prio, EndsAndStarts(running, n, p)
          PROVE  \E j \in use.jobs : ~Begun(j)
      <3>1. wait \in Seq(Job) /\ wait # <<>>
        BY <2>2 DEF EndsAndStarts, CoreInv, TypeInv
      <3>2. Head(wait) \in Job /\ Head(wait) \in Range(wait)
        BY <3>1, ListTail
      <3> QED BY <1>a, <3>2
    <2> QED BY <1>4, <2>1, <2>2, FinishEffect
  <1>5. CASE schedule_exec
    <2>1. PICK h \in Handle : h.task \in Task /\ \E p \in Prio : Resumes(h, p)
      BY <1>0, <1>5, ExecEffect DEF Handle
    <2> QED BY <2>1 DEF Resumes, OtherTasks
  <1>6. CASE task_run
    <2>1. PICK u \in Task, p \in Prio : Switches(u, p)
      BY <1>6, RunEffect
    <2>2. ctx[u].state = "runnable"
      BY <2>1, SwitchesLists
    <2> QED BY <2>1, <2>2 DEF Switches, OtherTasks
  <1>7. CASE request_queue_run
    <2>1. PICK r \in Request : Requested(r)
      BY <1>7, RequestedEffect
    <2>2. r.job \in Job /\ Starting = JobsOf(batch)
      BY <2>1 DEF Requested, Starting, Request
    <2>3. r.job \in Range(Starting)
      BY <2>1, <2>2, RequestTail DEF Requested, JobInv
    <2> QED BY <1>a, <2>2, <2>3
  <1>8. ASSUME NEW j \in use.jobs, NEW p \in Prio \cup {-1},
               schedule_task_new(j, p) \/ schedule_request(j, p)
        PROVE  \E i \in use.jobs : ~Begun(i)
    <2>1. Comes(j)
      BY <1>8, BornEffect DEF schedule_task_new, schedule_request, CoreInv
    <2>2. progress[j].at = "unborn" /\ j \in Job
      BY <2>1 DEF Comes
    <2>3. j \notin OnTasks
      BY <2>2 DEF JobInv
    <2> QED BY <2>2, <2>3 DEF Begun
  <1>9. CASE schedule_run \/ reply_local_run \/ reply_remote_run \/ task_run_end \/ Answer
    BY <1>0, <1>9
    DEF schedule_run, reply_local_run, reply_remote_run, task_run_end, tasks, Answer,
        ResumeLocal, ResumeRemote
  <1> QED
    BY <1>1, <1>2, <1>3, <1>4, <1>5, <1>6, <1>7, <1>8, <1>9
    DEF Next, TaskStep, LoopStep, Submit

LEMMA CalmFresh ==
  ASSUME CoreInv, JobInv, HandleInv, OneJobInv, Calm, Next
  PROVE  FreshStart
  <1> SUFFICES ASSUME NEW t \in Task, ctx[t].state = "free", ctx'[t].state # "free",
                      NEW h \in Out, h.task = t
               PROVE  FALSE
    BY DEF FreshStart
  <1>1. ~Waiting(t)
    BY DEF Waiting, CoreInv, ListInv
  <1>2. use.shared
    BY <1>1 DEF HandleInv, Good, Stale
  <1>3. \A j \in use.jobs : Begun(j)
    BY <1>2 DEF Calm, OneJobInv
  <1> QED BY <1>3, StartsNew

(* A job that has begun stays so.                                          *)
LEMMA BegunStays ==
  ASSUME CoreInv, JobInv, Next, NEW j \in Job, Begun(j)
  PROVE  Begun(j)'
  <1>a. ASSUME \A t \in Task : ctx[t].state # "free" =>
                  ctx'[t].state # "free" /\ ctx'[t].job = ctx[t].job,
               progress[j].at = "done" => progress'[j].at = "done"
        PROVE  Begun(j)'
    BY <1>a DEF Begun, OnTasks
  <1>b. ASSUME NEW i \in Job, JobHeld(i) \/ NoTaskLeft \/ JobStarts(i)
        PROVE  \A t \in Task : ctx[t].state # "free" =>
                  ctx'[t].state # "free" /\ ctx'[t].job = ctx[t].job
    <2>1. CASE ctx' = ctx
      BY <2>1
    <2>2. ASSUME NEW n \in Task, NEW p \in Prio, TaskStarts(n, i, p), OtherTasks(n)
          PROVE  \A t \in Task : ctx[t].state # "free" =>
                    ctx'[t].state # "free" /\ ctx'[t].job = ctx[t].job
      BY <2>2, StartsLists DEF OtherTasks, FreeTasks
    <2> QED BY <1>b, <2>1, <2>2 DEF JobHeld, NoTaskLeft, JobStarts
  <1>1. CASE schedule_task_get
    BY <1>a, <1>1, GetEffect DEF Gets, OtherTasks
  <1>2. CASE schedule_task_reset
    BY <1>a, <1>2, ResetEffect DEF Resets, OtherTasks
  <1>3. CASE schedule_yield1
    BY <1>a, <1>3, YieldEffect DEF Yields, OtherTasks
  <1>4. CASE Finish
    <2>1. PICK t \in Task : t = running /\ TaskEnds(t)
      BY <1>4, FinishEffect DEF EndsAlone, EndsAndStarts, TaskEnds
    <2>2. CASE j = ctx[t].job \/ progress[j].at = "done"
      BY <2>1, <2>2 DEF TaskEnds, Begun
    <2>3. CASE j # ctx[t].job /\ progress[j].at # "done"
      <3>1. PICK u \in Task : ctx[u].state # "free" /\ ctx[u].job = j /\ u # t
        BY <2>3 DEF Begun, OnTasks
      <3>2. ctx'[u] = ctx[u]
        <4>1. CASE EndsAlone(t)
          BY <3>1, <4>1 DEF EndsAlone, OtherTasks
        <4>2. ASSUME NEW n \in Task, NEW p \in Prio, EndsAndStarts(t, n, p)
              PROVE  ctx'[u] = ctx[u]
          <5>1. Head(wait) \in Job
            BY <4>2, ListTail DEF EndsAndStarts, CoreInv, TypeInv
          <5>2. u # n
            BY <3>1, <4>2, <5>1, StartsLists DEF EndsAndStarts, FreeTasks
          <5> QED BY <3>1, <4>2, <5>2 DEF EndsAndStarts
        <4> QED BY <1>4, <2>1, <4>1, <4>2, FinishEffect
      <3> QED BY <3>1, <3>2 DEF Begun, OnTasks
    <2> QED BY <2>2, <2>3
  <1>5. CASE schedule_exec
    <2>1. PICK h \in Handle : /\ Handles(h)
                              /\ \/ UNCHANGED ctx
                                 \/ \E p \in Prio : Resumes(h, p)
      BY <1>5, ExecEffect
    <2> QED BY <1>a, <2>1 DEF Handles, Resumes, OtherTasks
  <1>6. CASE task_run
    BY <1>a, <1>6, RunEffect DEF Switches, OtherTasks
  <1>7. CASE request_queue_run
    <2>1. PICK r \in Request : Requested(r)
      BY <1>7, RequestedEffect
    <2>2. r.job \in Job
      BY DEF Request
    <2> QED BY <1>a, <1>b, <2>1, <2>2 DEF Requested
  <1>8. ASSUME NEW i \in use.jobs, NEW p \in Prio \cup {-1}, schedule_task_new(i, p)
        PROVE  Begun(j)'
    <2>1. NewTask(i)
      BY <1>8, NewTaskEffect DEF CoreInv
    <2> QED BY <1>a, <1>b, <2>1 DEF NewTask, Comes
  <1>9. ASSUME NEW i \in use.jobs, NEW p \in Prio \cup {-1}, schedule_request(i, p)
        PROVE  Begun(j)'
    <2>1. PICK r \in Request : NewRequest(i, r)
      BY <1>9, NewRequestEffect DEF CoreInv
    <2> QED BY <1>a, <2>1 DEF NewRequest, Comes
  <1>10. CASE schedule_run \/ reply_local_run \/ reply_remote_run \/ task_run_end \/ Answer
    BY <1>a, <1>10
    DEF schedule_run, reply_local_run, reply_remote_run, task_run_end, tasks, Answer,
        ResumeLocal, ResumeRemote
  <1> QED
    BY <1>1, <1>2, <1>3, <1>4, <1>5, <1>6, <1>7, <1>8, <1>9, <1>10
    DEF Next, TaskStep, LoopStep, Submit

(* Only schedule_task_get gives a handle out.                              *)
LEMMA OutNext ==
  ASSUME CoreInv, HandleInv, Next, ~schedule_task_get
  PROVE  Out' \subseteq Out
  <1>a. ASSUME UNCHANGED <<local, remote>>, waits' \subseteq waits, Replies' = Replies
        PROVE  Out' \subseteq Out
    BY <1>a DEF Out
  <1>b. ASSUME phase' # "exec", phase # "exec"
        PROVE  Replies' = Replies
    BY <1>b DEF Replies
  <1>c. Range(<<>>) = {}
    BY ListEmpty
  <1>1. CASE TaskStep
    BY <1>1, <1>a DEF TaskStep, schedule_task_reset, schedule_yield1, Finish, core, Replies
  <1>2. CASE schedule_run \/ request_queue_run \/ task_run \/ task_run_end
    BY <1>2, <1>a, <1>b
    DEF schedule_run, request_queue_run, task_run, task_run_end, tasks
  <1>3. CASE reply_local_run \/ reply_remote_run
    <2>1. waits' = waits
      BY <1>3 DEF reply_local_run, reply_remote_run
    <2>2. \/ Replies' = local /\ local' = <<>> /\ remote' = remote
          \/ Replies' = remote /\ remote' = <<>> /\ local' = local
      BY <1>3 DEF reply_local_run, reply_remote_run, Replies
    <2> QED BY <1>c, <2>1, <2>2 DEF Out
  <1>4. CASE schedule_exec
    <2>1. PICK h \in Handle : Handles(h)
      BY <1>4, ExecEffect
    <2>2. batch \in Seq(Handle) /\ Replies = batch /\ Replies' = Tail(batch)
      BY <2>1 DEF Handles, Replies
    <2>3. Range(Replies') \subseteq Range(Replies)
      BY <2>1, <2>2, ListTail DEF HandleInv, Handles, Listing
    <2> QED BY <2>1, <2>3 DEF Handles, Out
  <1>5. CASE Submit
    BY <1>5, <1>a DEF Submit, schedule_task_new, schedule_request, core, Replies
  <1>6. CASE Answer
    <2>1. PICK h \in waits : ResumeLocal(h) \/ ResumeRemote(h)
      BY <1>6 DEF Answer
    <2>2. Replies' = Replies /\ waits' \subseteq waits
      BY <2>1 DEF ResumeLocal, ResumeRemote, core, Replies
    <2>3. h \in Handle /\ local \in Seq(Handle) /\ remote \in Seq(Handle)
      BY DEF CoreInv, TypeInv
    <2>4. /\ Range(Append(local, h)) = Range(local) \cup {h}
          /\ Range(Append(remote, h)) = Range(remote) \cup {h}
      BY <2>3, ListAppend
    <2>5. /\ local' = local \/ local' = Append(local, h)
          /\ remote' = remote \/ remote' = Append(remote, h)
      BY <2>1 DEF ResumeLocal, ResumeRemote
    <2> QED BY <2>2, <2>4, <2>5 DEF Out
  <1> QED BY <1>1, <1>2, <1>3, <1>4, <1>5, <1>6 DEF Next, LoopStep

LEMMA OneJobNext ==
  ASSUME CoreInv, JobInv, HandleInv, OneJobInv, Next
  PROVE  OneJobInv'
  <1>1. use' = use /\ use.jobs \subseteq Job
    BY UseKept, ScheduleAssumption DEF CoreInv, TypeInv, Use
  <1> SUFFICES ASSUME OneJob, Out' # {}, NEW j \in use.jobs
               PROVE  Begun(j)'
    BY <1>1 DEF OneJobInv, OneJob
  <1>2. j \in Job
    BY <1>1
  <1>3. Begun(j)
    <2>1. CASE schedule_task_get
      <3>1. PICK t \in Task : t = running /\ ctx[t].state = "running"
        BY <2>1 DEF schedule_task_get, CoreInv, TypeInv, ListInv
      <3>2. ctx[t].job \in OnTasks
        BY <3>1 DEF OnTasks, CoreInv, ListInv
      <3>3. ctx[t].job \in use.jobs
        BY <3>2 DEF JobInv, OnTasks
      <3> QED BY <3>2, <3>3 DEF OneJob, Begun
    <2>2. CASE ~schedule_task_get
      BY <2>2, OutNext DEF OneJobInv
    <2> QED BY <2>1, <2>2
  <1> QED BY <1>2, <1>3, BegunStays

CalmInv ==
  /\ CoreInv /\ JobInv
  /\ Calm => WaitInv /\ OneJobInv

LEMMA CalmAlways == Spec => []CalmInv
  <1>1. Init => CalmInv
    <2> SUFFICES ASSUME Init PROVE CalmInv
      OBVIOUS
    <2>1. local = <<>> /\ remote = <<>> /\ Replies = <<>> /\ waits = {}
      BY DEF Init, Replies
    <2>2. Out = {}
      BY <2>1, ListEmpty DEF Out
    <2> QED BY <2>2, WaitInit DEF CalmInv, WaitInv, OneJobInv
  <1>2. ASSUME CalmInv, Next
        PROVE  CalmInv'
    <2>1. CoreInv' /\ JobInv' /\ use' = use
      BY <1>2, PlacesNext, UseKept DEF CalmInv
    <2>2. Calm' <=> Calm
      BY <2>1 DEF Calm, OneJob
    <2>3. ASSUME Calm
          PROVE  WaitInv' /\ OneJobInv'
      BY <1>2, <2>3, CalmFresh, WaitNext, OneJobNext DEF CalmInv, WaitInv
    <2> QED BY <2>1, <2>2, <2>3 DEF CalmInv
  <1>3. ASSUME CalmInv, UNCHANGED vars
        PROVE  CalmInv'
    <2>1. UNCHANGED <<ctx, local, remote, phase, batch, waits, progress, use>>
      BY <1>3 DEF vars, core
    <2>2. Out' = Out /\ \A j \in use.jobs : Begun(j)' <=> Begun(j)
      BY <2>1 DEF Out, Replies, Begun, OnTasks
    <2>3. (Calm' <=> Calm) /\ (OneJobInv' <=> OneJobInv)
      BY <2>1, <2>2 DEF Calm, OneJob, OneJobInv
    <2> QED BY <1>3, <2>3, PlacesStutter, WaitStutter DEF CalmInv
  <1> QED BY <1>1, <1>2, <1>3, PTL DEF Spec

(* A task that comes back from schedule_yield1 finds the answer of the     *)
(* wait it is in: the fingerprint that __schedule_exec compares was given  *)
(* out for this wait and for no other, and with one job it also tells the  *)
(* answers to waits that schedule_task_reset has given up.                 *)
THEOREM ScheduleAnswerIsOwn == Spec => [](Calm => AnswerIsOwn)
  <1>1. CalmInv => (Calm => AnswerIsOwn)
    BY DEF CalmInv, WaitInv, HandleInv
  <1> QED BY <1>1, CalmAlways, PTL

(* A suspended task is going to be resumed: the handle with its present    *)
(* fingerprint is still out or is in one of the reply queues; none is lost *)
(* between schedule_task_get, schedule_resume and __schedule_exec, however *)
(* early the answer comes.                                                 *)
THEOREM ScheduleWakeupPending == Spec => [](Calm => WakeupPending)
  <1>1. CalmInv => (Calm => WakeupPending)
    BY HandleWakes DEF CalmInv, WaitInv
  <1> QED BY <1>1, CalmAlways, PTL

(* With no more jobs than TASK_MAX none of the scheduler's assertions      *)
(* fails: the array of local replies has room for every reply, a reply     *)
(* whose fingerprint fits finds its task suspended, and every job finds a  *)
(* free task.                                                              *)
THEOREM ScheduleNoAbort == Spec => [](Calm /\ FewJobs => NoAbort)
  <1>1. CalmInv => (Calm /\ FewJobs => NoAbort)
    BY DEF CalmInv, WaitInv
  <1> QED BY <1>1, CalmAlways, PTL
=============================================================================
