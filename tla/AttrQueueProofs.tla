--------------------------- MODULE AttrQueueProofs ---------------------------
(***************************************************************************)
(* What is proved of the attributes of a file (AttrQueue), for any cores,  *)
(* tasks and sizes: when cores keep no copies and nobody truncates, the    *)
(* size in redis never shrinks; and on one core the record, the copy of it *)
(* and the queue are one number (FileSize) to the clients.                 *)
(***************************************************************************)
EXTENDS AttrQueue, TLAPS

Pc == Ready \cup {"getattr", "got", "data", "queue", "wait", "lock", "set", "setret",
                  "unlock", "del"}

ActType == [pc : Pc, op : Op \cup {"", "flush"}, size : Nat, md : Record]

TypeInv ==
  /\ md \in Record /\ calls \in Nat /\ use \in Uses
  /\ lock \in Actor \cup {None}
  /\ cache \in [Core -> Record \cup {None}]
  /\ ent \in [Core -> Entry \cup {None}]
  /\ q \in [Core -> Seq(Actor)]
  /\ act \in [Actor -> ActType]

(* Which calls, and the flusher, come to which steps.                      *)
Flow(a) ==
  /\ act[a].pc \in {"data"} => act[a].op = "write"
  /\ act[a].pc \in {"queue", "wait"} => act[a].op \in {"write", "truncate", "settime"}
  /\ act[a].pc \in {"getattr", "got"} =>
       act[a].op \in {"write", "getattr", "setattr", "unlink", "flush"}
  /\ act[a].pc \in {"lock", "set", "setret", "unlock"} =>
       act[a].op \in {"setattr", "unlink", "flush"}
  /\ act[a].pc = "del" => act[a].op = "unlink"
  /\ IF a \in Task THEN act[a].pc \notin Ready => act[a].op \in use.ops
     ELSE act[a].pc \notin {"done", "failed"} /\ (act[a].pc # "idle" => act[a].op = "flush")

FlowInv == \A a \in Actor : Flow(a)

(* The record is read, changed and written under its lock.                 *)
Locking == {"getattr", "got", "set", "setret", "unlock"}

LockInv ==
  \A a \in Actor :
    act[a].pc \in Locking /\ act[a].op \notin {"write", "getattr"} => lock = a

(* The entry that a flusher writes is there, and nobody may change it.     *)
FlushInv ==
  \A n \in Core : act[Flusher(n)].pc # "idle" => ent[n] # None /\ ent[n].running

BaseInv == TypeInv /\ FlowInv /\ LockInv /\ FlushInv

-----------------------------------------------------------------------------
(* When the file only grows and cores keep no copies: what a flusher read  *)
(* is still what redis has, because it holds the lock, and no entry        *)
(* truncates.                                                              *)
GrowInv ==
  GrowsUncached =>
    /\ cache = [n \in Core |-> None]
    /\ \A n \in Core : ent[n] # None => ent[n].set # "truncate"
    /\ \A n \in Core : act[Flusher(n)].pc \in {"got", "set"} => act[Flusher(n)].md = md

-----------------------------------------------------------------------------
(* When one core uses the file, nobody else does anything.                 *)
Elsewhere ==
  /\ \A a \in Actor : a[1] # One => act[a] = Idle
  /\ \A n \in Core : n # One => cache[n] = None /\ ent[n] = None /\ q[n] = <<>>

(* Redis owes answers to exactly those that wait for one, and what it      *)
(* executed after an hset has the new record.                              *)
Asking(a) == act[a].pc \in {"got", "setret"}

QueueInv ==
  /\ \A i \in 1..Len(q[One]) : q[One][i][1] = One /\ Asking(q[One][i])
  /\ \A a \in Actor : Asking(a) => \E i \in 1..Len(q[One]) : q[One][i] = a
  /\ \A i, j \in 1..Len(q[One]) :
       i < j => /\ q[One][i] # q[One][j]
                /\ act[q[One][i]].pc = "setret" => act[q[One][j]].md = md

(* The answers and the copy are the record, or, while an hset is on its    *)
(* way, an older record which the queue makes the same size.               *)
Older(m) ==
  /\ m.mode = 1 /\ m.ver < md.ver
  /\ \E h \in Actor :
       /\ act[h].pc = "setret"
       /\ IF h = Flusher(One) THEN Applied(ent[One], m.size) = Applied(ent[One], md.size)
          ELSE m.size = md.size

Near(m) == m = md \/ Older(m)

(* The copy of the core and the answers that are on their way to it.       *)
Known ==
  ({cache[One]} \ {None}) \cup {act[a].md : a \in {b \in Actor : act[b].pc = "got"}}

RecordInv ==
  /\ md.mode = 1
  /\ cache[One] # None => use.ac_timeout
  /\ \A m \in Known : Near(m)
  /\ \A a \in Actor : act[a].pc \in {"set", "setret"} => act[a].md = md
  /\ act[Flusher(One)].pc \in {"setret", "unlock"} => Applied(ent[One], md.size) = md.size

AloneInv == Alone => Elsewhere /\ QueueInv /\ RecordInv

-----------------------------------------------------------------------------
(* Actors are tasks or flushers, of one core each.                         *)
LEMMA Actors ==
  /\ \A a \in Actor : a[1] \in Core /\ (a \in Task \/ a = Flusher(a[1]))
  /\ \A n \in Core : Flusher(n) \in Actor \ Task /\ Flusher(n)[1] = n
  /\ Task \subseteq Actor /\ None \notin Actor
<1>1. \A a \in Task : a \in Core \X (Nat \ {0})
  BY AttrQueueAssumption
<1>2. \A n \in Core : Flusher(n)[1] = n /\ Flusher(n)[2] = 0
  BY DEF Flusher
<1>3. \A a \in Task : a[1] \in Core /\ a[2] # 0
  BY <1>1
<1> QED BY <1>2, <1>3, AttrQueueAssumption DEF Actor

(* What a queued entry makes of a size.                                    *)
LEMMA AppliedType ==
  ASSUME NEW e \in Entry \cup {None}, NEW s \in Nat
  PROVE  /\ Applied(e, s) \in Nat /\ Applied(e, Applied(e, s)) = Applied(e, s)
         /\ (e = None \/ e.set # "truncate") => Applied(e, s) >= s
  BY AttrQueueAssumption DEF Applied, Bigger, Entry

(* One actor goes on.                                                      *)
LEMMA Moved ==
  ASSUME TypeInv, NEW a \in Actor, NEW p \in Pc, Goto(a, p)
  PROVE  /\ act' \in [Actor -> ActType] /\ act'[a] = [act[a] EXCEPT !.pc = p]
         /\ \A b \in Actor \ {a} : act'[b] = act[b]
<1>1. act[a] \in ActType
  BY DEF TypeInv
<1>2. [act[a] EXCEPT !.pc = p] \in ActType
  BY <1>1 DEF ActType
<1> QED BY <1>2 DEF TypeInv, Goto

(* One actor goes on with a record.                                        *)
LEMMA MovedWith ==
  ASSUME TypeInv, NEW a \in Actor, NEW p \in Pc, NEW m \in Record,
         act' = [act EXCEPT ![a].pc = p, ![a].md = m]
  PROVE  /\ act' \in [Actor -> ActType]
         /\ act'[a] = [act[a] EXCEPT !.pc = p, !.md = m]
         /\ \A b \in Actor \ {a} : act'[b] = act[b]
<1>1. act[a] \in ActType
  BY DEF TypeInv
<1>2. [act[a] EXCEPT !.pc = p, !.md = m] \in ActType
  BY <1>1 DEF ActType
<1> QED BY <1>2 DEF TypeInv

(* What is common to the steps of one actor.                               *)
LEMMA OneMoves ==
  ASSUME BaseInv, NEW a \in Actor, use' = use,
         \A b \in Actor \ {a} : act'[b] = act[b], Flow(a)',
         act'[a].pc \in Locking /\ act'[a].op \notin {"write", "getattr"} => lock' = a,
         lock' = lock \/ lock \in {None, a},
         \A n \in Core : ent[n] # None /\ ent[n].running /\ act[Flusher(n)].pc # "idle" =>
                           ent'[n] # None /\ ent'[n].running,
         \A n \in Core : a = Flusher(n) /\ act'[a].pc # "idle" => ent'[n] # None /\ ent'[n].running
  PROVE  FlowInv' /\ LockInv' /\ FlushInv'
<1>1. FlowInv'
  <2> SUFFICES ASSUME NEW b \in Actor PROVE Flow(b)'
    BY DEF FlowInv
  <2>1. CASE b = a
    BY <2>1
  <2>2. CASE b # a
    BY <2>2 DEF BaseInv, FlowInv, Flow
  <2> QED BY <2>1, <2>2
<1>2. LockInv'
  <2> SUFFICES ASSUME NEW b \in Actor, b # a, act'[b].pc \in Locking,
                      act'[b].op \notin {"write", "getattr"}
               PROVE  lock' = b
    BY DEF LockInv
  <2>1. lock = b
    BY DEF BaseInv, LockInv
  <2> QED BY <2>1, Actors
<1>3. FlushInv'
  <2> SUFFICES ASSUME NEW n \in Core, act'[Flusher(n)].pc # "idle"
               PROVE  ent'[n] # None /\ ent'[n].running
    BY DEF FlushInv
  <2>1. CASE Flusher(n) = a
    BY <2>1
  <2>2. CASE Flusher(n) # a
    BY <2>2, Actors DEF BaseInv, FlushInv
  <2> QED BY <2>1, <2>2
<1> QED BY <1>1, <1>2, <1>3

-----------------------------------------------------------------------------
LEMMA InitBase == Init => BaseInv
<1> SUFFICES ASSUME Init PROVE BaseInv
  OBVIOUS
<1>1. Idle \in ActType /\ Idle.pc = "idle"
  BY DEF Idle, ActType, Pc, Ready, NoInode, Record
<1>2. TypeInv
  BY <1>1 DEF Init, TypeInv, Record
<1>3. \A a \in Actor : act[a].pc = "idle"
  BY <1>1 DEF Init
<1>4. FlowInv
  BY <1>3 DEF FlowInv, Flow, Ready
<1>5. LockInv /\ FlushInv
  BY <1>3, Actors DEF LockInv, FlushInv, Locking
<1> QED BY <1>2, <1>4, <1>5 DEF BaseInv

(* The sizes of a call are in the bounds.                                  *)
LEMMA CallSize ==
  ASSUME TypeInv, NEW op \in use.ops,
         NEW s \in CASE op = "write"    -> use.sizes \ {0}
                     [] op = "truncate" -> use.sizes
                     [] OTHER           -> {0}
  PROVE  s \in Nat /\ s \in 0..MaxSize /\ op \in Op
<1>1. use.sizes \subseteq 0..MaxSize /\ use.ops \subseteq Op
  BY AttrQueueAssumption DEF TypeInv, Use, Size
<1>2. s \in use.sizes \/ s = 0
  OBVIOUS
<1> QED BY <1>1, <1>2, AttrQueueAssumption

LEMMA CallBase ==
  ASSUME BaseInv, NEW a \in use.tasks, NEW op \in use.ops, NEW s \in Nat, op \in Op, Call(a, op, s)
  PROVE  BaseInv'
<1> DEFINE p == CASE op \in {"write", "getattr"}    -> "getattr"
                  [] op \in {"truncate", "settime"} -> "queue"
                  [] OTHER                          -> "lock"
           r == [Idle EXCEPT !.op = op, !.size = s, !.pc = p]
<1>1. a \in Task /\ a \in Actor
  BY AttrQueueAssumption, Actors DEF BaseInv, TypeInv, Use
<1>2. p \in {"getattr", "queue", "lock"}
  OBVIOUS
<1>3. r \in ActType /\ r.pc = p /\ r.op = op
  BY <1>2 DEF Idle, ActType, Pc, NoInode, Record
<1>4. act' = [act EXCEPT ![a] = r] /\ UNCHANGED <<md, lock, cache, ent, q, use>> /\ calls' = calls + 1
  BY DEF Call
<1>5. TypeInv'
  BY <1>1, <1>3, <1>4 DEF BaseInv, TypeInv
<1>6. act'[a] = r /\ \A b \in Actor \ {a} : act'[b] = act[b]
  BY <1>1, <1>4 DEF BaseInv, TypeInv
<1>7. Flow(a)'
  <2>1. act'[a].pc = p /\ act'[a].op = op /\ op \in use'.ops
    BY <1>3, <1>4, <1>6
  <2>2. CASE op \in {"write", "getattr"} /\ p = "getattr"
    BY <1>1, <2>1, <2>2 DEF Flow
  <2>3. CASE op \in {"truncate", "settime"} /\ p = "queue"
    BY <1>1, <2>1, <2>3 DEF Flow
  <2>4. CASE op \in {"setattr", "unlink"} /\ p = "lock"
    BY <1>1, <2>1, <2>4 DEF Flow
  <2> QED BY <2>2, <2>3, <2>4 DEF Op
<1>8. ~(act'[a].pc \in Locking /\ act'[a].op \notin {"write", "getattr"})
  BY <1>3, <1>6 DEF Locking
<1>9. \A n \in Core : a # Flusher(n)
  BY <1>1, Actors
<1> QED BY <1>1, <1>4, <1>5, <1>6, <1>7, <1>8, <1>9, OneMoves DEF BaseInv

(* The record that a coroutine has after it was read.                      *)
Taken(a, m) ==
  IF act[a].op \in {"write", "getattr"} THEN [m EXCEPT !.size = Applied(ent[a[1]], m.size)] ELSE m

NextPc(a, m) ==
  CASE act[a].op = "write"   -> IF m.mode = 0 THEN "failed" ELSE "data"
    [] act[a].op = "getattr" -> "done"
    [] OTHER                 -> "set"

LEMMA TakenType ==
  ASSUME TypeInv, NEW a \in Actor, NEW m \in Record
  PROVE  Taken(a, m) \in Record /\ NextPc(a, m) \in Pc
<1>1. ent[a[1]] \in Entry \cup {None} /\ m.size \in Nat
  BY Actors DEF TypeInv, Record
<1>2. Applied(ent[a[1]], m.size) \in Nat
  BY <1>1, AppliedType
<1> QED BY <1>2 DEF Taken, NextPc, Record, Pc, Ready

(* What __inode_getattr leaves behind.                                     *)
LEMMA HaveDoes ==
  ASSUME TypeInv, NEW a \in Actor, NEW m \in Record, Have(a, m)
  PROVE  /\ act' \in [Actor -> ActType]
         /\ act'[a] = [act[a] EXCEPT !.pc = NextPc(a, m), !.md = Taken(a, m)]
         /\ \A b \in Actor \ {a} : act'[b] = act[b]
<1>1. Taken(a, m) \in Record /\ NextPc(a, m) \in Pc
  BY TakenType
<1>2. act[a] \in ActType
  BY DEF TypeInv
<1>3. act' = [act EXCEPT ![a].md = Taken(a, m), ![a].pc = NextPc(a, m)]
  BY Zenon DEF Have, Taken, NextPc
<1>4. act' = [act EXCEPT ![a] = [act[a] EXCEPT !.md = Taken(a, m), !.pc = NextPc(a, m)]]
  BY <1>3 DEF TypeInv
<1>5. [act[a] EXCEPT !.md = Taken(a, m), !.pc = NextPc(a, m)] \in ActType
  BY <1>1, <1>2 DEF ActType
<1>6. [act[a] EXCEPT !.md = Taken(a, m), !.pc = NextPc(a, m)] =
        [act[a] EXCEPT !.pc = NextPc(a, m), !.md = Taken(a, m)]
  BY <1>2 DEF ActType
<1> QED BY <1>4, <1>5, <1>6 DEF TypeInv

LEMMA CacheUpdateType ==
  ASSUME TypeInv, NEW n \in Core, NEW m \in Record
  PROVE  /\ CacheUpdate(n, m) \in [Core -> Record \cup {None}]
         /\ \A k \in Core \ {n} : CacheUpdate(n, m)[k] = cache[k]
         /\ CacheUpdate(n, m)[n] =
              IF ~use.ac_timeout \/ (cache[n] # None /\ cache[n].ver >= m.ver) THEN cache[n] ELSE m
  BY DEF TypeInv, CacheUpdate

(* The invariant after a step in which a record was read.                  *)
LEMMA HaveBase ==
  ASSUME BaseInv, NEW a \in Actor, NEW m \in Record, Have(a, m), act[a].pc \in {"getattr", "got"},
         UNCHANGED <<md, lock, ent, calls, use>>
  PROVE  FlowInv' /\ LockInv' /\ FlushInv'
<1>1. /\ act'[a] = [act[a] EXCEPT !.pc = NextPc(a, m), !.md = Taken(a, m)]
      /\ \A b \in Actor \ {a} : act'[b] = act[b]
  BY HaveDoes DEF BaseInv
<1>2. act[a] \in ActType
  BY DEF BaseInv, TypeInv
<1>3. act'[a].pc = NextPc(a, m) /\ act'[a].op = act[a].op
  BY <1>1, <1>2 DEF ActType
<1>4. Flow(a) /\ act[a].op \in {"write", "getattr", "setattr", "unlink", "flush"}
  BY DEF BaseInv, FlowInv, Flow
<1>5. Flow(a)'
  <2>1. CASE act[a].op = "write"
    BY <1>3, <1>4, <2>1 DEF Flow, NextPc, Ready
  <2>2. CASE act[a].op = "getattr"
    BY <1>3, <1>4, <2>2 DEF Flow, NextPc, Ready
  <2>3. CASE act[a].op \in {"setattr", "unlink", "flush"}
    BY <1>3, <1>4, <2>3 DEF Flow, NextPc, Ready
  <2> QED BY <1>4, <2>1, <2>2, <2>3
<1>6. act'[a].op \notin {"write", "getattr"} => lock = a
  BY <1>3 DEF BaseInv, LockInv, Locking
<1>7. \A n \in Core : a = Flusher(n) => ent[n] # None /\ ent[n].running
  BY DEF BaseInv, FlushInv
<1> QED BY <1>1, <1>5, <1>6, <1>7, OneMoves

LEMMA GetBase ==
  ASSUME BaseInv, NEW a \in Actor, GetHit(a) \/ Hget(a) \/ HgetRet(a)
  PROVE  BaseInv'
<1>1. a[1] \in Core /\ q[a[1]] \in Seq(Actor) /\ act[a] \in ActType
  BY Actors DEF BaseInv, TypeInv
<1>2. CASE GetHit(a)
  <2>1. cache[a[1]] \in Record /\ Have(a, cache[a[1]])
    BY <1>1, <1>2 DEF GetHit, BaseInv, TypeInv
  <2>2. TypeInv'
    BY <1>2, <2>1, HaveDoes DEF GetHit, BaseInv, TypeInv
  <2>3. FlowInv' /\ LockInv' /\ FlushInv'
    BY <1>2, <2>1, HaveBase DEF GetHit
  <2> QED BY <2>2, <2>3 DEF BaseInv
<1>3. CASE HgetRet(a)
  <2>1. act[a].md \in Record /\ Have(a, act[a].md)
    BY <1>1, <1>3 DEF HgetRet, ActType
  <2>2. q' \in [Core -> Seq(Actor)]
    BY <1>1, <1>3 DEF HgetRet, Answered, BaseInv, TypeInv
  <2>3. TypeInv'
    BY <1>1, <1>3, <2>1, <2>2, HaveDoes, CacheUpdateType DEF HgetRet, BaseInv, TypeInv
  <2>4. FlowInv' /\ LockInv' /\ FlushInv'
    BY <1>3, <2>1, HaveBase DEF HgetRet
  <2> QED BY <2>3, <2>4 DEF BaseInv
<1>4. CASE Hget(a)
  <2>1. /\ act' \in [Actor -> ActType] /\ act'[a] = [act[a] EXCEPT !.pc = "got", !.md = md]
        /\ \A b \in Actor \ {a} : act'[b] = act[b]
    BY <1>4, MovedWith DEF Hget, BaseInv, TypeInv, Pc
  <2>2. q' \in [Core -> Seq(Actor)]
    BY <1>1, <1>4 DEF Hget, BaseInv, TypeInv
  <2>3. TypeInv'
    BY <1>4, <2>1, <2>2 DEF Hget, BaseInv, TypeInv
  <2>4. act'[a].pc = "got" /\ act'[a].op = act[a].op /\ act[a].pc = "getattr"
    BY <1>1, <1>4, <2>1 DEF Hget, ActType
  <2>5. UNCHANGED <<md, lock, cache, ent, calls, use>>
    BY <1>4 DEF Hget
  <2>6. Flow(a)'
    BY <2>4, <2>5 DEF BaseInv, FlowInv, Flow, Ready
  <2>7. act'[a].op \notin {"write", "getattr"} => lock = a
    BY <2>4 DEF BaseInv, LockInv, Locking
  <2>8. \A n \in Core : a = Flusher(n) => ent[n] # None /\ ent[n].running
    BY <2>4 DEF BaseInv, FlushInv
  <2> QED BY <2>1, <2>3, <2>5, <2>6, <2>7, <2>8, OneMoves DEF BaseInv
<1> QED BY <1>2, <1>3, <1>4

(* Steps that change no more than where one actor is.                      *)
LEMMA GotoBase ==
  ASSUME BaseInv, NEW a \in Actor, NEW p \in Pc, Goto(a, p), Flow(a)',
         UNCHANGED <<cache, ent, q, calls, use>>, md' \in Record,
         lock' = lock \/ (lock = None /\ lock' = a),
         p \in Locking /\ act[a].op \notin {"write", "getattr"} => lock' = a,
         \A n \in Core : a = Flusher(n) => act[a].pc # "idle"
  PROVE  BaseInv'
<1>1. /\ act' \in [Actor -> ActType] /\ act'[a] = [act[a] EXCEPT !.pc = p]
      /\ \A b \in Actor \ {a} : act'[b] = act[b]
  BY Moved DEF BaseInv
<1>2. TypeInv'
  BY <1>1 DEF BaseInv, TypeInv
<1>3. act[a] \in ActType
  BY DEF BaseInv, TypeInv
<1>4. act'[a].pc = p /\ act'[a].op = act[a].op
  BY <1>1, <1>3 DEF ActType
<1>5. \A n \in Core : a = Flusher(n) => ent[n] # None /\ ent[n].running
  BY DEF BaseInv, FlushInv
<1> QED BY <1>1, <1>2, <1>4, <1>5, OneMoves DEF BaseInv

(* The fields of an actor that has moved.                                  *)
LEMMA GoneTo ==
  ASSUME BaseInv, NEW a \in Actor, NEW p \in Pc, Goto(a, p)
  PROVE  /\ act'[a].pc = p /\ act'[a].op = act[a].op /\ act'[a].md = act[a].md
         /\ act'[a].size = act[a].size /\ Flow(a)
<1>1. act'[a] = [act[a] EXCEPT !.pc = p] /\ act[a] \in ActType
  BY Moved DEF BaseInv, TypeInv
<1> QED BY <1>1 DEF ActType, BaseInv, FlowInv

LEMMA WrittenBase ==
  ASSUME BaseInv, NEW a \in Actor, Written(a) \/ Wait(a) \/ Lock(a) \/ Del(a)
  PROVE  BaseInv'
<1>1. CASE Written(a)
  <2>1. PICK p \in {"queue", "done"} : Goto(a, p)
    BY <1>1 DEF Written
  <2>2. p \in Pc
    BY DEF Pc, Ready
  <2>3. Flow(a)'
    BY <1>1, <2>1, <2>2, GoneTo DEF Written, Flow, Ready
  <2> QED BY <1>1, <2>1, <2>2, <2>3, GotoBase DEF Written, BaseInv, TypeInv, Locking
<1>2. CASE Wait(a)
  <2>1. Goto(a, "wait") /\ "wait" \in Pc
    BY <1>2 DEF Wait, Pc
  <2>2. Flow(a)'
    BY <1>2, <2>1, GoneTo DEF Wait, Flow, Ready
  <2> QED BY <1>2, <2>1, <2>2, GotoBase DEF Wait, BaseInv, TypeInv, Locking
<1>3. CASE Lock(a)
  <2>1. Goto(a, "getattr") /\ "getattr" \in Pc
    BY <1>3 DEF Lock, Pc
  <2>2. Flow(a)'
    BY <1>3, <2>1, GoneTo DEF Lock, Flow, Ready
  <2> QED BY <1>3, <2>1, <2>2, GotoBase DEF Lock, BaseInv, TypeInv
<1>4. CASE Del(a)
  <2>1. Goto(a, "done") /\ "done" \in Pc
    BY <1>4 DEF Del, Pc, Ready
  <2>2. Flow(a)'
    BY <1>4, <2>1, GoneTo DEF Del, Flow, Ready
  <2>3. md' \in Record
    BY <1>4 DEF Del, NoInode, Record
  <2> QED BY <1>4, <2>1, <2>2, <2>3, GotoBase DEF Del, Locking
<1> QED BY <1>1, <1>2, <1>3, <1>4

(* What a call makes of an entry.                                          *)
LEMMA MergedType ==
  ASSUME NEW e \in Entry, NEW op, NEW s \in Nat
  PROVE  Merged(e, op, s) \in Entry /\ Merged(e, op, s).running = e.running
<1>1. CASE op = "truncate"
  BY <1>1 DEF Merged, Entry
<1>2. CASE op = "write"
  <2>1. Merged(e, op, s) = [e EXCEPT !.set = IF @ = "not" THEN "extern" ELSE @,
                                     !.size = IF e.set = "not" THEN s ELSE Bigger(@, s)]
    BY <1>2 DEF Merged
  <2>2. Bigger(e.size, s) \in Nat
    BY DEF Bigger, Entry
  <2> QED BY <2>1, <2>2 DEF Entry
<1>3. CASE op \notin {"truncate", "write"}
  BY <1>3 DEF Merged
<1> QED BY <1>1, <1>2, <1>3

(* The entry that a call finds or makes.                                   *)
Found(n) == IF ent[n] = None THEN NewEnt ELSE ent[n]

LEMMA QueueDoes ==
  ASSUME BaseInv, NEW a \in Actor, Queue(a)
  PROVE  /\ Found(a[1]) \in Entry /\ ~Found(a[1]).running
         /\ ent' = [ent EXCEPT ![a[1]] = Merged(Found(a[1]), act[a].op, act[a].size)]
         /\ ent' \in [Core -> Entry \cup {None}]
         /\ ent'[a[1]] \in Entry
         /\ \A n \in Core \ {a[1]} : ent'[n] = ent[n]
         /\ act[Flusher(a[1])].pc = "idle"
<1>1. a[1] \in Core /\ act[a] \in ActType /\ ent[a[1]] \in Entry \cup {None}
  BY Actors DEF BaseInv, TypeInv
<1>2. Found(a[1]) \in Entry
  BY <1>1 DEF Found, NewEnt, Entry
<1>3. ~Found(a[1]).running /\ ent' = [ent EXCEPT ![a[1]] = Merged(Found(a[1]), act[a].op, act[a].size)]
  BY DEF Queue, Found
<1>4. Merged(Found(a[1]), act[a].op, act[a].size) \in Entry
  BY <1>1, <1>2, MergedType DEF ActType
<1>5. act[Flusher(a[1])].pc = "idle"
  BY <1>1, <1>3 DEF BaseInv, FlushInv, Found
<1> QED BY <1>1, <1>2, <1>3, <1>4, <1>5 DEF BaseInv, TypeInv

LEMMA QueueBase ==
  ASSUME BaseInv, NEW a \in Actor, Queue(a)
  PROVE  BaseInv'
<1>1. Goto(a, "done") /\ "done" \in Pc /\ UNCHANGED <<md, lock, cache, q, calls, use>>
  BY DEF Queue, Pc, Ready
<1>2. /\ act' \in [Actor -> ActType] /\ \A b \in Actor \ {a} : act'[b] = act[b]
      /\ act'[a].pc = "done" /\ act'[a].op = act[a].op /\ Flow(a)
  BY <1>1, Moved, GoneTo DEF BaseInv
<1>3. TypeInv'
  BY <1>1, <1>2, QueueDoes DEF BaseInv, TypeInv
<1>4. act[a].pc = "queue"
  BY DEF Queue
<1>5. Flow(a)'
  BY <1>1, <1>2, <1>4, Actors DEF Flow, Ready
<1>6. a[1] \in Core
  BY Actors
<1>7. \A n \in Core : act[Flusher(n)].pc # "idle" => ent'[n] = ent[n]
  BY QueueDoes
<1>8. \A n \in Core : a = Flusher(n) => n = a[1]
  BY Actors
<1>9. \A n \in Core : a # Flusher(n)
  BY <1>4, <1>8, QueueDoes
<1> QED BY <1>1, <1>2, <1>3, <1>5, <1>7, <1>9, OneMoves DEF BaseInv, Locking

LEMMA FlushStartBase ==
  ASSUME BaseInv, NEW n \in Core, FlushStart(n)
  PROVE  BaseInv'
<1> DEFINE a == Flusher(n)
           r == [Idle EXCEPT !.pc = "lock", !.op = "flush"]
<1>1. a \in Actor /\ a \notin Task /\ \A k \in Core : a = Flusher(k) => k = n
  BY Actors
<1>2. r \in ActType /\ r.pc = "lock" /\ r.op = "flush"
  BY DEF Idle, ActType, Pc, NoInode, Record
<1>3. /\ act' = [act EXCEPT ![a] = r] /\ ent' = [ent EXCEPT ![n].running = TRUE]
      /\ ent[n] # None /\ UNCHANGED <<md, lock, cache, q, calls, use>>
  BY DEF FlushStart
<1> HIDE DEF a, r
<1>4. ent[n] \in Entry /\ [ent[n] EXCEPT !.running = TRUE] \in Entry
  BY <1>3 DEF BaseInv, TypeInv, Entry
<1>5. /\ ent'[n] = [ent[n] EXCEPT !.running = TRUE] /\ ent' \in [Core -> Entry \cup {None}]
      /\ \A k \in Core \ {n} : ent'[k] = ent[k]
  BY <1>3, <1>4 DEF BaseInv, TypeInv
<1>6. ent'[n].running /\ ent'[n] # None
  BY <1>4, <1>5, AttrQueueAssumption DEF Entry
<1>7. act' \in [Actor -> ActType] /\ act'[a] = r /\ \A b \in Actor \ {a} : act'[b] = act[b]
  BY <1>1, <1>2, <1>3 DEF BaseInv, TypeInv
<1>8. TypeInv'
  BY <1>3, <1>5, <1>7 DEF BaseInv, TypeInv
<1>9. Flow(a)'
  BY <1>1, <1>2, <1>7 DEF Flow
<1>10. \A k \in Core : ent[k] # None /\ ent[k].running => ent'[k] # None /\ ent'[k].running
  BY <1>5, <1>6
<1> QED BY <1>1, <1>2, <1>3, <1>6, <1>7, <1>8, <1>9, <1>10, OneMoves DEF BaseInv, Locking

(* md_attr_update makes a record of a record.                              *)
LEMMA UpdatedType ==
  ASSUME BaseInv, NEW a \in Actor, NEW m \in Record
  PROVE  Updated(a, m) \in Record
<1>1. ent[a[1]] \in Entry \cup {None} /\ m.size \in Nat
  BY Actors DEF BaseInv, TypeInv, Record
<1>2. Applied(ent[a[1]], m.size) \in Nat
  BY <1>1, AppliedType
<1> DEFINE z == Applied(ent[a[1]], m.size)
<1>3. Updated(a, m) \in {m, [m EXCEPT !.size = z, !.ver = @ + 1], [m EXCEPT !.ver = @ + 1]}
  BY DEF Updated
<1>4. z \in Nat
  BY <1>2
<1> HIDE DEF z
<1>5. [m EXCEPT !.size = z, !.ver = @ + 1] \in Record
  <2>1. m.ver + 1 \in Nat
    BY DEF Record
  <2> DEFINE v == m.ver + 1
  <2>2. [m EXCEPT !.size = z, !.ver = @ + 1] = [m EXCEPT !.size = z, !.ver = v]
    OBVIOUS
  <2> HIDE DEF v
  <2> QED BY <1>4, <2>1, <2>2 DEF Record
<1>6. [m EXCEPT !.ver = @ + 1] \in Record
  BY DEF Record
<1> QED BY <1>3, <1>5, <1>6

LEMMA HsetDoes ==
  ASSUME BaseInv, NEW a \in Actor, Hset(a)
  PROVE  /\ md' = Updated(a, act[a].md) /\ md' \in Record
         /\ act' \in [Actor -> ActType]
         /\ act'[a] = [act[a] EXCEPT !.pc = "setret", !.md = md']
         /\ \A b \in Actor \ {a} : act'[b] = act[b]
         /\ q' = [q EXCEPT ![a[1]] = Append(@, a)]
         /\ act[a].pc = "set" /\ UNCHANGED <<lock, cache, ent, calls, use>>
<1>1. act[a] \in ActType
  BY DEF BaseInv, TypeInv
<1>2. md' = Updated(a, act[a].md) /\ Updated(a, act[a].md) \in Record
  BY <1>1, UpdatedType DEF Hset, ActType
<1>3. act' = [act EXCEPT ![a].pc = "setret", ![a].md = md']
  BY DEF Hset
<1>4. "setret" \in Pc /\ md' \in Record /\ TypeInv
  BY <1>2 DEF Pc, BaseInv
<1>5. /\ act' \in [Actor -> ActType]
      /\ act'[a] = [act[a] EXCEPT !.pc = "setret", !.md = md']
      /\ \A b \in Actor \ {a} : act'[b] = act[b]
  BY <1>3, <1>4, MovedWith
<1> QED BY <1>2, <1>4, <1>5 DEF Hset

LEMMA HsetBase ==
  ASSUME BaseInv, NEW a \in Actor, Hset(a) \/ HsetRet(a)
  PROVE  BaseInv'
<1>1. a[1] \in Core /\ q[a[1]] \in Seq(Actor) /\ act[a] \in ActType
  BY Actors DEF BaseInv, TypeInv
<1>2. CASE Hset(a)
  <2> DEFINE s == Append(q[a[1]], a)
  <2>a. s \in Seq(Actor)
    BY <1>1
  <2>c. q' = [q EXCEPT ![a[1]] = s]
    BY <1>2 DEF Hset
  <2> HIDE DEF s
  <2>b. q' \in [Core -> Seq(Actor)]
    BY <1>1, <2>a, <2>c DEF BaseInv, TypeInv
  <2>1. TypeInv'
    BY <1>2, <2>b, HsetDoes DEF BaseInv, TypeInv
  <2>2. act'[a].pc = "setret" /\ act'[a].op = act[a].op /\ act[a].pc = "set"
    BY <1>1, <1>2, HsetDoes DEF ActType
  <2>3. UNCHANGED <<lock, cache, ent, calls, use>> /\ \A b \in Actor \ {a} : act'[b] = act[b]
    BY <1>2, HsetDoes
  <2>4. Flow(a)'
    BY <2>2, <2>3 DEF BaseInv, FlowInv, Flow, Ready
  <2>5. act'[a].op \notin {"write", "getattr"} => lock = a
    BY <2>2 DEF BaseInv, LockInv, Locking
  <2>6. \A n \in Core : a = Flusher(n) => ent[n] # None /\ ent[n].running
    BY <2>2 DEF BaseInv, FlushInv
  <2> QED BY <2>1, <2>3, <2>4, <2>5, <2>6, OneMoves DEF BaseInv
<1>3. CASE HsetRet(a)
  <2>1. /\ act[a].pc = "setret" /\ Goto(a, "unlock") /\ "unlock" \in Pc
        /\ UNCHANGED <<md, lock, ent, calls, use>>
    BY <1>3 DEF HsetRet, Pc
  <2>2. /\ act' \in [Actor -> ActType] /\ \A b \in Actor \ {a} : act'[b] = act[b]
        /\ act'[a].pc = "unlock" /\ act'[a].op = act[a].op /\ Flow(a)
    BY <2>1, Moved, GoneTo DEF BaseInv
  <2>3. q' \in [Core -> Seq(Actor)]
    BY <1>1, <1>3 DEF HsetRet, Answered, BaseInv, TypeInv
  <2>4. cache' \in [Core -> Record \cup {None}]
    BY <1>1, <1>3, CacheUpdateType DEF HsetRet, BaseInv, ActType
  <2>5. TypeInv'
    BY <2>1, <2>2, <2>3, <2>4 DEF BaseInv, TypeInv
  <2>6. Flow(a)'
    BY <2>1, <2>2 DEF Flow, Ready
  <2>7. act'[a].op \notin {"write", "getattr"} => lock = a
    BY <2>1, <2>2 DEF BaseInv, LockInv, Locking
  <2>8. \A n \in Core : a = Flusher(n) => ent[n] # None /\ ent[n].running
    BY <2>1 DEF BaseInv, FlushInv
  <2> QED BY <2>1, <2>2, <2>5, <2>6, <2>7, <2>8, OneMoves DEF BaseInv
<1> QED BY <1>2, <1>3

(* __attr_queue_remove: the flusher stops, and those who waited for it try *)
(* again.                                                                  *)
LEMMA RemovedDoes ==
  ASSUME BaseInv, NEW n \in Core, act' = Removed(n, act)
  PROVE  /\ act' \in [Actor -> ActType] /\ act'[Flusher(n)] = Idle
         /\ \A b \in Actor \ {Flusher(n)} :
              /\ act'[b].op = act[b].op /\ act'[b].md = act[b].md /\ act'[b].size = act[b].size
              /\ \/ act'[b] = act[b]
                 \/ act[b].pc = "wait" /\ act'[b].pc = "queue"
<1>1. Idle \in ActType
  BY DEF Idle, ActType, Pc, Ready, NoInode, Record
<1>2. \A b \in Actor : act[b] \in ActType /\ [act[b] EXCEPT !.pc = "queue"] \in ActType
  BY DEF BaseInv, TypeInv, ActType, Pc
<1>3. act' = [b \in Actor |-> IF b = Flusher(n) THEN Idle
                             ELSE IF b[1] = n /\ act[b].pc = "wait" THEN [act[b] EXCEPT !.pc = "queue"]
                             ELSE act[b]]
  BY DEF Removed
<1>4. Flusher(n) \in Actor
  BY Actors
<1>5. act' \in [Actor -> ActType] /\ act'[Flusher(n)] = Idle
  BY <1>1, <1>2, <1>3, <1>4
<1>6. ASSUME NEW b \in Actor, b # Flusher(n)
      PROVE  /\ act'[b].op = act[b].op /\ act'[b].md = act[b].md /\ act'[b].size = act[b].size
             /\ \/ act'[b] = act[b]
                \/ act[b].pc = "wait" /\ act'[b].pc = "queue"
  <2>1. CASE b[1] = n /\ act[b].pc = "wait"
    <3>1. act'[b] = [act[b] EXCEPT !.pc = "queue"]
      BY <1>3, <1>6, <2>1
    <3> QED BY <1>2, <2>1, <3>1 DEF ActType
  <2>2. CASE ~(b[1] = n /\ act[b].pc = "wait")
    BY <1>3, <1>6, <2>2
  <2> QED BY <2>1, <2>2
<1> QED BY <1>5, <1>6

(* Unlock of a flusher, and a flush that fails.                            *)
LEMMA RemovedBase ==
  ASSUME BaseInv, NEW n \in Core, act' = Removed(n, act), ent' = [ent EXCEPT ![n] = None],
         UNCHANGED <<md, cache, q, calls, use>>,
         lock' = IF lock = Flusher(n) THEN None ELSE lock
  PROVE  BaseInv'
<1>1. ent' \in [Core -> Entry \cup {None}] /\ \A k \in Core \ {n} : ent'[k] = ent[k]
  BY DEF BaseInv, TypeInv
<1>2. TypeInv'
  BY <1>1, RemovedDoes DEF BaseInv, TypeInv
<1>3. Idle.pc = "idle"
  BY DEF Idle
<1>4. FlowInv'
  <2> SUFFICES ASSUME NEW b \in Actor PROVE Flow(b)'
    BY DEF FlowInv
  <2>1. CASE b = Flusher(n)
    BY <1>3, <2>1, RemovedDoes, Actors DEF Flow, Ready
  <2>2. CASE b # Flusher(n)
    BY <2>2, RemovedDoes DEF BaseInv, FlowInv, Flow, Ready
  <2> QED BY <2>1, <2>2
<1>5. LockInv'
  <2> SUFFICES ASSUME NEW b \in Actor, act'[b].pc \in Locking, act'[b].op \notin {"write", "getattr"}
               PROVE  lock' = b
    BY DEF LockInv
  <2>1. b # Flusher(n)
    BY <1>3, RemovedDoes DEF Locking
  <2>2. lock = b
    BY <2>1, RemovedDoes DEF BaseInv, LockInv, Locking
  <2> QED BY <2>1, <2>2
<1>6. FlushInv'
  <2> SUFFICES ASSUME NEW k \in Core, act'[Flusher(k)].pc # "idle"
               PROVE  ent'[k] # None /\ ent'[k].running
    BY DEF FlushInv
  <2>1. k # n
    BY <1>3, RemovedDoes
  <2>2. Flusher(k) \in Actor /\ Flusher(k) # Flusher(n)
    BY <2>1, Actors
  <2>3. act[Flusher(k)].pc # "idle"
    BY <2>2, RemovedDoes
  <2> QED BY <1>1, <2>1, <2>3 DEF BaseInv, FlushInv
<1> QED BY <1>2, <1>4, <1>5, <1>6 DEF BaseInv

LEMMA UnlockBase ==
  ASSUME BaseInv, NEW a \in Actor, Unlock(a)
  PROVE  BaseInv'
<1>1. act[a].pc = "unlock" /\ lock' = None /\ UNCHANGED <<md, cache, q, calls, use>>
  BY DEF Unlock
<1>2. Flow(a) /\ act[a].op \in {"setattr", "unlink", "flush"} /\ lock = a
  BY <1>1 DEF BaseInv, FlowInv, Flow, LockInv, Locking
<1>3. CASE act[a].op = "flush"
  <2>1. a = Flusher(a[1]) /\ a[1] \in Core
    <3>1. a \notin Task
      BY <1>1, <1>2, <1>3, AttrQueueAssumption DEF Flow, Ready, BaseInv, TypeInv, Use, Op
    <3> QED BY <3>1, Actors
  <2>2. ent' = [ent EXCEPT ![a[1]] = None] /\ act' = Removed(a[1], act)
    BY <1>3 DEF Unlock
  <2> QED BY <1>1, <1>2, <2>1, <2>2, RemovedBase
<1>4. CASE act[a].op # "flush"
  <2> DEFINE p == IF act[a].op = "unlink" THEN "del" ELSE "done"
  <2>1. Goto(a, p) /\ ent' = ent /\ p \in Pc /\ p \in {"del", "done"}
    BY <1>4 DEF Unlock, Pc, Ready
  <2>2. /\ act' \in [Actor -> ActType] /\ \A b \in Actor \ {a} : act'[b] = act[b]
        /\ act'[a].pc = p /\ act'[a].op = act[a].op
    BY <2>1, Moved, GoneTo DEF BaseInv
  <2>3. TypeInv'
    BY <1>1, <2>1, <2>2 DEF BaseInv, TypeInv
  <2>4. Flow(a)'
    <3>1. a \in Task /\ act[a].op \in use.ops
      BY <1>1, <1>2, <1>4 DEF Flow, Ready
    <3>2. act'[a].pc = "del" => act'[a].op = "unlink"
      BY <2>2
    <3> QED BY <1>1, <2>1, <2>2, <3>1, <3>2 DEF Flow
  <2>5. \A n \in Core : a = Flusher(n) => ent[n] # None /\ ent[n].running
    BY <1>1 DEF BaseInv, FlushInv
  <2>6. act'[a].pc \notin Locking
    BY <2>1, <2>2 DEF Locking
  <2>7. FlowInv' /\ LockInv' /\ FlushInv'
    <3>1. UNCHANGED <<use, ent>> /\ lock = a /\ \A b \in Actor \ {a} : act'[b] = act[b]
      BY <1>1, <1>2, <2>1, <2>2
    <3> HIDE DEF p
    <3> QED BY <2>4, <2>5, <2>6, <3>1, OneMoves
  <2> QED BY <2>3, <2>7 DEF BaseInv
<1> QED BY <1>3, <1>4

(* A daemon that stops: its tasks fail.                                    *)
LEMMA RestartDoes ==
  ASSUME BaseInv, NEW n \in Core, Restart(n)
  PROVE  /\ act' \in [Actor -> ActType]
         /\ \A b \in Actor : \/ act'[b] = act[b] /\ (b[1] # n \/ act[b].pc \in Ready)
                             \/ b = Flusher(n) /\ act'[b] = Idle
                             \/ b \in Task /\ act'[b].pc = "failed"
<1>1. Idle \in ActType
  BY DEF Idle, ActType, Pc, Ready, NoInode, Record
<1>2. \A b \in Actor : act[b] \in ActType /\ [act[b] EXCEPT !.pc = "failed"] \in ActType
  BY DEF BaseInv, TypeInv, ActType, Pc, Ready
<1>3. act' = [b \in Actor |-> IF b[1] # n \/ act[b].pc \in Ready THEN act[b]
                             ELSE IF b = Flusher(n) THEN Idle
                             ELSE [act[b] EXCEPT !.pc = "failed"]]
  BY DEF Restart
<1>4. act' \in [Actor -> ActType]
  BY <1>1, <1>2, <1>3
<1>5. ASSUME NEW b \in Actor, b[1] = n, act[b].pc \notin Ready, b # Flusher(n)
      PROVE  b \in Task /\ act'[b].pc = "failed"
  <2>1. act'[b] = [act[b] EXCEPT !.pc = "failed"]
    BY <1>3, <1>5
  <2>2. b \in Task
    BY <1>5, Actors
  <2>3. act[b] \in ActType
    BY <1>2
  <2> QED BY <2>1, <2>2, <2>3 DEF ActType
<1> QED BY <1>3, <1>4, <1>5

LEMMA RestartBase ==
  ASSUME BaseInv, NEW n \in Core, Restart(n)
  PROVE  BaseInv'
<1>1. /\ UNCHANGED <<md, lock, calls, use>>
      /\ cache' \in [Core -> Record \cup {None}] /\ ent' \in [Core -> Entry \cup {None}]
      /\ q' \in [Core -> Seq(Actor)] /\ \A k \in Core \ {n} : ent'[k] = ent[k]
  BY DEF Restart, BaseInv, TypeInv
<1>2. TypeInv'
  BY <1>1, RestartDoes DEF BaseInv, TypeInv
<1>3. Idle.pc = "idle"
  BY DEF Idle
<1>4. FlowInv'
  <2> SUFFICES ASSUME NEW b \in Actor PROVE Flow(b)'
    BY DEF FlowInv
  <2>1. CASE act'[b] = act[b]
    BY <1>1, <2>1 DEF BaseInv, FlowInv, Flow
  <2>2. CASE b = Flusher(n) /\ act'[b] = Idle
    BY <1>3, <2>2, Actors DEF Flow, Ready
  <2>3. CASE b \in Task /\ act'[b].pc = "failed"
    BY <2>3 DEF Flow, Ready
  <2> QED BY <2>1, <2>2, <2>3, RestartDoes
<1>5. LockInv'
  BY <1>1, <1>3, RestartDoes DEF BaseInv, LockInv, Locking
<1>6. FlushInv'
  <2> SUFFICES ASSUME NEW k \in Core, act'[Flusher(k)].pc # "idle"
               PROVE  ent'[k] # None /\ ent'[k].running
    BY DEF FlushInv
  <2>1. Flusher(k) \in Actor /\ Flusher(k) \notin Task /\ Flusher(k)[1] = k
    BY Actors
  <2>2. act'[Flusher(k)] = act[Flusher(k)] /\ (k # n \/ act[Flusher(k)].pc \in Ready)
    BY <1>3, <2>1, RestartDoes
  <2>3. act[Flusher(k)].pc \notin {"done", "failed"}
    BY <2>1, <2>2 DEF BaseInv, FlowInv, Flow
  <2> QED BY <1>1, <2>2, <2>3 DEF BaseInv, FlushInv, Ready
<1> QED BY <1>2, <1>4, <1>5, <1>6 DEF BaseInv

(* Every step keeps the invariant.                                         *)
LEMMA NextBase == BaseInv /\ [Next]_vars => BaseInv'
<1> SUFFICES ASSUME BaseInv, [Next]_vars PROVE BaseInv'
  OBVIOUS
<1>1. CASE UNCHANGED vars
  BY <1>1 DEF vars, BaseInv, TypeInv, FlowInv, Flow, LockInv, FlushInv
<1>2. ASSUME NEW a \in use.tasks, NEW op \in use.ops,
             NEW s \in CASE op = "write"    -> use.sizes \ {0}
                         [] op = "truncate" -> use.sizes
                         [] OTHER           -> {0},
             Call(a, op, s)
      PROVE  BaseInv'
  <2>1. s \in Nat /\ op \in Op
    BY CallSize DEF BaseInv
  <2> QED BY <1>2, <2>1, CallBase
<1>3. ASSUME NEW a \in Actor, Step(a) PROVE BaseInv'
  BY <1>3, GetBase, WrittenBase, QueueBase, HsetBase, UnlockBase DEF Step
<1>4. ASSUME NEW n \in Core, FlushStart(n) PROVE BaseInv'
  BY <1>4, FlushStartBase
<1>5. ASSUME NEW n \in Core, Expire(n) PROVE BaseInv'
  BY <1>5 DEF Expire, BaseInv, TypeInv, FlowInv, Flow, LockInv, FlushInv
<1>6. ASSUME NEW n \in Core, FlushFail(n) PROVE BaseInv'
  BY <1>6, RemovedBase DEF FlushFail
<1>7. ASSUME NEW n \in Core, Abort(n) \/ Crash(n) PROVE BaseInv'
  BY <1>7, RestartBase DEF Abort, Crash
<1>8. CASE LockExpire
  <2>1. act[lock].pc \notin Locking /\ lock' = None /\ UNCHANGED <<md, cache, ent, q, act, calls, use>>
    BY <1>8 DEF LockExpire, Locking
  <2> QED BY <2>1 DEF BaseInv, TypeInv, FlowInv, Flow, LockInv, FlushInv
<1>9. \/ \E a \in use.tasks, op \in use.ops :
           \E s \in CASE op = "write"    -> use.sizes \ {0}
                     [] op = "truncate" -> use.sizes
                     [] OTHER           -> {0} : Call(a, op, s)
      \/ \E a \in Actor : Step(a)
      \/ \E n \in Core : FlushStart(n) \/ Expire(n) \/ FlushFail(n) \/ Abort(n) \/ Crash(n)
      \/ LockExpire
      \/ UNCHANGED vars
  BY Zenon DEF Next
<1> QED BY <1>1, <1>2, <1>3, <1>4, <1>5, <1>6, <1>7, <1>8, <1>9

THEOREM BaseHolds == Spec => []BaseInv
  BY InitBase, NextBase, PTL DEF Spec

-----------------------------------------------------------------------------
(* While the file only grows, nobody but a flusher changes the record.     *)
LEMMA OnlyFlushersWrite ==
  ASSUME BaseInv, GrowsUncached, NEW a \in Actor,
         act[a].pc \in {"lock", "set", "setret", "unlock", "del"}
  PROVE  a \notin Task /\ a[1] \in Core /\ a = Flusher(a[1]) /\ act[a].op = "flush"
BY Actors DEF BaseInv, FlowInv, Flow, GrowsUncached, Ready

LEMMA InitGrow == Init => GrowInv
<1> SUFFICES ASSUME Init PROVE GrowInv
  OBVIOUS
<1>1. Idle.pc = "idle"
  BY DEF Idle
<1>2. \A n \in Core : act[Flusher(n)].pc = "idle" /\ ent[n] = None
  BY <1>1, Actors DEF Init
<1> QED BY <1>2 DEF Init, GrowInv

(* The entry does not become a truncation.                                 *)
LEMMA GrowQueue ==
  ASSUME BaseInv, GrowInv, GrowsUncached, NEW a \in Actor, Queue(a)
  PROVE  \A n \in Core : ent'[n] # None => ent'[n].set # "truncate"
<1> DEFINE e == Found(a[1])
<1>1. act[a].pc = "queue" /\ a[1] \in Core
  BY Actors DEF Queue
<1>2. act[a].op \in {"write", "settime"}
  <2>1. a \in Task => act[a].op \in {"write", "settime"}
    BY <1>1 DEF BaseInv, FlowInv, Flow, GrowsUncached, Ready
  <2>2. a \notin Task => act[a].op = "flush"
    BY <1>1 DEF BaseInv, FlowInv, Flow
  <2>3. act[a].op \in {"write", "truncate", "settime"}
    BY <1>1 DEF BaseInv, FlowInv, Flow
  <2> QED BY <2>1, <2>2, <2>3
<1>3. e \in Entry /\ e.set # "truncate"
  BY <1>1, QueueDoes DEF Found, NewEnt, GrowInv
<1>4. \A k \in Core \ {a[1]} : ent'[k] = ent[k]
  BY QueueDoes
<1>5. ent'[a[1]] = Merged(e, act[a].op, act[a].size)
  BY <1>1, QueueDoes DEF BaseInv, TypeInv
<1>6. Merged(e, act[a].op, act[a].size).set # "truncate"
  <2> HIDE DEF e
  <2>1. CASE act[a].op = "write"
    BY <1>3, <2>1 DEF Merged, Entry
  <2>2. CASE act[a].op = "settime"
    BY <1>3, <2>2 DEF Merged
  <2> QED BY <1>2, <2>1, <2>2
<1> QED BY <1>4, <1>5, <1>6 DEF GrowInv

(* A step of one actor keeps what the flushers know of the record.         *)
LEMMA GrowMove ==
  ASSUME BaseInv, GrowInv, GrowsUncached, NEW a \in Actor, md' = md,
         \A b \in Actor \ {a} : act'[b] = act[b],
         act'[a].pc \in {"got", "set"} =>
           \/ act'[a].md = md
           \/ act[a].pc \in {"got", "set"} /\ act'[a].md = act[a].md
  PROVE  \A n \in Core : act'[Flusher(n)].pc \in {"got", "set"} => act'[Flusher(n)].md = md'
<1> SUFFICES ASSUME NEW n \in Core, act'[Flusher(n)].pc \in {"got", "set"}
             PROVE  act'[Flusher(n)].md = md
  OBVIOUS
<1>1. Flusher(n) \in Actor
  BY Actors
<1>2. CASE Flusher(n) = a
  BY <1>2 DEF GrowInv
<1>3. CASE Flusher(n) # a
  BY <1>1, <1>3 DEF GrowInv
<1> QED BY <1>2, <1>3

LEMMA GrowGet ==
  ASSUME BaseInv, GrowInv, GrowsUncached, NEW a \in Actor,
         GetHit(a) \/ Hget(a) \/ HgetRet(a)
  PROVE  /\ cache' = cache /\ ent' = ent /\ md' = md
         /\ \A n \in Core : act'[Flusher(n)].pc \in {"got", "set"} => act'[Flusher(n)].md = md'
<1>1. a[1] \in Core /\ act[a] \in ActType /\ cache[a[1]] = None
  BY Actors DEF BaseInv, TypeInv, GrowInv
<1>2. ~GetHit(a)
  BY <1>1 DEF GetHit
<1>3. CASE Hget(a)
  <2>1. act'[a] = [act[a] EXCEPT !.pc = "got", !.md = md] /\ \A b \in Actor \ {a} : act'[b] = act[b]
    BY <1>3, MovedWith DEF Hget, BaseInv, TypeInv, Pc
  <2>2. act'[a].md = md
    BY <1>1, <2>1 DEF ActType
  <2>3. UNCHANGED <<md, cache, ent>>
    BY <1>3 DEF Hget
  <2> QED BY <2>1, <2>2, <2>3, GrowMove
<1>4. CASE HgetRet(a)
  <2> DEFINE m == act[a].md
  <2>1. m \in Record /\ Have(a, m) /\ act[a].pc = "got"
    BY <1>1, <1>4 DEF HgetRet, ActType
  <2>2. /\ act'[a] = [act[a] EXCEPT !.pc = NextPc(a, m), !.md = Taken(a, m)]
        /\ \A b \in Actor \ {a} : act'[b] = act[b]
    BY <2>1, HaveDoes DEF BaseInv
  <2>3. act'[a].pc = NextPc(a, m) /\ act'[a].md = Taken(a, m)
    BY <1>1, <2>2 DEF ActType
  <2>4. NextPc(a, m) \in {"got", "set"} => Taken(a, m) = m
    BY DEF NextPc, Taken
  <2>5. UNCHANGED <<md, cache, ent>>
    BY <1>4 DEF HgetRet, CacheUpdate, GrowsUncached
  <2> QED BY <2>1, <2>2, <2>3, <2>4, <2>5, GrowMove
<1> QED BY <1>2, <1>3, <1>4

(* The flusher that writes has the lock, so that no other one knows the    *)
(* old record.                                                             *)
LEMMA GrowHset ==
  ASSUME BaseInv, GrowInv, GrowsUncached, NEW a \in Actor, Hset(a)
  PROVE  /\ md'.size >= md.size
         /\ \A n \in Core : act'[Flusher(n)].pc \notin {"got", "set"}
<1>1. act[a].pc = "set" /\ a[1] \in Core /\ a = Flusher(a[1]) /\ act[a].op = "flush"
  BY OnlyFlushersWrite DEF Hset
<1>2. act[a].md = md /\ md \in Record /\ md.size \in Nat
  BY <1>1 DEF GrowInv, BaseInv, TypeInv, Record
<1>3. ent[a[1]] \in Entry /\ ent[a[1]].set # "truncate"
  BY <1>1 DEF BaseInv, TypeInv, FlushInv, GrowInv
<1> DEFINE z == Applied(ent[a[1]], md.size)
<1>4. z \in Nat /\ z >= md.size
  BY <1>2, <1>3, AppliedType
<1>5. md' \in {md, [md EXCEPT !.size = z, !.ver = @ + 1]}
  BY <1>1, <1>2 DEF Hset, Updated
<1>6. md'.size >= md.size
  <2> HIDE DEF z
  <2>1. CASE md' = md
    BY <1>2, <2>1
  <2>2. CASE md' = [md EXCEPT !.size = z, !.ver = @ + 1]
    <3>1. md'.size = z
      BY <1>2, <2>2 DEF Record
    <3> QED BY <1>4, <3>1
  <2> QED BY <1>5, <2>1, <2>2
<1>7. ASSUME NEW n \in Core PROVE act'[Flusher(n)].pc \notin {"got", "set"}
  <2>1. CASE Flusher(n) = a
    <3>1. act'[a] = [act[a] EXCEPT !.pc = "setret", !.md = md'] /\ act[a] \in ActType
      BY HsetDoes DEF BaseInv, TypeInv
    <3> QED BY <2>1, <3>1 DEF ActType
  <2>2. CASE Flusher(n) # a
    <3>1. Flusher(n) \in Actor \ {a} /\ Flusher(n) \notin Task
      BY <2>2, Actors
    <3>2. act'[Flusher(n)] = act[Flusher(n)]
      BY <3>1, HsetDoes
    <3>3. act[Flusher(n)].pc \in {"got", "set"} => lock = Flusher(n)
      BY <3>1 DEF BaseInv, FlowInv, Flow, LockInv, Locking
    <3>4. lock = a
      BY <1>1 DEF BaseInv, LockInv, Locking
    <3> QED BY <2>2, <3>2, <3>3, <3>4
  <2> QED BY <2>1, <2>2
<1> QED BY <1>6, <1>7

LEMMA NextGrow ==
  ASSUME BaseInv, GrowInv, [Next]_vars
  PROVE  GrowInv' /\ (GrowsUncached => md'.size >= md.size)
<1> SUFFICES ASSUME GrowsUncached
             PROVE  /\ cache' = [n \in Core |-> None]
                    /\ \A n \in Core : ent'[n] # None => ent'[n].set # "truncate"
                    /\ \A n \in Core : act'[Flusher(n)].pc \in {"got", "set"} =>
                                         act'[Flusher(n)].md = md'
                    /\ md'.size >= md.size
  <2>1. use' = use
    BY DEF Next, vars, Call, Step, GetHit, Hget, HgetRet, Written, Queue, Wait, Lock, Hset,
           HsetRet, Unlock, Del, FlushStart, Expire, FlushFail, Abort, Crash, Restart, LockExpire
  <2> QED BY <2>1 DEF GrowInv, GrowsUncached
<1>1. /\ cache = [n \in Core |-> None]
      /\ \A n \in Core : ent[n] # None => ent[n].set # "truncate"
      /\ \A n \in Core : act[Flusher(n)].pc \in {"got", "set"} => act[Flusher(n)].md = md
  BY DEF GrowInv
<1>2. md.size \in Nat /\ md.size >= md.size
  BY DEF BaseInv, TypeInv, Record
<1>3. \A n \in Core : Flusher(n) \in Actor /\ Flusher(n) \notin Task
  BY Actors
<1>4. CASE UNCHANGED vars
  BY <1>1, <1>2, <1>4 DEF vars
<1>5. ASSUME NEW a \in use.tasks, NEW op, NEW s, Call(a, op, s)
      PROVE  /\ UNCHANGED <<md, cache, ent>>
             /\ \A n \in Core : act'[Flusher(n)] = act[Flusher(n)]
  <2>1. a \in Task
    BY AttrQueueAssumption DEF BaseInv, TypeInv, Use
  <2>2. \A b \in Actor \ {a} : act'[b] = act[b]
    BY <1>5 DEF Call, BaseInv, TypeInv
  <2> QED BY <1>3, <1>5, <2>1, <2>2 DEF Call
<1>6. ASSUME NEW a \in Actor, GetHit(a) \/ Hget(a) \/ HgetRet(a)
      PROVE  /\ UNCHANGED <<md, cache, ent>>
             /\ \A n \in Core : act'[Flusher(n)].pc \in {"got", "set"} => act'[Flusher(n)].md = md'
  BY <1>6, GrowGet
<1>7. ASSUME NEW a \in Actor, Written(a) \/ Wait(a) \/ Lock(a) \/ HsetRet(a) \/ Queue(a)
      PROVE  /\ UNCHANGED <<md, cache>>
             /\ \A n \in Core : ent'[n] # None => ent'[n].set # "truncate"
             /\ \A n \in Core : act'[Flusher(n)].pc \in {"got", "set"} => act'[Flusher(n)].md = md'
  <2>1. PICK p \in {"queue", "done", "wait", "getattr", "unlock"} : Goto(a, p)
    BY <1>7 DEF Written, Wait, Lock, HsetRet, Queue
  <2>2. p \in Pc /\ p \notin {"got", "set"}
    BY DEF Pc, Ready
  <2>3. act'[a].pc = p /\ \A b \in Actor \ {a} : act'[b] = act[b]
    BY <2>1, <2>2, Moved, GoneTo DEF BaseInv
  <2>4. UNCHANGED <<md, cache>>
    BY <1>7 DEF Written, Wait, Lock, HsetRet, Queue, CacheUpdate, GrowsUncached
  <2>5. \A n \in Core : ent'[n] # None => ent'[n].set # "truncate"
    <3>1. CASE Queue(a)
      BY <3>1, GrowQueue
    <3>2. CASE ~Queue(a)
      BY <1>1, <1>7, <3>2 DEF Written, Wait, Lock, HsetRet
    <3> QED BY <3>1, <3>2
  <2> QED BY <2>2, <2>3, <2>4, <2>5, GrowMove
<1>8. ASSUME NEW a \in Actor, Hset(a)
      PROVE  /\ UNCHANGED <<cache, ent>> /\ md'.size >= md.size
             /\ \A n \in Core : act'[Flusher(n)].pc \in {"got", "set"} => act'[Flusher(n)].md = md'
  BY <1>8, GrowHset DEF Hset
<1>9. ASSUME NEW n \in Core, act' = Removed(n, act), ent' = [ent EXCEPT ![n] = None],
             UNCHANGED <<md, cache>>
      PROVE  /\ \A k \in Core : ent'[k] # None => ent'[k].set # "truncate"
             /\ \A k \in Core : act'[Flusher(k)].pc \in {"got", "set"} => act'[Flusher(k)].md = md'
  <2>1. Idle.pc = "idle"
    BY DEF Idle
  <2>2. \A b \in Actor : act'[b].pc \in {"got", "set"} => act'[b] = act[b]
    BY <1>9, <2>1, RemovedDoes
  <2>3. \A k \in Core : ent'[k] # None => ent'[k] = ent[k]
    BY <1>9 DEF BaseInv, TypeInv
  <2> QED BY <1>1, <1>3, <1>9, <2>2, <2>3
<1>10. ASSUME NEW a \in Actor, Unlock(a) \/ Del(a)
       PROVE  /\ UNCHANGED <<md, cache>>
              /\ \A n \in Core : ent'[n] # None => ent'[n].set # "truncate"
              /\ \A n \in Core : act'[Flusher(n)].pc \in {"got", "set"} => act'[Flusher(n)].md = md'
  <2>1. a[1] \in Core /\ act[a].op = "flush"
    BY <1>10, OnlyFlushersWrite DEF Unlock, Del
  <2>2. Unlock(a)
    BY <1>10, <2>1 DEF Del, BaseInv, FlowInv, Flow
  <2> QED BY <1>9, <2>1, <2>2 DEF Unlock
<1>11. ASSUME NEW n \in Core, FlushStart(n)
       PROVE  /\ UNCHANGED <<md, cache>>
              /\ \A k \in Core : ent'[k] # None => ent'[k].set # "truncate"
              /\ \A k \in Core : act'[Flusher(k)].pc \in {"got", "set"} => act'[Flusher(k)].md = md'
  <2>1. act'[Flusher(n)].pc = "lock" /\ \A b \in Actor \ {Flusher(n)} : act'[b] = act[b]
    <3> DEFINE r == [Idle EXCEPT !.pc = "lock", !.op = "flush"]
    <3>1. r.pc = "lock"
      BY DEF Idle
    <3>2. act' = [act EXCEPT ![Flusher(n)] = r]
      BY <1>11 DEF FlushStart
    <3> HIDE DEF r
    <3> QED BY <1>3, <3>1, <3>2 DEF BaseInv, TypeInv
  <2>2. UNCHANGED <<md, cache>> /\ ent[n] # None /\ ent' = [ent EXCEPT ![n].running = TRUE]
    BY <1>11 DEF FlushStart
  <2>3. ent[n] \in Entry /\ ent' = [ent EXCEPT ![n] = [ent[n] EXCEPT !.running = TRUE]]
    BY <2>2 DEF BaseInv, TypeInv
  <2>4. \A k \in Core : ent'[k] # None => ent[k] # None /\ ent'[k].set = ent[k].set
    BY <2>2, <2>3 DEF Entry, BaseInv, TypeInv
  <2> QED BY <1>1, <1>3, <2>1, <2>2, <2>4
<1>12. \A n \in Core : ~Expire(n) /\ ~FlushFail(n) /\ ~Crash(n)
  BY <1>1 DEF Expire, FlushFail, Crash, GrowsUncached
<1>13. ASSUME NEW n \in Core, Abort(n)
       PROVE  /\ UNCHANGED <<md, cache>>
              /\ \A k \in Core : ent'[k] # None => ent'[k] = ent[k]
              /\ \A k \in Core : act'[Flusher(k)].pc \in {"got", "set"} =>
                                   act'[Flusher(k)] = act[Flusher(k)]
  <2>1. Restart(n)
    BY <1>13 DEF Abort
  <2>2. Idle.pc = "idle"
    BY DEF Idle
  <2>3. UNCHANGED md /\ cache' = [cache EXCEPT ![n] = None] /\ ent' = [ent EXCEPT ![n] = None]
    BY <2>1 DEF Restart
  <2>4. cache' = cache /\ \A k \in Core : ent'[k] # None => ent'[k] = ent[k]
    BY <1>1, <2>3 DEF BaseInv, TypeInv
  <2> QED BY <1>3, <2>1, <2>2, <2>3, <2>4, RestartDoes
<1>14. CASE LockExpire
  BY <1>1, <1>2, <1>14 DEF LockExpire
<1>15. CASE \E a \in use.tasks, op \in use.ops :
              \E s \in CASE op = "write"    -> use.sizes \ {0}
                         [] op = "truncate" -> use.sizes
                         [] OTHER           -> {0} : Call(a, op, s)
  BY <1>1, <1>2, <1>5, <1>15
<1>16. CASE \E a \in Actor : Step(a)
  BY <1>1, <1>2, <1>6, <1>7, <1>8, <1>10, <1>16 DEF Step
<1>17. CASE \E n \in Core : FlushStart(n) \/ Expire(n) \/ FlushFail(n) \/ Abort(n) \/ Crash(n)
  BY <1>1, <1>2, <1>11, <1>12, <1>13, <1>17
<1> QED
  <2>1. \/ \E a \in use.tasks, op \in use.ops :
             \E s \in CASE op = "write"    -> use.sizes \ {0}
                       [] op = "truncate" -> use.sizes
                       [] OTHER           -> {0} : Call(a, op, s)
        \/ \E a \in Actor : Step(a)
        \/ \E n \in Core : FlushStart(n) \/ Expire(n) \/ FlushFail(n) \/ Abort(n) \/ Crash(n)
        \/ LockExpire
        \/ UNCHANGED vars
    BY Zenon DEF Next
  <2> QED BY <1>4, <1>14, <1>15, <1>16, <1>17, <2>1

LEMMA GrowHolds == Spec => []GrowInv
<1>1. BaseInv /\ GrowInv /\ [Next]_vars => GrowInv'
  BY NextGrow
<1> QED BY <1>1, InitGrow, BaseHolds, PTL DEF Spec

(* The flushers of several cores do not undo each other's sizes: each one  *)
(* reads the record under the lock and only makes the size larger.         *)
THEOREM SizeNeverShrinksHolds == Spec => SizeNeverShrinks
<1>1. BaseInv /\ GrowInv /\ [Next]_vars => [GrowsUncached => md'.size >= md.size]_vars
  BY NextGrow
<1> QED BY <1>1, BaseHolds, GrowHolds, PTL DEF Spec, SizeNeverShrinks

-----------------------------------------------------------------------------
(* One core that keeps running: what holds of it.                          *)
AloneNow == BaseInv /\ Alone /\ Elsewhere /\ QueueInv /\ RecordInv

LEMMA OneIs ==
  ASSUME BaseInv, Alone
  PROVE  /\ One \in Core /\ \A a \in use.tasks : a \in Task /\ a \in Actor /\ a[1] = One
         /\ Flusher(One) \in Actor \ Task /\ Flusher(One)[1] = One
         /\ use.faults = {} /\ "unlink" \notin use.ops
<1>1. use.tasks # {} /\ use.tasks \subseteq Task
  BY AttrQueueAssumption DEF BaseInv, TypeInv, Use
<1>2. (CHOOSE a \in use.tasks : TRUE) \in use.tasks
  BY <1>1
<1> QED BY <1>1, <1>2, Actors DEF One, Alone

(* Nobody removes the file.                                                *)
LEMMA NoUnlink ==
  ASSUME BaseInv, Alone, NEW a \in Actor
  PROVE  /\ act[a].pc # "del"
         /\ act[a].pc \notin Ready => act[a].op # "unlink"
<1>1. a \in Task /\ act[a].pc \notin Ready => act[a].op # "unlink"
  BY OneIs DEF BaseInv, FlowInv, Flow
<1>2. a \notin Task /\ act[a].pc \notin Ready => act[a].op # "unlink"
  BY DEF BaseInv, FlowInv, Flow, Ready
<1>3. act[a].pc = "del" => act[a].op = "unlink" /\ act[a].pc \notin Ready
  BY DEF BaseInv, FlowInv, Flow, Ready
<1> QED BY <1>1, <1>2, <1>3

LEMMA AtOne ==
  ASSUME AloneNow, NEW a \in Actor, act[a].pc # "idle"
  PROVE  a[1] = One
<1>1. Idle.pc = "idle"
  BY DEF Idle
<1> QED BY <1>1 DEF AloneNow, Elsewhere

(* Only the holder of the lock changes the record.                         *)
LEMMA OneWriter ==
  ASSUME BaseInv, NEW a \in Actor, NEW b \in Actor,
         act[a].pc \in {"set", "setret", "unlock"},
         \/ act[b].pc \in {"set", "setret", "unlock"}
         \/ act[b].pc \in Locking /\ act[b].op \notin {"write", "getattr"}
  PROVE  a = b
<1>1. act[a].op \in {"setattr", "unlink", "flush"}
  BY DEF BaseInv, FlowInv, Flow
<1>2. act[b].pc \in {"set", "setret", "unlock"} => act[b].op \in {"setattr", "unlink", "flush"}
  BY DEF BaseInv, FlowInv, Flow
<1>3. lock = a /\ lock = b
  BY <1>1, <1>2 DEF BaseInv, LockInv, Locking
<1> QED BY <1>3

(* Whatever record a client gets: with the queue it has the size that the  *)
(* record in redis has with the queue.                                     *)
LEMMA NearSize ==
  ASSUME NEW m, Near(m)
  PROVE  Applied(ent[One], m.size) = Applied(ent[One], md.size)
BY DEF Near, Older

LEMMA NearMode ==
  ASSUME RecordInv, NEW m, Near(m)
  PROVE  m.mode = 1
BY DEF Near, Older, RecordInv

(* A record stays near as long as the hset that is on its way is.          *)
LEMMA StillNear ==
  ASSUME md' = md, use' = use,
         \A h \in Actor : act[h].pc = "setret" => act'[h].pc = "setret",
         act[Flusher(One)].pc = "setret" => ent'[One] = ent[One]
  PROVE  \A m : Near(m) => Near(m)'
<1> SUFFICES ASSUME NEW m, Near(m) PROVE Near(m)'
  OBVIOUS
<1>1. One' = One
  BY DEF One
<1>2. CASE m = md
  BY <1>2 DEF Near
<1>3. CASE Older(m)
  <2>1. PICK h \in Actor :
          /\ act[h].pc = "setret"
          /\ IF h = Flusher(One) THEN Applied(ent[One], m.size) = Applied(ent[One], md.size)
             ELSE m.size = md.size
    BY <1>3 DEF Older
  <2>2. act'[h].pc = "setret"
    BY <2>1
  <2>3. IF h = Flusher(One) THEN Applied(ent'[One], m.size) = Applied(ent'[One], md.size)
        ELSE m.size = md.size
    BY <2>1
  <2>4. Older(m)'
    BY <1>1, <1>3, <2>2, <2>3 DEF Older, Flusher
  <2> QED BY <2>4 DEF Near
<1> QED BY <1>2, <1>3 DEF Near

(* Nothing happens elsewhere.                                              *)
LEMMA ElsewhereKept ==
  ASSUME Elsewhere, use' = use,
         \A b \in Actor : b[1] # One => act'[b] = act[b],
         \A n \in Core \ {One} : cache'[n] = cache[n] /\ ent'[n] = ent[n] /\ q'[n] = q[n]
  PROVE  Elsewhere'
<1>1. One' = One
  BY DEF One
<1> QED BY <1>1 DEF Elsewhere

(* Nobody asks redis, nor gets an answer.                                  *)
LEMMA QueueKept ==
  ASSUME QueueInv, use' = use, q'[One] = q[One], md' = md, q[One] \in Seq(Actor),
         \A b \in Actor : Asking(b) => act'[b].pc = act[b].pc /\ act'[b].md = act[b].md,
         \A b \in Actor : Asking(b)' => Asking(b)
  PROVE  QueueInv'
<1>1. One' = One
  BY DEF One
<1>2. \A i \in 1..Len(q[One]) : q[One][i] \in Actor
  OBVIOUS
<1>3. \A b \in Actor : Asking(b)' <=> Asking(b)
  BY DEF Asking
<1> QED BY <1>1, <1>2, <1>3 DEF QueueInv

(* Redis executes a command of a; after an hset it has the new record.     *)
LEMMA QueueAppended ==
  ASSUME QueueInv, use' = use, NEW a \in Actor, a[1] = One, q[One] \in Seq(Actor),
         q'[One] = Append(q[One], a), ~Asking(a), Asking(a)', act'[a].md = md',
         \A b \in Actor \ {a} : act'[b] = act[b],
         md' = md \/ \A b \in Actor : act[b].pc # "setret"
  PROVE  QueueInv'
<1> DEFINE s == q[One]  t == q'[One]
<1>1. One' = One
  BY DEF One
<1>2. /\ Len(s) \in Nat /\ Len(t) = Len(s) + 1 /\ t[Len(s) + 1] = a
      /\ \A i \in 1..Len(s) : t[i] = s[i] /\ s[i] \in Actor
  OBVIOUS
<1>3. \A i \in 1..Len(s) : Asking(s[i]) /\ s[i] # a /\ s[i][1] = One /\ act'[s[i]] = act[s[i]]
  BY <1>2 DEF QueueInv
<1>4. \A i, j \in 1..Len(s) :
        i < j => /\ s[i] # s[j]
                 /\ act[s[i]].pc = "setret" => act[s[j]].md = md
  BY DEF QueueInv
<1>5. \A b \in Actor : Asking(b) => \E i \in 1..Len(s) : s[i] = b
  BY DEF QueueInv
<1> HIDE DEF s, t
<1>6. \A i \in 1..Len(t) : i = Len(s) + 1 \/ i \in 1..Len(s)
  BY <1>2
<1>7. \A i \in 1..Len(t) : t[i][1] = One /\ act'[t[i]].pc \in {"got", "setret"}
  <2> SUFFICES ASSUME NEW i \in 1..Len(t) PROVE t[i][1] = One /\ act'[t[i]].pc \in {"got", "setret"}
    OBVIOUS
  <2>1. CASE i = Len(s) + 1
    BY <1>2, <2>1 DEF Asking
  <2>2. CASE i \in 1..Len(s)
    BY <1>2, <1>3, <2>2 DEF Asking
  <2> QED BY <1>6, <2>1, <2>2
<1>8. \A b \in Actor : Asking(b)' => \E i \in 1..Len(t) : t[i] = b
  <2> SUFFICES ASSUME NEW b \in Actor, Asking(b)' PROVE \E i \in 1..Len(t) : t[i] = b
    OBVIOUS
  <2>1. CASE b = a
    BY <1>2, <2>1
  <2>2. CASE b # a
    <3>1. PICK i \in 1..Len(s) : s[i] = b
      BY <1>5, <2>2 DEF Asking
    <3> QED BY <1>2, <3>1
  <2> QED BY <2>1, <2>2
<1>9. ASSUME NEW i \in 1..Len(t), NEW j \in 1..Len(t), i < j
      PROVE  t[i] # t[j] /\ (act'[t[i]].pc = "setret" => act'[t[j]].md = md')
  <2>1. i \in 1..Len(s) /\ t[i] = s[i] /\ act'[s[i]] = act[s[i]] /\ s[i] # a /\ s[i] \in Actor
    BY <1>2, <1>3, <1>6, <1>9
  <2>2. CASE j = Len(s) + 1
    BY <1>2, <2>1, <2>2
  <2>3. CASE j \in 1..Len(s)
    <3>1. t[j] = s[j] /\ act'[s[j]] = act[s[j]]
      BY <1>2, <1>3, <2>3
    <3>2. s[i] # s[j] /\ (act[s[i]].pc = "setret" => act[s[j]].md = md)
      BY <1>4, <1>9, <2>1, <2>3
    <3> QED BY <2>1, <3>1, <3>2
  <2> QED BY <1>6, <2>2, <2>3
<1> QED
  <2>1. \A i, j \in 1..Len(t) :
          i < j => /\ t[i] # t[j]
                   /\ act'[t[i]].pc = "setret" => act'[t[j]].md = md'
    BY <1>9
  <2>2. (\A i \in 1..Len(q[One]) : q[One][i][1] = One /\ Asking(q[One][i]))'
    BY <1>1, <1>7 DEF t, Asking
  <2>3. (\A b \in Actor : Asking(b) => \E i \in 1..Len(q[One]) : q[One][i] = b)'
    BY <1>1, <1>8 DEF t
  <2>4. (\A i, j \in 1..Len(q[One]) :
           i < j => /\ q[One][i] # q[One][j]
                    /\ act[q[One][i]].pc = "setret" => act[q[One][j]].md = md)'
    <3> SUFFICES ASSUME NEW i \in 1..Len(q'[One']), NEW j \in 1..Len(q'[One']), i < j
                 PROVE  /\ q'[One'][i] # q'[One'][j]
                        /\ act'[q'[One'][i]].pc = "setret" => act'[q'[One'][j]].md = md'
      OBVIOUS
    <3>1. q'[One'] = t
      BY <1>1 DEF t
    <3>2. i \in 1..Len(t) /\ j \in 1..Len(t)
      BY <3>1
    <3>3. t[i] # t[j] /\ (act'[t[i]].pc = "setret" => act'[t[j]].md = md')
      BY <2>1, <3>2
    <3> QED BY <3>1, <3>3
  <2> QED BY <2>2, <2>3, <2>4 DEF QueueInv

(* A command of a is answered.                                             *)
LEMMA QueueAnswered ==
  ASSUME QueueInv, use' = use, NEW a \in Actor, q[One] \in Seq(Actor), q[One] # <<>>,
         Head(q[One]) = a, q'[One] = Tail(q[One]), ~Asking(a)',
         \A b \in Actor \ {a} : act'[b] = act[b], md' = md
  PROVE  QueueInv'
<1> DEFINE s == q[One]  t == q'[One]
<1>1. One' = One
  BY DEF One
<1>2. /\ Len(s) \in Nat \ {0} /\ Len(t) = Len(s) - 1 /\ s[1] = a
      /\ \A i \in 1..Len(t) : t[i] = s[i + 1]
      /\ \A i \in 1..Len(s) : s[i] \in Actor
  OBVIOUS
<1>3. \A i \in 1..Len(s) : Asking(s[i]) /\ s[i][1] = One
  BY DEF QueueInv
<1>4. \A i, j \in 1..Len(s) :
        i < j => /\ s[i] # s[j]
                 /\ act[s[i]].pc = "setret" => act[s[j]].md = md
  BY DEF QueueInv
<1>5. \A b \in Actor : Asking(b) => \E i \in 1..Len(s) : s[i] = b
  BY DEF QueueInv
<1> HIDE DEF s, t
<1>6. \A i \in 1..Len(t) : i + 1 \in 1..Len(s) /\ 1 < i + 1 /\ 1 \in 1..Len(s)
  BY <1>2
<1>7. \A i \in 1..Len(t) : s[i + 1] # a /\ act'[s[i + 1]] = act[s[i + 1]]
  BY <1>2, <1>4, <1>6
<1>8. \A i \in 1..Len(t) : t[i][1] = One /\ act'[t[i]].pc \in {"got", "setret"}
  <2> SUFFICES ASSUME NEW i \in 1..Len(t)
               PROVE  t[i][1] = One /\ act'[t[i]].pc \in {"got", "setret"}
    OBVIOUS
  <2>1. t[i] = s[i + 1] /\ act'[s[i + 1]] = act[s[i + 1]] /\ i + 1 \in 1..Len(s)
    BY <1>2, <1>6, <1>7
  <2> QED BY <1>3, <2>1 DEF Asking
<1>9. \A b \in Actor : Asking(b)' => \E i \in 1..Len(t) : t[i] = b
  <2> SUFFICES ASSUME NEW b \in Actor, Asking(b)' PROVE \E i \in 1..Len(t) : t[i] = b
    OBVIOUS
  <2>1. b # a /\ Asking(b)
    BY DEF Asking
  <2>2. PICK i \in 1..Len(s) : s[i] = b
    BY <1>5, <2>1
  <2>3. i # 1 /\ i - 1 \in 1..Len(t) /\ (i - 1) + 1 = i
    BY <1>2, <2>1, <2>2
  <2>4. t[i - 1] = b
    BY <1>2, <2>2, <2>3
  <2> QED BY <2>3, <2>4
<1>10. ASSUME NEW i \in 1..Len(t), NEW j \in 1..Len(t), i < j
       PROVE  t[i] # t[j] /\ (act'[t[i]].pc = "setret" => act'[t[j]].md = md')
  <2>1. i + 1 \in 1..Len(s) /\ j + 1 \in 1..Len(s) /\ i + 1 < j + 1
    BY <1>2, <1>10
  <2>2. t[i] = s[i + 1] /\ t[j] = s[j + 1]
    BY <1>2
  <2>3. act'[s[i + 1]] = act[s[i + 1]] /\ act'[s[j + 1]] = act[s[j + 1]]
    BY <1>7
  <2>4. s[i + 1] # s[j + 1] /\ (act[s[i + 1]].pc = "setret" => act[s[j + 1]].md = md)
    BY <1>4, <2>1
  <2> QED BY <2>2, <2>3, <2>4
<1> QED
  <2>1. \A i, j \in 1..Len(t) :
          i < j => /\ t[i] # t[j]
                   /\ act'[t[i]].pc = "setret" => act'[t[j]].md = md'
    BY <1>10
  <2>2. (\A i \in 1..Len(q[One]) : q[One][i][1] = One /\ Asking(q[One][i]))'
    BY <1>1, <1>8 DEF t, Asking
  <2>3. (\A b \in Actor : Asking(b) => \E i \in 1..Len(q[One]) : q[One][i] = b)'
    BY <1>1, <1>9 DEF t
  <2>4. (\A i, j \in 1..Len(q[One]) :
           i < j => /\ q[One][i] # q[One][j]
                    /\ act[q[One][i]].pc = "setret" => act[q[One][j]].md = md)'
    <3> SUFFICES ASSUME NEW i \in 1..Len(q'[One']), NEW j \in 1..Len(q'[One']), i < j
                 PROVE  /\ q'[One'][i] # q'[One'][j]
                        /\ act'[q'[One'][i]].pc = "setret" => act'[q'[One'][j]].md = md'
      OBVIOUS
    <3>1. q'[One'] = t
      BY <1>1 DEF t
    <3>2. i \in 1..Len(t) /\ j \in 1..Len(t)
      BY <3>1
    <3>3. t[i] # t[j] /\ (act'[t[i]].pc = "setret" => act'[t[j]].md = md')
      BY <2>1, <3>2
    <3> QED BY <3>1, <3>3
  <2> QED BY <2>2, <2>3, <2>4 DEF QueueInv

(* The record in redis stays, and nobody comes to know another one.        *)
LEMMA RecordKept ==
  ASSUME RecordInv, md' = md, use' = use,
         \A h \in Actor : act[h].pc = "setret" => act'[h].pc = "setret",
         act[Flusher(One)].pc = "setret" => ent'[One] = ent[One],
         cache'[One] # None => use.ac_timeout,
         \A m \in Known' : Near(m),
         \A b \in Actor : act'[b].pc \in {"set", "setret"} =>
           \/ act'[b].md = md
           \/ act[b].pc \in {"set", "setret"} /\ act'[b].md = act[b].md,
         act'[Flusher(One)].pc \in {"setret", "unlock"} =>
           act[Flusher(One)].pc \in {"setret", "unlock"} /\ ent'[One] = ent[One]
  PROVE  RecordInv'
<1>1. One' = One
  BY DEF One
<1>2. \A m : Near(m) => Near(m)'
  BY StillNear
<1>3. \A m \in Known' : Near(m)'
  BY <1>2
<1>4. /\ md'.mode = 1 /\ (cache[One] # None => use.ac_timeout)'
      /\ \A a \in Actor : act'[a].pc \in {"set", "setret"} => act'[a].md = md'
  BY <1>1 DEF RecordInv
<1>5. (act[Flusher(One)].pc \in {"setret", "unlock"} => Applied(ent[One], md.size) = md.size)'
  <2>1. Flusher(One)' = Flusher(One)
    BY <1>1 DEF Flusher
  <2> QED BY <1>1, <2>1 DEF RecordInv
<1> QED BY <1>3, <1>4, <1>5 DEF RecordInv

(* What one actor does with a record that is known.                        *)
LEMMA KnownMove ==
  ASSUME RecordInv, use' = use, NEW a \in Actor, \A b \in Actor \ {a} : act'[b] = act[b],
         NEW m0, Near(m0), cache'[One] \in {cache[One], None, m0},
         act'[a].pc = "got" => act'[a].md = m0
  PROVE  \A m \in Known' : Near(m)
<1> SUFFICES ASSUME NEW m, m \in Known' PROVE Near(m)
  OBVIOUS
<1>1. One' = One
  BY DEF One
<1>2. CASE m = cache'[One] /\ m # None
  <2>1. m = m0 \/ m \in Known
    BY <1>2 DEF Known
  <2> QED BY <2>1 DEF RecordInv
<1>3. CASE \E b \in Actor : act'[b].pc = "got" /\ m = act'[b].md
  <2>1. PICK b \in Actor : act'[b].pc = "got" /\ m = act'[b].md
    BY <1>3
  <2>2. b # a => m \in Known
    BY <2>1 DEF Known
  <2>3. m = m0 \/ m \in Known
    BY <2>1, <2>2
  <2> QED BY <2>3 DEF RecordInv
<1> QED BY <1>1, <1>2, <1>3 DEF Known

LEMMA MdNear == Near(md)
BY DEF Near

(* A step of one actor that has nothing to do with redis.                  *)
LEMMA MoveKeeps ==
  ASSUME AloneNow, NEW a \in Actor, a[1] = One, UNCHANGED <<md, cache, q, use>>,
         \A b \in Actor \ {a} : act'[b] = act[b],
         act[a].pc \notin {"got", "set", "setret"}, act'[a].pc \notin {"got", "setret"},
         act'[a].pc = "set" => act'[a].md = md,
         a = Flusher(One) => act'[a].pc # "unlock",
         \A n \in Core \ {One} : ent'[n] = ent[n],
         ent' = ent \/ act[Flusher(One)].pc \notin {"setret", "unlock"}
  PROVE  Elsewhere' /\ QueueInv' /\ RecordInv'
<1>1. Elsewhere'
  BY ElsewhereKept DEF AloneNow
<1>2. QueueInv'
  BY OneIs, QueueKept DEF AloneNow, Asking, BaseInv, TypeInv
<1>3. RecordInv'
  <2>1. \A m \in Known' : Near(m)
    BY KnownMove, MdNear DEF AloneNow
  <2>2. cache'[One] # None => use.ac_timeout
    BY DEF AloneNow, RecordInv
  <2>3. act'[Flusher(One)].pc \in {"setret", "unlock"} =>
          act[Flusher(One)].pc \in {"setret", "unlock"} /\ ent'[One] = ent[One]
    <3>1. Flusher(One) \in Actor
      BY OneIs DEF AloneNow
    <3> QED BY <3>1
  <2>4. \A b \in Actor : act'[b].pc \in {"set", "setret"} =>
          \/ act'[b].md = md
          \/ act[b].pc \in {"set", "setret"} /\ act'[b].md = act[b].md
    OBVIOUS
  <2>5. \A h \in Actor : act[h].pc = "setret" => act'[h].pc = "setret"
    OBVIOUS
  <2>6. act[Flusher(One)].pc = "setret" => ent'[One] = ent[One]
    OBVIOUS
  <2> QED BY <2>1, <2>2, <2>3, <2>4, <2>5, <2>6, RecordKept DEF AloneNow
<1> QED BY <1>1, <1>2, <1>3

LEMMA CallAlone ==
  ASSUME AloneNow, NEW a \in use.tasks, NEW op, NEW s, Call(a, op, s)
  PROVE  Elsewhere' /\ QueueInv' /\ RecordInv'
<1> DEFINE p == CASE op \in {"write", "getattr"}    -> "getattr"
                  [] op \in {"truncate", "settime"} -> "queue"
                  [] OTHER                          -> "lock"
           r == [Idle EXCEPT !.op = op, !.size = s, !.pc = p]
<1>1. a \in Task /\ a \in Actor /\ a[1] = One /\ a # Flusher(One)
  BY OneIs DEF AloneNow
<1>2. p \in {"getattr", "queue", "lock"}
  OBVIOUS
<1>3. r.pc = p
  BY DEF Idle
<1>4. act' = [act EXCEPT ![a] = r] /\ UNCHANGED <<md, lock, cache, ent, q, use>> /\ act[a].pc \in Ready
  BY DEF Call
<1> HIDE DEF r, p
<1>5. act'[a] = r /\ \A b \in Actor \ {a} : act'[b] = act[b]
  BY <1>1, <1>4 DEF AloneNow, BaseInv, TypeInv
<1>6. act[a].pc \notin {"got", "set", "setret"} /\ act'[a].pc \notin {"got", "setret", "set"}
  BY <1>2, <1>3, <1>4, <1>5 DEF Ready
<1> QED BY <1>1, <1>4, <1>5, <1>6, MoveKeeps

LEMMA WrittenAlone ==
  ASSUME AloneNow, NEW a \in Actor, Written(a) \/ Wait(a) \/ Lock(a) \/ Queue(a)
  PROVE  Elsewhere' /\ QueueInv' /\ RecordInv'
<1>1. PICK p \in {"queue", "done", "wait", "getattr"} : Goto(a, p)
  BY DEF Written, Wait, Lock, Queue
<1>2. p \in Pc
  BY DEF Pc, Ready
<1>3. act'[a].pc = p /\ \A b \in Actor \ {a} : act'[b] = act[b]
  BY <1>1, <1>2, Moved, GoneTo DEF AloneNow, BaseInv
<1>4. UNCHANGED <<md, cache, q, use>>
  BY DEF Written, Wait, Lock, Queue
<1>5. act[a].pc \in {"data", "queue", "lock"}
  BY DEF Written, Wait, Lock, Queue
<1>6. a[1] = One
  BY <1>5, AtOne
<1>7. /\ \A n \in Core \ {One} : ent'[n] = ent[n]
      /\ ent' = ent \/ act[Flusher(One)].pc \notin {"setret", "unlock"}
  <2>1. CASE Queue(a)
    BY <1>6, <2>1, QueueDoes DEF AloneNow
  <2>2. CASE ~Queue(a)
    BY <2>2 DEF Written, Wait, Lock
  <2> QED BY <2>1, <2>2
<1> QED BY <1>1, <1>3, <1>4, <1>5, <1>6, <1>7, MoveKeeps

LEMMA FlushStartAlone ==
  ASSUME AloneNow, NEW n \in Core, FlushStart(n)
  PROVE  n = One /\ Elsewhere' /\ QueueInv' /\ RecordInv'
<1> DEFINE a == Flusher(n)
           r == [Idle EXCEPT !.pc = "lock", !.op = "flush"]
<1>1. r.pc = "lock"
  BY DEF Idle
<1>2. /\ act' = [act EXCEPT ![a] = r] /\ ent' = [ent EXCEPT ![n].running = TRUE]
      /\ ent[n] # None /\ act[a].pc = "idle" /\ UNCHANGED <<md, lock, cache, q, calls, use>>
  BY DEF FlushStart
<1>3. n = One
  BY <1>2 DEF AloneNow, Elsewhere
<1>4. a \in Actor /\ a[1] = One /\ a = Flusher(One)
  BY <1>3, Actors
<1> HIDE DEF r, a
<1>5. act'[a] = r /\ \A b \in Actor \ {a} : act'[b] = act[b]
  BY <1>2, <1>4 DEF AloneNow, BaseInv, TypeInv
<1>6. \A k \in Core \ {One} : ent'[k] = ent[k]
  BY <1>2, <1>3 DEF AloneNow, BaseInv, TypeInv
<1>7. act[Flusher(One)].pc \notin {"setret", "unlock"} /\ act[a].pc \notin {"got", "set", "setret"}
  BY <1>2, <1>4
<1> QED BY <1>1, <1>2, <1>3, <1>4, <1>5, <1>6, <1>7, MoveKeeps

(* The holder of the lock that gets a record has the one in redis.         *)
LEMMA HolderHas ==
  ASSUME AloneNow, NEW a \in Actor, act[a].pc \in {"getattr", "got"},
         act[a].op \notin {"write", "getattr"}, NEW m, Near(m)
  PROVE  m = md
<1>1. act[a].pc \in Locking
  BY DEF Locking
<1>2. ASSUME NEW h \in Actor, act[h].pc = "setret" PROVE FALSE
  BY <1>1, <1>2, OneWriter DEF AloneNow
<1> QED BY <1>2 DEF Near, Older

(* A coroutine has the record m, which is near: it comes to data, done or  *)
(* set, and in set it has the record of redis.                             *)
LEMMA HaveAlone ==
  ASSUME AloneNow, NEW a \in Actor, act[a].pc \in {"getattr", "got"}, NEW m \in Record,
         Near(m), Have(a, m)
  PROVE  /\ a[1] = One /\ \A b \in Actor \ {a} : act'[b] = act[b]
         /\ act'[a].pc \in {"data", "done", "set"} /\ act'[a].op = act[a].op
         /\ act'[a].size = act[a].size
         /\ act'[a].pc = "set" => act'[a].md = md
         /\ act'[a].pc # "set" => /\ act'[a].md.size = Applied(ent[One], md.size)
                                  /\ act'[a].pc = IF act[a].op = "write" THEN "data" ELSE "done"
<1>1. a[1] = One
  BY AtOne
<1>2. /\ act'[a] = [act[a] EXCEPT !.pc = NextPc(a, m), !.md = Taken(a, m)]
      /\ \A b \in Actor \ {a} : act'[b] = act[b]
  BY HaveDoes DEF AloneNow, BaseInv
<1>3. act[a] \in ActType
  BY DEF AloneNow, BaseInv, TypeInv
<1>4. /\ act'[a].pc = NextPc(a, m) /\ act'[a].md = Taken(a, m) /\ act'[a].op = act[a].op
      /\ act'[a].size = act[a].size
  BY <1>2, <1>3 DEF ActType
<1>5. m.mode = 1
  BY NearMode DEF AloneNow
<1>6. CASE act[a].op \in {"write", "getattr"}
  <2>1. Taken(a, m) = [m EXCEPT !.size = Applied(ent[One], m.size)]
    BY <1>1, <1>6 DEF Taken
  <2>2. Taken(a, m).size = Applied(ent[One], m.size)
    BY <2>1 DEF Record
  <2>3. Taken(a, m).size = Applied(ent[One], md.size)
    BY <2>2, NearSize
  <2>4. NextPc(a, m) = IF act[a].op = "write" THEN "data" ELSE "done"
    BY <1>5, <1>6 DEF NextPc
  <2> QED BY <1>1, <1>2, <1>4, <2>3, <2>4
<1>7. CASE act[a].op \notin {"write", "getattr"}
  <2>1. Taken(a, m) = m /\ NextPc(a, m) = "set"
    BY <1>7 DEF Taken, NextPc
  <2>2. m = md
    BY <1>7, HolderHas
  <2> QED BY <1>1, <1>2, <1>4, <2>1, <2>2
<1> QED BY <1>6, <1>7

(* What a copy or an answer of the core is.                                *)
LEMMA KnownNear ==
  ASSUME AloneNow
  PROVE  /\ cache[One] # None => Near(cache[One])
         /\ \A a \in Actor : act[a].pc = "got" => Near(act[a].md)
<1>1. cache[One] # None => cache[One] \in Known
  BY DEF Known
<1>2. \A a \in Actor : act[a].pc = "got" => act[a].md \in Known
  BY DEF Known
<1> QED BY <1>1, <1>2 DEF AloneNow, RecordInv

LEMMA GetHitAlone ==
  ASSUME AloneNow, NEW a \in Actor, GetHit(a)
  PROVE  Elsewhere' /\ QueueInv' /\ RecordInv'
<1>1. a[1] = One
  BY AtOne DEF GetHit
<1>2. /\ act[a].pc = "getattr" /\ cache[One] # None /\ Have(a, cache[One])
      /\ UNCHANGED <<md, lock, cache, ent, q, calls, use>>
  BY <1>1 DEF GetHit
<1>3. cache[One] \in Record /\ Near(cache[One])
  BY <1>2, KnownNear, OneIs DEF AloneNow, BaseInv, TypeInv
<1>4. /\ \A b \in Actor \ {a} : act'[b] = act[b]
      /\ act'[a].pc \in {"data", "done", "set"} /\ (act'[a].pc = "set" => act'[a].md = md)
  BY <1>2, <1>3, HaveAlone
<1> QED BY <1>1, <1>2, <1>4, MoveKeeps

(* The queue of the core, when a's answer comes.                           *)
LEMMA AnsweredOne ==
  ASSUME AloneNow, NEW a \in Actor, a[1] = One, Answered(a), ~Asking(a)', md' = md, use' = use,
         \A b \in Actor \ {a} : act'[b] = act[b]
  PROVE  QueueInv' /\ \A n \in Core \ {One} : q'[n] = q[n]
<1>1. /\ q[One] \in Seq(Actor) /\ q[One] # <<>> /\ Head(q[One]) = a
      /\ q' = [q EXCEPT ![One] = Tail(q[One])]
  BY OneIs DEF Answered, AloneNow, BaseInv, TypeInv
<1>2. q'[One] = Tail(q[One]) /\ \A n \in Core \ {One} : q'[n] = q[n]
  BY <1>1, OneIs DEF AloneNow, BaseInv, TypeInv
<1>3. QueueInv
  BY DEF AloneNow
<1> QED BY <1>1, <1>2, <1>3, QueueAnswered

LEMMA HgetRetAlone ==
  ASSUME AloneNow, NEW a \in Actor, HgetRet(a)
  PROVE  Elsewhere' /\ QueueInv' /\ RecordInv'
<1> DEFINE m == act[a].md
<1>1. a[1] = One /\ One \in Core
  BY AtOne, OneIs DEF HgetRet, AloneNow
<1>2. /\ act[a].pc = "got" /\ Answered(a) /\ cache' = CacheUpdate(One, m) /\ Have(a, m)
      /\ UNCHANGED <<md, lock, ent, calls, use>>
  BY <1>1 DEF HgetRet
<1>3. m \in Record /\ Near(m)
  BY <1>2, KnownNear DEF AloneNow, BaseInv, TypeInv, ActType
<1>4. /\ \A b \in Actor \ {a} : act'[b] = act[b]
      /\ act'[a].pc \in {"data", "done", "set"} /\ (act'[a].pc = "set" => act'[a].md = md)
  BY <1>2, <1>3, HaveAlone
<1>5. QueueInv' /\ \A n \in Core \ {One} : q'[n] = q[n]
  BY <1>1, <1>2, <1>4, AnsweredOne DEF Asking
<1>6. /\ cache'[One] = IF ~use.ac_timeout \/ (cache[One] # None /\ cache[One].ver >= m.ver)
                       THEN cache[One] ELSE m
      /\ \A k \in Core \ {One} : cache'[k] = cache[k]
  BY <1>1, <1>2, <1>3, CacheUpdateType DEF AloneNow, BaseInv
<1>7. Elsewhere'
  BY <1>1, <1>2, <1>4, <1>5, <1>6, ElsewhereKept DEF AloneNow
<1>8. RecordInv'
  <2> HIDE DEF m
  <2>1. \A k \in Known' : Near(k)
    <3>1. cache'[One] \in {cache[One], None, m}
      BY <1>6
    <3> QED BY <1>2, <1>3, <1>4, <3>1, KnownMove DEF AloneNow
  <2>2. cache'[One] # None => use.ac_timeout
    BY <1>6 DEF AloneNow, RecordInv
  <2>3. /\ act'[Flusher(One)].pc \in {"setret", "unlock"} => act[Flusher(One)].pc \in {"setret", "unlock"}
        /\ ent' = ent
    <3>1. Flusher(One) \in Actor
      BY OneIs DEF AloneNow
    <3> QED BY <1>2, <1>4, <3>1
  <2>4. \A b \in Actor : act'[b].pc \in {"set", "setret"} =>
          \/ act'[b].md = md
          \/ act[b].pc \in {"set", "setret"} /\ act'[b].md = act[b].md
    BY <1>4
  <2>5. \A h \in Actor : act[h].pc = "setret" => act'[h].pc = "setret"
    BY <1>2, <1>4
  <2> QED BY <1>2, <2>1, <2>2, <2>3, <2>4, <2>5, RecordKept DEF AloneNow
<1> QED BY <1>5, <1>7, <1>8

LEMMA HgetAlone ==
  ASSUME AloneNow, NEW a \in Actor, Hget(a)
  PROVE  Elsewhere' /\ QueueInv' /\ RecordInv'
<1>1. a[1] = One /\ One \in Core /\ q[One] \in Seq(Actor)
  BY AtOne, OneIs DEF Hget, AloneNow, BaseInv, TypeInv
<1>2. /\ act[a].pc = "getattr" /\ q' = [q EXCEPT ![One] = Append(q[One], a)]
      /\ UNCHANGED <<md, lock, cache, ent, calls, use>>
  BY <1>1 DEF Hget
<1>3. act'[a] = [act[a] EXCEPT !.pc = "got", !.md = md] /\ \A b \in Actor \ {a} : act'[b] = act[b]
  BY MovedWith DEF Hget, AloneNow, BaseInv, TypeInv, Pc
<1>4. act'[a].pc = "got" /\ act'[a].md = md
  <2>1. act[a] \in ActType
    BY DEF AloneNow, BaseInv, TypeInv
  <2> QED BY <1>3, <2>1 DEF ActType
<1>5. q'[One] = Append(q[One], a) /\ \A n \in Core \ {One} : q'[n] = q[n]
  BY <1>1, <1>2 DEF AloneNow, BaseInv, TypeInv
<1>6. QueueInv'
  BY <1>1, <1>2, <1>3, <1>4, <1>5, QueueAppended DEF AloneNow, Asking
<1>7. Elsewhere'
  BY <1>1, <1>2, <1>3, <1>5, ElsewhereKept DEF AloneNow
<1>8. RecordInv'
  <2>1. \A k \in Known' : Near(k)
    BY <1>2, <1>3, <1>4, KnownMove, MdNear DEF AloneNow
  <2>2. cache'[One] # None => use.ac_timeout
    BY <1>2 DEF AloneNow, RecordInv
  <2>3. /\ act'[Flusher(One)].pc \in {"setret", "unlock"} => act[Flusher(One)].pc \in {"setret", "unlock"}
        /\ ent' = ent
    <3>1. Flusher(One) \in Actor
      BY OneIs DEF AloneNow
    <3> QED BY <1>2, <1>3, <1>4, <3>1
  <2>4. \A b \in Actor : act'[b].pc \in {"set", "setret"} =>
          \/ act'[b].md = md
          \/ act[b].pc \in {"set", "setret"} /\ act'[b].md = act[b].md
    BY <1>3, <1>4
  <2>5. \A h \in Actor : act[h].pc = "setret" => act'[h].pc = "setret"
    BY <1>2, <1>3
  <2> QED BY <1>2, <2>1, <2>2, <2>3, <2>4, <2>5, RecordKept DEF AloneNow
<1> QED BY <1>6, <1>7, <1>8

(* hset leaves the size that the record has with the queue, and a flusher  *)
(* leaves nothing of the size in the queue that the record does not have.  *)
LEMMA HsetSize ==
  ASSUME AloneNow, NEW a \in Actor, Hset(a)
  PROVE  /\ a[1] = One /\ act[a].md = md
         /\ md'.mode = 1
         /\ md' = md \/ md.ver < md'.ver
         /\ IF a = Flusher(One) THEN /\ md'.size = Applied(ent[One], md.size)
                                     /\ Applied(ent[One], md'.size) = md'.size
            ELSE md'.size = md.size
<1>1. act[a].pc = "set" /\ a[1] = One /\ act[a].md = md /\ md' = Updated(a, md)
  BY AtOne DEF Hset, AloneNow, RecordInv
<1>2. One \in Core /\ ent[One] \in Entry \cup {None} /\ md \in Record /\ md.size \in Nat /\ md.ver \in Nat
  BY OneIs DEF AloneNow, BaseInv, TypeInv, Record
<1>3. Flow(a) /\ act[a].op \in {"setattr", "unlink", "flush"} /\ md.mode = 1
  BY <1>1 DEF AloneNow, BaseInv, FlowInv, Flow, RecordInv
<1>4. a = Flusher(One) <=> act[a].op = "flush"
  <2>1. a \in Task => act[a].op \in use.ops /\ use.ops \subseteq Op
    BY <1>1, <1>3, AttrQueueAssumption DEF Flow, Ready, AloneNow, BaseInv, TypeInv, Use
  <2>2. a \in Task => act[a].op # "flush" /\ a # Flusher(One)
    BY <2>1, OneIs DEF Op, AloneNow
  <2>3. a \notin Task => act[a].op = "flush" /\ a = Flusher(One)
    BY <1>1, <1>3, Actors DEF Flow
  <2> QED BY <2>2, <2>3
<1> DEFINE z == Applied(ent[One], md.size)
<1>5. z \in Nat /\ Applied(ent[One], z) = z
  BY <1>2, AppliedType
<1>6. CASE act[a].op # "flush"
  <2>1. md' = [md EXCEPT !.ver = @ + 1]
    BY <1>1, <1>6 DEF Updated
  <2>2. md'.size = md.size /\ md'.ver = md.ver + 1 /\ md'.mode = md.mode
    BY <1>2, <2>1 DEF Record
  <2>3. md'.mode = 1 /\ md.ver < md'.ver
    BY <1>2, <1>3, <2>2
  <2>4. a # Flusher(One)
    BY <1>4, <1>6
  <2> QED BY <1>1, <2>2, <2>3, <2>4
<1>7. CASE act[a].op = "flush" /\ ent[One].set = "not"
  <2>1. md' = md
    BY <1>1, <1>7 DEF Updated
  <2>2. \A x : Applied(ent[One], x) = x
    BY <1>7 DEF Applied
  <2> QED BY <1>1, <1>3, <1>4, <1>7, <2>1, <2>2
<1>8. CASE act[a].op = "flush" /\ ent[One].set # "not"
  <2>1. md' = [md EXCEPT !.size = z, !.ver = @ + 1]
    BY <1>1, <1>8 DEF Updated
  <2> HIDE DEF z
  <2>2. md'.size = z /\ md'.ver = md.ver + 1 /\ md'.mode = md.mode
    BY <1>2, <2>1 DEF Record
  <2> QED BY <1>1, <1>2, <1>3, <1>4, <1>5, <1>8, <2>2 DEF z
<1> QED BY <1>6, <1>7, <1>8

LEMMA HsetAlone ==
  ASSUME AloneNow, NEW a \in Actor, Hset(a)
  PROVE  Elsewhere' /\ QueueInv' /\ RecordInv'
<1>1. a[1] = One /\ One \in Core /\ q[One] \in Seq(Actor) /\ act[a] \in ActType
  BY HsetSize, OneIs DEF AloneNow, BaseInv, TypeInv
<1>2. /\ act[a].pc = "set" /\ q' = [q EXCEPT ![One] = Append(q[One], a)]
      /\ UNCHANGED <<lock, cache, ent, calls, use>>
      /\ act'[a] = [act[a] EXCEPT !.pc = "setret", !.md = md']
      /\ \A b \in Actor \ {a} : act'[b] = act[b]
  BY <1>1, HsetDoes DEF AloneNow
<1>3. act'[a].pc = "setret" /\ act'[a].md = md'
  BY <1>1, <1>2 DEF ActType
<1>4. \A b \in Actor \ {a} : act[b].pc \notin {"set", "setret", "unlock"}
  BY <1>2, OneWriter DEF AloneNow
<1>5. q'[One] = Append(q[One], a) /\ \A n \in Core \ {One} : q'[n] = q[n]
  BY <1>1, <1>2 DEF AloneNow, BaseInv, TypeInv
<1>6. QueueInv'
  <2>1. \A b \in Actor : act[b].pc # "setret"
    BY <1>2, <1>4
  <2> QED BY <1>1, <1>2, <1>3, <1>5, <2>1, QueueAppended DEF AloneNow, Asking
<1>7. Elsewhere'
  BY <1>1, <1>2, <1>5, ElsewhereKept DEF AloneNow
<1>8. One' = One /\ Flusher(One)' = Flusher(One) /\ Flusher(One) \in Actor
  <2>1. One' = One
    BY <1>2 DEF One
  <2> QED BY <2>1, OneIs DEF Flusher, AloneNow
<1>9. \A m \in Known' : m = md
  <2>1. \A m : Near(m) => m = md
    <3>1. \A h \in Actor : act[h].pc # "setret"
      BY <1>2, <1>4
    <3> QED BY <3>1 DEF Near, Older
  <2>2. \A m \in Known' : m \in Known
    <3>1. cache'[One'] = cache[One]
      BY <1>2, <1>8
    <3>2. \A b \in Actor : act'[b].pc = "got" => act[b].pc = "got" /\ act'[b].md = act[b].md
      BY <1>2, <1>3
    <3> QED BY <3>1, <3>2 DEF Known
  <2> QED BY <2>1, <2>2 DEF AloneNow, RecordInv
<1>10. ASSUME NEW m, m = md PROVE Near(m)'
  <2>1. CASE md' = md
    BY <1>10, <2>1 DEF Near
  <2>2. CASE md.ver < md'.ver
    <3>1. m.mode = 1 /\ m.ver < md'.ver
      BY <1>10, <2>2 DEF AloneNow, RecordInv
    <3>2. IF a = Flusher(One) THEN Applied(ent'[One], m.size) = Applied(ent'[One], md'.size)
          ELSE m.size = md'.size
      BY <1>2, <1>10, HsetSize
    <3>3. Older(m)'
      BY <1>3, <1>8, <3>1, <3>2 DEF Older
    <3> QED BY <3>3 DEF Near
  <2> QED BY <2>1, <2>2, HsetSize
<1>11. \A m \in Known' : Near(m)'
  BY <1>9, <1>10
<1>12. (cache[One] # None => use.ac_timeout)' /\ md'.mode = 1
  <2>1. md'.mode = 1
    BY HsetSize
  <2> QED BY <1>2, <1>8, <2>1 DEF AloneNow, RecordInv
<1>13. \A b \in Actor : act'[b].pc \in {"set", "setret"} => act'[b].md = md'
  <2> SUFFICES ASSUME NEW b \in Actor, act'[b].pc \in {"set", "setret"} PROVE act'[b].md = md'
    OBVIOUS
  <2>1. b = a
    BY <1>2, <1>4
  <2> QED BY <1>3, <2>1
<1>14. (act[Flusher(One)].pc \in {"setret", "unlock"} => Applied(ent[One], md.size) = md.size)'
  <2>1. CASE a = Flusher(One)
    BY <1>2, <1>8, <2>1, HsetSize
  <2>2. CASE a # Flusher(One)
    BY <1>2, <1>4, <1>8, <2>2
  <2> QED BY <2>1, <2>2
<1>15. RecordInv'
  BY <1>11, <1>12, <1>13, <1>14 DEF RecordInv
<1> QED BY <1>6, <1>7, <1>15

(* When hset is answered, everybody has the new record: the answers before *)
(* it have come, and those after it were executed after it.                *)
LEMMA HsetRetAlone ==
  ASSUME AloneNow, NEW a \in Actor, HsetRet(a)
  PROVE  Elsewhere' /\ QueueInv' /\ RecordInv'
<1>1. a[1] = One /\ One \in Core /\ act[a].pc = "setret"
  BY AtOne, OneIs DEF HsetRet, AloneNow
<1>2. act[a].md = md /\ md \in Record
  BY <1>1 DEF AloneNow, RecordInv, BaseInv, TypeInv
<1>3. /\ Answered(a) /\ cache' = CacheUpdate(One, md) /\ Goto(a, "unlock") /\ "unlock" \in Pc
      /\ UNCHANGED <<md, lock, ent, calls, use>>
  BY <1>1, <1>2 DEF HsetRet, Pc
<1>4. act'[a].pc = "unlock" /\ \A b \in Actor \ {a} : act'[b] = act[b]
  BY <1>3, Moved, GoneTo DEF AloneNow, BaseInv
<1>5. QueueInv' /\ \A n \in Core \ {One} : q'[n] = q[n]
  BY <1>1, <1>3, <1>4, AnsweredOne DEF Asking
<1>6. /\ cache'[One] = IF ~use.ac_timeout \/ (cache[One] # None /\ cache[One].ver >= md.ver)
                       THEN cache[One] ELSE md
      /\ \A k \in Core \ {One} : cache'[k] = cache[k]
  BY <1>1, <1>2, <1>3, CacheUpdateType DEF AloneNow, BaseInv
<1>7. Elsewhere'
  BY <1>1, <1>3, <1>4, <1>5, <1>6, ElsewhereKept DEF AloneNow
<1>8. One' = One /\ Flusher(One)' = Flusher(One) /\ Flusher(One) \in Actor
  <2>1. One' = One
    BY <1>3 DEF One
  <2> QED BY <2>1, OneIs DEF Flusher, AloneNow
<1>9. cache'[One] # None => cache'[One] = md
  <2>1. CASE cache[One] # None
    <3>1. cache[One] \in Record /\ Near(cache[One]) /\ use.ac_timeout
      BY <1>1, <2>1, KnownNear DEF AloneNow, BaseInv, TypeInv, RecordInv
    <3>2. cache[One].ver >= md.ver => cache[One] = md
      BY <1>2, <3>1 DEF Near, Older, Record
    <3> QED BY <1>6, <2>1, <3>1, <3>2
  <2>2. CASE cache[One] = None
    BY <1>6, <2>2
  <2> QED BY <2>1, <2>2
<1>10. ASSUME NEW b \in Actor, act'[b].pc = "got" PROVE act'[b].md = md
  <2>1. b # a /\ act'[b] = act[b] /\ act[b].pc = "got"
    BY <1>4, <1>10
  <2>2. /\ q[One] \in Seq(Actor) /\ q[One] # <<>> /\ Head(q[One]) = a
    BY <1>1, <1>3 DEF Answered, AloneNow, BaseInv, TypeInv
  <2>3. 1 \in 1..Len(q[One]) /\ q[One][1] = a
    BY <2>2
  <2>4. PICK i \in 1..Len(q[One]) : q[One][i] = b
    BY <2>1 DEF AloneNow, QueueInv, Asking
  <2>5. 1 < i
    BY <2>1, <2>3, <2>4
  <2>6. act[q[One][i]].md = md
    BY <1>1, <2>3, <2>4, <2>5 DEF AloneNow, QueueInv
  <2> QED BY <2>1, <2>4, <2>6
<1>11. \A m \in Known' : m = md
  BY <1>8, <1>9, <1>10 DEF Known
<1>12. \A m \in Known' : Near(m)'
  <2>1. ASSUME NEW m, m = md PROVE Near(m)'
    BY <1>3, <2>1 DEF Near
  <2> QED BY <1>11, <2>1
<1>13. (cache[One] # None => use.ac_timeout)' /\ md'.mode = 1
  BY <1>3, <1>6, <1>8 DEF AloneNow, RecordInv
<1>14. \A b \in Actor : act'[b].pc \in {"set", "setret"} => act'[b].md = md'
  BY <1>3, <1>4 DEF AloneNow, RecordInv
<1>15. (act[Flusher(One)].pc \in {"setret", "unlock"} => Applied(ent[One], md.size) = md.size)'
  <2>1. act'[Flusher(One)].pc \in {"setret", "unlock"} => act[Flusher(One)].pc \in {"setret", "unlock"}
    BY <1>1, <1>4, <1>8
  <2> QED BY <1>3, <1>8, <2>1 DEF AloneNow, RecordInv
<1>16. RecordInv'
  BY <1>12, <1>13, <1>14, <1>15 DEF RecordInv
<1> QED BY <1>5, <1>7, <1>16

LEMMA UnlockAlone ==
  ASSUME AloneNow, NEW a \in Actor, Unlock(a)
  PROVE  Elsewhere' /\ QueueInv' /\ RecordInv'
<1>1. act[a].pc = "unlock" /\ a[1] = One /\ UNCHANGED <<md, cache, q, calls, use>>
  BY AtOne DEF Unlock
<1>2. One \in Core /\ One' = One /\ Flusher(One) \in Actor
  BY <1>1, OneIs DEF One, AloneNow
<1>3. Flow(a)
  BY DEF AloneNow, BaseInv, FlowInv
<1>4. CASE act[a].op = "flush"
  <2>1. act' = Removed(One, act) /\ ent' = [ent EXCEPT ![One] = None]
    BY <1>1, <1>4 DEF Unlock
  <2>2. a = Flusher(One)
    <3>1. a \notin Task
      BY <1>1, <1>3, <1>4, AttrQueueAssumption DEF Flow, Ready, AloneNow, BaseInv, TypeInv, Use, Op
    <3> QED BY <1>1, <3>1, Actors
  <2>3. Idle.pc = "idle"
    BY DEF Idle
  <2>4. act'[a].pc = "idle"
    BY <1>2, <2>1, <2>2, <2>3, RemovedDoes DEF AloneNow
  <2>5. \A b \in Actor \ {a} : /\ act'[b].md = act[b].md
                               /\ act'[b] = act[b] \/ (act[b].pc = "wait" /\ act'[b].pc = "queue")
    BY <1>2, <2>1, <2>2, RemovedDoes DEF AloneNow
  <2>6. \A b \in Actor : b[1] # One => act'[b] = act[b]
    <3> SUFFICES ASSUME NEW b \in Actor, b[1] # One PROVE act'[b] = act[b]
      OBVIOUS
    <3>1. b # a /\ act[b].pc # "wait"
      BY <1>1, AtOne
    <3> QED BY <2>5, <3>1
  <2>7. ent'[One] = None /\ \A n \in Core \ {One} : ent'[n] = ent[n]
    BY <1>2, <2>1 DEF AloneNow, BaseInv, TypeInv
  <2>8. Elsewhere'
    BY <1>1, <2>6, <2>7, ElsewhereKept DEF AloneNow
  <2>9. QueueInv'
    <3>1. \A b \in Actor : Asking(b) => act'[b].pc = act[b].pc /\ act'[b].md = act[b].md
      BY <1>1, <2>5 DEF Asking
    <3>2. \A b \in Actor : Asking(b)' => Asking(b)
      BY <2>4, <2>5 DEF Asking
    <3>3. q[One] \in Seq(Actor)
      BY <1>2 DEF AloneNow, BaseInv, TypeInv
    <3> QED BY <1>1, <3>1, <3>2, <3>3, QueueKept DEF AloneNow
  <2>10. RecordInv'
    <3>1. \A m \in Known' : Near(m)
      <4>1. \A b \in Actor : act'[b].pc = "got" => act[b].pc = "got" /\ act'[b].md = act[b].md
        BY <2>4, <2>5
      <4>2. cache'[One'] = cache[One]
        BY <1>1, <1>2
      <4>3. \A m \in Known' : m \in Known
        BY <4>1, <4>2 DEF Known
      <4> QED BY <4>3 DEF AloneNow, RecordInv
    <3>2. \A h \in Actor : act[h].pc = "setret" => act'[h].pc = "setret"
      BY <1>1, <2>5
    <3>3. \A b \in Actor : act'[b].pc \in {"set", "setret"} =>
            \/ act'[b].md = md
            \/ act[b].pc \in {"set", "setret"} /\ act'[b].md = act[b].md
      BY <2>4, <2>5
    <3>4. cache'[One] # None => use.ac_timeout
      BY <1>1 DEF AloneNow, RecordInv
    <3>5. act[Flusher(One)].pc = "unlock" /\ act'[Flusher(One)].pc = "idle"
      BY <1>1, <2>2, <2>4
    <3> QED BY <1>1, <3>1, <3>2, <3>3, <3>4, <3>5, RecordKept DEF AloneNow
  <2> QED BY <2>8, <2>9, <2>10
<1>5. CASE act[a].op # "flush"
  <2>1. PICK p \in {"del", "done"} : Goto(a, p)
    BY <1>5 DEF Unlock
  <2>2. p \in Pc /\ ent' = ent
    BY <1>5 DEF Unlock, Pc, Ready
  <2>3. act'[a].pc = p /\ \A b \in Actor \ {a} : act'[b] = act[b]
    BY <2>1, <2>2, Moved, GoneTo DEF AloneNow, BaseInv
  <2> QED BY <1>1, <2>1, <2>2, <2>3, MoveKeeps
<1> QED BY <1>4, <1>5

LEMMA ExpireAlone ==
  ASSUME AloneNow, NEW n \in Core, Expire(n)
  PROVE  n = One /\ Elsewhere' /\ QueueInv' /\ RecordInv'
<1>1. /\ cache[n] # None /\ cache' = [cache EXCEPT ![n] = None]
      /\ UNCHANGED <<md, lock, ent, q, act, calls, use>>
  BY DEF Expire
<1>2. n = One /\ One' = One
  BY <1>1 DEF AloneNow, Elsewhere, One
<1>3. cache'[One] = None /\ \A k \in Core \ {One} : cache'[k] = cache[k]
  BY <1>1, <1>2 DEF AloneNow, BaseInv, TypeInv
<1>4. Elsewhere'
  BY <1>1, <1>3, ElsewhereKept DEF AloneNow
<1>5. QueueInv'
  BY <1>1, <1>2, QueueKept DEF AloneNow, BaseInv, TypeInv, Asking
<1>6. \A m \in Known' : Near(m)
  <2>1. \A m \in Known' : m \in Known
    BY <1>1, <1>2, <1>3 DEF Known
  <2> QED BY <2>1 DEF AloneNow, RecordInv
<1>7. RecordInv'
  BY <1>1, <1>3, <1>6, RecordKept DEF AloneNow
<1> QED BY <1>2, <1>4, <1>5, <1>7

(* No daemon stops, no entry is lost, and the file is there.               *)
LEMMA AloneNever ==
  ASSUME AloneNow
  PROVE  /\ \A n \in Core : ~FlushFail(n) /\ ~Abort(n) /\ ~Crash(n)
         /\ \A a \in Actor : ~Del(a)
<1>1. use.faults = {}
  BY OneIs DEF AloneNow
<1>2. \A n \in Core : ~FlushFail(n) /\ ~Crash(n)
  BY <1>1 DEF FlushFail, Crash
<1>3. \A a \in Actor : ~AssertFails(a)
  BY DEF AssertFails, AloneNow, RecordInv
<1>4. \A a \in Actor : ~Del(a)
  BY NoUnlink DEF Del, AloneNow
<1> QED BY <1>2, <1>3, <1>4 DEF Abort

(* The steps of the system that the clients and the core can take.         *)
LEMMA AloneCases ==
  ASSUME AloneNow, [Next]_vars
  PROVE  \/ \E a \in use.tasks, op \in use.ops :
              \E s \in CASE op = "write"    -> use.sizes \ {0}
                        [] op = "truncate" -> use.sizes
                        [] OTHER           -> {0} : Call(a, op, s)
         \/ \E a \in Actor :
              \/ GetHit(a) \/ Hget(a) \/ HgetRet(a) \/ Written(a) \/ Queue(a) \/ Wait(a)
              \/ Lock(a) \/ Hset(a) \/ HsetRet(a) \/ Unlock(a)
         \/ \E n \in Core : FlushStart(n) \/ Expire(n)
         \/ LockExpire
         \/ UNCHANGED vars
<1>1. \/ \E a \in use.tasks, op \in use.ops :
           \E s \in CASE op = "write"    -> use.sizes \ {0}
                     [] op = "truncate" -> use.sizes
                     [] OTHER           -> {0} : Call(a, op, s)
      \/ \E a \in Actor : Step(a)
      \/ \E n \in Core : FlushStart(n) \/ Expire(n) \/ FlushFail(n) \/ Abort(n) \/ Crash(n)
      \/ LockExpire
      \/ UNCHANGED vars
  BY Zenon DEF Next
<1> QED BY <1>1, AloneNever DEF Step

LEMMA NextAlone ==
  ASSUME AloneNow, [Next]_vars
  PROVE  Elsewhere' /\ QueueInv' /\ RecordInv'
<1>1. ASSUME NEW a \in use.tasks, NEW op, NEW s, Call(a, op, s)
      PROVE  Elsewhere' /\ QueueInv' /\ RecordInv'
  BY <1>1, CallAlone
<1>2. ASSUME NEW a \in Actor,
             \/ GetHit(a) \/ Hget(a) \/ HgetRet(a) \/ Written(a) \/ Queue(a) \/ Wait(a)
             \/ Lock(a) \/ Hset(a) \/ HsetRet(a) \/ Unlock(a)
      PROVE  Elsewhere' /\ QueueInv' /\ RecordInv'
  BY <1>2, GetHitAlone, HgetAlone, HgetRetAlone, WrittenAlone, HsetAlone, HsetRetAlone, UnlockAlone
<1>3. ASSUME NEW n \in Core, FlushStart(n) \/ Expire(n)
      PROVE  Elsewhere' /\ QueueInv' /\ RecordInv'
  BY <1>3, FlushStartAlone, ExpireAlone
<1>4. CASE UNCHANGED <<md, cache, ent, q, act, use>>
  <2>1. Elsewhere'
    BY <1>4, ElsewhereKept DEF AloneNow
  <2>2. One' = One /\ One \in Core
    BY <1>4, OneIs DEF One, AloneNow
  <2>3. QueueInv'
    BY <1>4, <2>2, QueueKept DEF AloneNow, BaseInv, TypeInv, Asking
  <2>4. \A m \in Known' : Near(m)
    <3>1. \A m \in Known' : m \in Known
      BY <1>4, <2>2 DEF Known
    <3> QED BY <3>1 DEF AloneNow, RecordInv
  <2>5. RecordInv'
    <3>1. cache'[One] # None => use.ac_timeout
      BY <1>4 DEF AloneNow, RecordInv
    <3> QED BY <1>4, <2>4, <3>1, RecordKept DEF AloneNow
  <2> QED BY <2>1, <2>3, <2>5
<1> QED BY <1>1, <1>2, <1>3, <1>4, AloneCases DEF LockExpire, vars

LEMMA InitAlone == Init => AloneInv
<1> SUFFICES ASSUME Init, Alone PROVE Elsewhere /\ QueueInv /\ RecordInv
  BY DEF AloneInv
<1>1. BaseInv
  BY InitBase
<1>2. One \in Core /\ Flusher(One) \in Actor
  BY <1>1, OneIs
<1>3. Idle.pc = "idle" /\ md = [size |-> 0, ver |-> 1, mode |-> 1]
  BY DEF Idle, Init
<1>4. \A a \in Actor : act[a] = Idle
  BY DEF Init
<1>5. \A n \in Core : cache[n] = None /\ ent[n] = None /\ q[n] = <<>>
  BY DEF Init
<1>6. Elsewhere
  BY <1>4, <1>5 DEF Elsewhere
<1>7. \A a \in Actor : ~Asking(a)
  BY <1>3, <1>4 DEF Asking
<1>8. QueueInv
  <2>1. Len(q[One]) = 0
    BY <1>2, <1>5
  <2> QED BY <1>7, <2>1 DEF QueueInv
<1>9. RecordInv
  <2>1. Known = {}
    BY <1>2, <1>3, <1>4, <1>5 DEF Known
  <2>2. md.mode = 1
    BY <1>3
  <2> QED BY <1>2, <1>3, <1>4, <1>5, <2>1, <2>2 DEF RecordInv
<1> QED BY <1>6, <1>8, <1>9

LEMMA UseKept == ASSUME [Next]_vars PROVE use' = use
BY DEF Next, vars, Call, Step, GetHit, Hget, HgetRet, Written, Queue, Wait, Lock, Hset,
       HsetRet, Unlock, Del, FlushStart, Expire, FlushFail, Abort, Crash, Restart, LockExpire

LEMMA AloneHolds == Spec => []AloneInv
<1>1. BaseInv /\ AloneInv /\ [Next]_vars => AloneInv'
  <2> SUFFICES ASSUME BaseInv, AloneInv, [Next]_vars, Alone' PROVE Elsewhere' /\ QueueInv' /\ RecordInv'
    BY DEF AloneInv
  <2>1. Alone
    BY UseKept DEF Alone
  <2>2. AloneNow
    BY <2>1 DEF AloneNow, AloneInv
  <2> QED BY <2>2, NextAlone
<1> QED BY <1>1, InitAlone, BaseHolds, PTL DEF Spec

-----------------------------------------------------------------------------
(* What FileSize sees of this system.                                      *)
Seen == IF Alone THEN View(One) ELSE 0
Log == [a \in Task |-> IF Alone THEN Told(a) ELSE Untold]

(* The size of the record with the queue, which is what clients see,       *)
(* whatever copy the core has.                                             *)
Now == Applied(ent[One], md.size)

LEMMA SeenIs ==
  ASSUME AloneNow
  PROVE  Seen = Now /\ Log = [a \in Task |-> Told(a)]
<1>1. Alone
  BY DEF AloneNow
<1>2. View(One) = Now
  <2>1. CASE cache[One] = None
    BY <2>1 DEF View, Now
  <2>2. CASE cache[One] # None
    <3>1. Near(cache[One])
      BY <2>2, KnownNear
    <3> QED BY <2>2, <3>1, NearSize DEF View, Now
  <2> QED BY <2>1, <2>2
<1> QED BY <1>1, <1>2 DEF Seen, Log

LEMMA SeenNext == AloneNow' => Seen' = Now' /\ Log' = [a \in Task |-> Told(a)']
<1>1. AloneNow => Seen = Now /\ Log = [a \in Task |-> Told(a)]
  BY SeenIs
<1>2. AloneNow' => (Seen = Now /\ Log = [a \in Task |-> Told(a)])'
  BY <1>1, PTL
<1> QED BY <1>2

(* Nobody's call begins or takes effect.                                   *)
LEMMA Silent ==
  ASSUME Seen' = Seen, Log' = Log
  PROVE  UNCHANGED Clients!vars
BY DEF Clients!vars, Seen, Log

LEMMA SilentNow ==
  ASSUME AloneNow, AloneNow', Now' = Now, \A a \in Task : Told(a)' = Told(a)
  PROVE  UNCHANGED Clients!vars
<1>1. Log' = [a \in Task |-> Told(a)']
  BY SeenNext
<1>2. Log' = Log /\ Seen' = Seen
  BY <1>1, SeenIs, SeenNext
<1> QED BY <1>2, Silent

(* What is seen of a task that goes on.                                    *)
LEMMA ToldKept ==
  ASSUME NEW a \in Actor, act'[a] = act[a]
  PROVE  Told(a)' = Told(a)
BY DEF Told, Open

LEMMA ToldMoved ==
  ASSUME NEW a \in Actor, act'[a].op = act[a].op, act'[a].size = act[a].size,
         Open(a)' = Open(a), act[a].op = "getattr" => Open(a)
  PROVE  Told(a)' = Told(a)
BY DEF Told

(* The call of a takes effect: the size becomes what the call makes of it. *)
Effect(op, s, n) ==
  CASE op = "write"    -> IF s > n THEN s ELSE n
    [] op = "truncate" -> s
    [] OTHER           -> n

LEMMA NowType == ASSUME AloneNow PROVE Now \in Nat
BY OneIs, AppliedType DEF Now, AloneNow, BaseInv, TypeInv, Record

LEMMA ClosedCall ==
  ASSUME NEW O, NEW f \in [op : O, size : Nat, open : BOOLEAN, ret : Nat], NEW r \in Nat,
         NEW g, g = [f EXCEPT !.open = FALSE, !.ret = r]
  PROVE  g = [op |-> f.op, size |-> f.size, open |-> FALSE, ret |-> r]
OBVIOUS

LEMMA TakesEffect ==
  ASSUME AloneNow, AloneNow', NEW a \in Task, act[a].op \in Op,
         \A b \in Task \ {a} : Told(b)' = Told(b),
         act'[a].op = act[a].op, act'[a].size = act[a].size, Open(a), ~Open(a)',
         Now' = Effect(act[a].op, act[a].size, Now),
         act[a].op = "getattr" => act'[a].md.size = Now
  PROVE  Clients!Next
<1> DEFINE r == IF act[a].op = "getattr" THEN Now ELSE 0
<1>1. Log = [b \in Task |-> Told(b)] /\ Log' = [b \in Task |-> Told(b)'] /\ Seen = Now /\ Seen' = Now'
  BY SeenIs, SeenNext
<1>2. Log[a] = Told(a) /\ Log[a].op = act[a].op /\ Log[a].size = act[a].size /\ Log[a].open
  BY <1>1 DEF Told
<1>3. Told(a)' = [Told(a) EXCEPT !.open = FALSE, !.ret = r]
  <2>1. Open(a)' = FALSE /\ Open(a) = TRUE
    BY DEF Open
  <2>2. Told(a)' = [op |-> act[a].op, size |-> act[a].size, open |-> FALSE, ret |-> r]
    BY <2>1 DEF Told
  <2>3. Told(a) = [op |-> act[a].op, size |-> act[a].size, open |-> TRUE, ret |-> 0]
    BY <2>1 DEF Told
  <2>4. act[a] \in ActType /\ r \in Nat
    BY NowType, Actors DEF AloneNow, BaseInv, TypeInv
  <2>5. Told(a) \in [op : Op, size : Nat, open : BOOLEAN, ret : Nat]
    <3>1. act[a].size \in Nat
      BY <2>4 DEF ActType
    <3> QED BY <2>3, <3>1
  <2>6. Told(a).op = act[a].op /\ Told(a).size = act[a].size
    BY DEF Told
  <2> HIDE DEF r
  <2> DEFINE g == [Told(a) EXCEPT !.open = FALSE, !.ret = r]
  <2>7. g = [op |-> Told(a).op, size |-> Told(a).size, open |-> FALSE, ret |-> r]
    BY <2>4, <2>5, ClosedCall
  <2> QED BY <2>2, <2>6, <2>7, Zenon
<1>4. Log' = [Log EXCEPT ![a].open = FALSE, ![a].ret = r]
  BY <1>1, <1>3
<1>5. \A x : r = x => Clients!Closed(a, x)
  BY <1>4 DEF Clients!Closed, Log
<1> HIDE DEF r
<1>6. CASE act[a].op = "write"
  <2>1. r = 0 /\ Seen' = IF Log[a].size > Seen THEN Log[a].size ELSE Seen
    BY <1>1, <1>2, <1>6 DEF Effect, r
  <2>2. Clients!Write(a)
    BY <1>2, <1>5, <1>6, <2>1 DEF Clients!Write, Seen, Log
  <2> QED BY <2>2 DEF Clients!Next
<1>7. CASE act[a].op = "truncate"
  <2>1. r = 0 /\ Seen' = Log[a].size
    BY <1>1, <1>2, <1>7 DEF Effect, r
  <2>2. Clients!Truncate(a)
    BY <1>2, <1>5, <1>7, <2>1 DEF Clients!Truncate, Seen, Log
  <2> QED BY <2>2 DEF Clients!Next
<1>8. CASE act[a].op = "getattr"
  <2>1. r = Seen /\ Seen' = Seen
    BY <1>1, <1>8 DEF Effect, r
  <2>2. Clients!Getattr(a)
    BY <1>2, <1>5, <1>8, <2>1 DEF Clients!Getattr, Seen, Log
  <2> QED BY <2>2 DEF Clients!Next
<1>9. CASE act[a].op \notin {"write", "truncate", "getattr"}
  <2>1. r = 0 /\ Seen' = Seen
    BY <1>1, <1>9 DEF Effect, r
  <2>2. Clients!Other(a)
    BY <1>2, <1>5, <1>9, <2>1 DEF Clients!Other, Seen, Log
  <2> QED BY <2>2 DEF Clients!Next
<1> QED BY <1>6, <1>7, <1>8, <1>9

-----------------------------------------------------------------------------
(* What each step of the system is to the clients.                         *)
LEMMA NowKept == ASSUME md' = md, use' = use, ent'[One] = ent[One] PROVE Now' = Now
<1>1. One' = One
  BY DEF One
<1> QED BY <1>1 DEF Now

(* A step of one actor in the middle of its call, or of a flusher.         *)
LEMMA SilentMove ==
  ASSUME AloneNow, AloneNow', NEW a \in Actor, \A b \in Actor \ {a} : act'[b] = act[b],
         act'[a].op = act[a].op, act'[a].size = act[a].size,
         a \in Task => /\ Open(a)' = Open(a)
                       /\ act[a].op = "getattr" => Open(a),
         Now' = Now
  PROVE  UNCHANGED Clients!vars
<1>1. \A b \in Task : b \in Actor
  BY Actors
<1>2. \A b \in Task : Told(b)' = Told(b)
  <2>1. ASSUME NEW b \in Task, b # a PROVE Told(b)' = Told(b)
    BY <1>1, <2>1, ToldKept
  <2>2. a \in Task => Told(a)' = Told(a)
    BY ToldMoved
  <2> QED BY <2>1, <2>2
<1> QED BY <1>2, SilentNow

(* In these steps a call is open.                                          *)
Midway == Pc \ (Ready \cup {"data"})

LEMMA MidwayOpen == \A a : act[a].pc \in Midway => Open(a) = TRUE
BY DEF Midway, Open, Ready

LEMMA MidwayOpenNext == \A a : act'[a].pc \in Midway => Open(a)' = TRUE
BY DEF Midway, Open, Ready

LEMMA CallMaps ==
  ASSUME AloneNow, AloneNow', NEW a \in use.tasks, NEW op \in Op, NEW s \in 0..MaxSize,
         Call(a, op, s)
  PROVE  Clients!Next
<1> DEFINE p == CASE op \in {"write", "getattr"}    -> "getattr"
                  [] op \in {"truncate", "settime"} -> "queue"
                  [] OTHER                          -> "lock"
           r == [Idle EXCEPT !.op = op, !.size = s, !.pc = p]
<1>1. a \in Task /\ a \in Actor
  BY OneIs DEF AloneNow
<1>2. p \in {"getattr", "queue", "lock"}
  OBVIOUS
<1>3. r.pc = p /\ r.op = op /\ r.size = s
  BY DEF Idle
<1>4. act' = [act EXCEPT ![a] = r] /\ UNCHANGED <<md, lock, cache, ent, q, use>> /\ act[a].pc \in Ready
  BY DEF Call
<1> HIDE DEF r, p
<1>5. act'[a] = r /\ \A b \in Actor \ {a} : act'[b] = act[b]
  BY <1>1, <1>4 DEF AloneNow, BaseInv, TypeInv
<1>6. ~Log[a].open
  BY <1>1, <1>4, SeenIs DEF Told, Open
<1>7. Told(a)' = [op |-> op, size |-> s, open |-> TRUE, ret |-> 0]
  <2>1. Open(a)' = TRUE
    BY <1>2, <1>3, <1>5 DEF Open, Ready
  <2> QED BY <1>3, <1>5, <2>1 DEF Told
<1>8. Log' = [Log EXCEPT ![a] = [op |-> op, size |-> s, open |-> TRUE, ret |-> 0]]
  <2>1. \A b \in Task \ {a} : Told(b)' = Told(b)
    BY <1>5, Actors, ToldKept
  <2>2. Log = [b \in Task |-> Told(b)] /\ Log' = [b \in Task |-> Told(b)']
    BY SeenIs, SeenNext
  <2> QED BY <1>1, <1>7, <2>1, <2>2
<1>9. Seen' = Seen
  BY <1>4, NowKept, SeenIs, SeenNext
<1>10. Clients!Call(a)
  BY <1>6, <1>8, <1>9 DEF Clients!Call, Seen, Log
<1> QED BY <1>1, <1>10 DEF Clients!Next

(* A coroutine has a record: a call of sdfs_getattr takes effect, and so   *)
(* does a write that ends within the file.                                 *)
LEMMA HaveMaps ==
  ASSUME AloneNow, AloneNow', NEW a \in Actor, act[a].pc \in {"getattr", "got"},
         NEW m \in Record, Near(m), Have(a, m), md' = md, ent' = ent, use' = use
  PROVE  Clients!Next \/ UNCHANGED Clients!vars
<1>1. /\ \A b \in Actor \ {a} : act'[b] = act[b]
      /\ act'[a].pc \in {"data", "done", "set"} /\ act'[a].op = act[a].op
      /\ act'[a].size = act[a].size
      /\ act'[a].pc # "set" => /\ act'[a].md.size = Now
                               /\ act'[a].pc = IF act[a].op = "write" THEN "data" ELSE "done"
  BY HaveAlone DEF Now
<1>2. Now' = Now
  BY NowKept
<1>3. Open(a) = TRUE
  BY DEF Open, Ready
<1>4. Flow(a)
  BY DEF AloneNow, BaseInv, FlowInv
<1>5. CASE a \notin Task \/ Open(a)'
  BY <1>1, <1>2, <1>3, <1>5, SilentMove DEF Open
<1>6. CASE a \in Task /\ ~Open(a)'
  <2>1. act'[a].pc # "set"
    BY <1>6 DEF Open, Ready
  <2>2. act[a].op = "write" => ~(act[a].size > Now)
    <3>1. act[a].op = "write" => act'[a].pc = "data" /\ act'[a].size <= act'[a].md.size
      BY <1>1, <1>6, <2>1 DEF Open, Ready
    <3>2. act[a].size \in Nat /\ Now \in Nat
      <4>1. act[a] \in ActType
        BY DEF AloneNow, BaseInv, TypeInv
      <4> QED BY <4>1, NowType DEF ActType
    <3> QED BY <1>1, <2>1, <3>1, <3>2
  <2>3. act[a].op \in Op /\ act[a].op # "truncate"
    BY <1>4, <1>6, AttrQueueAssumption DEF Flow, Ready, AloneNow, BaseInv, TypeInv, Use
  <2>4. Now' = Effect(act[a].op, act[a].size, Now)
    BY <1>2, <2>2, <2>3 DEF Effect
  <2>5. \A b \in Task \ {a} : Told(b)' = Told(b)
    BY <1>1, Actors, ToldKept
  <2> QED BY <1>1, <1>3, <1>6, <2>1, <2>3, <2>4, <2>5, TakesEffect
<1> QED BY <1>5, <1>6

LEMMA GotoMaps ==
  ASSUME AloneNow, AloneNow', NEW a \in Actor, Written(a) \/ Wait(a) \/ Lock(a) \/ HsetRet(a)
  PROVE  UNCHANGED Clients!vars
<1>1. PICK p \in {"queue", "done", "wait", "getattr", "unlock"} : Goto(a, p)
  BY DEF Written, Wait, Lock, HsetRet
<1>2. p \in Pc
  BY DEF Pc, Ready
<1>3. /\ act'[a].pc = p /\ act'[a].op = act[a].op /\ act'[a].md = act[a].md
      /\ act'[a].size = act[a].size /\ Flow(a) /\ \A b \in Actor \ {a} : act'[b] = act[b]
  BY <1>1, <1>2, Moved, GoneTo DEF AloneNow, BaseInv
<1>4. Now' = Now
  <2>1. UNCHANGED <<md, ent, use>>
    BY DEF Written, Wait, Lock, HsetRet
  <2> QED BY <2>1, NowKept
<1>5. Open(a)' = Open(a) /\ (act[a].op = "getattr" => Open(a))
  <2>1. CASE Written(a)
    <3>1. act[a].op = "write"
      BY <1>3, <2>1 DEF Written, Flow
    <3>2. act[a].pc = "data" /\ Goto(a, IF act[a].size > act[a].md.size THEN "queue" ELSE "done")
      BY <2>1 DEF Written
    <3>3. act[a].size \in Nat /\ act[a].md.size \in Nat
      <4>1. act[a] \in ActType
        BY DEF AloneNow, BaseInv, TypeInv
      <4> QED BY <4>1 DEF ActType, Record
    <3>4. CASE act[a].size > act[a].md.size
      <4>1. "queue" \in Pc /\ Goto(a, "queue")
        BY <3>2, <3>4 DEF Pc
      <4>2. act'[a].pc = "queue"
        BY <4>1, GoneTo DEF AloneNow
      <4> QED BY <3>1, <3>2, <3>3, <3>4, <4>2 DEF Open, Ready
    <3>5. CASE ~(act[a].size > act[a].md.size)
      <4>1. "done" \in Pc /\ Goto(a, "done")
        BY <3>2, <3>5 DEF Pc, Ready
      <4>2. act'[a].pc = "done"
        BY <4>1, GoneTo DEF AloneNow
      <4> QED BY <3>1, <3>2, <3>3, <3>5, <4>2 DEF Open, Ready
    <3> QED BY <3>4, <3>5
  <2>2. CASE Wait(a) \/ Lock(a) \/ HsetRet(a)
    <3>1. \E w \in {"wait", "getattr", "unlock"} : Goto(a, w)
      BY <2>2 DEF Wait, Lock, HsetRet
    <3>2. \A w \in {"wait", "getattr", "unlock"} : Goto(a, w) => act'[a].pc = w
      <4>1. \A w \in {"wait", "getattr", "unlock"} : w \in Pc
        BY DEF Pc
      <4> QED BY <4>1, GoneTo DEF AloneNow
    <3>3. act'[a].pc \in Midway /\ act[a].pc \in Midway
      BY <2>2, <3>1, <3>2 DEF Midway, Pc, Ready, Wait, Lock, HsetRet
    <3> QED BY <3>3, MidwayOpen, MidwayOpenNext
  <2> QED BY <2>1, <2>2
<1> QED BY <1>3, <1>4, <1>5, SilentMove

LEMMA HgetMaps ==
  ASSUME AloneNow, AloneNow', NEW a \in Actor, Hget(a)
  PROVE  UNCHANGED Clients!vars
<1>1. act'[a] = [act[a] EXCEPT !.pc = "got", !.md = md] /\ \A b \in Actor \ {a} : act'[b] = act[b]
  BY MovedWith DEF Hget, AloneNow, BaseInv, TypeInv, Pc
<1>2. act'[a].pc = "got" /\ act'[a].op = act[a].op /\ act'[a].size = act[a].size
  <2>1. act[a] \in ActType
    BY DEF AloneNow, BaseInv, TypeInv
  <2> QED BY <1>1, <2>1 DEF ActType
<1>3. Open(a)' = Open(a) /\ Open(a)
  <2>1. act[a].pc \in Midway /\ act'[a].pc \in Midway
    BY <1>2 DEF Hget, Midway, Pc, Ready
  <2> QED BY <2>1, MidwayOpen, MidwayOpenNext
<1>4. Now' = Now
  <2>1. UNCHANGED <<md, ent, use>>
    BY DEF Hget
  <2> QED BY <2>1, NowKept
<1> QED BY <1>1, <1>2, <1>3, <1>4, SilentMove

LEMMA HsetMaps ==
  ASSUME AloneNow, AloneNow', NEW a \in Actor, Hset(a)
  PROVE  UNCHANGED Clients!vars
<1>1. /\ act'[a] = [act[a] EXCEPT !.pc = "setret", !.md = md'] /\ act[a].pc = "set"
      /\ \A b \in Actor \ {a} : act'[b] = act[b]
      /\ UNCHANGED <<ent, use>>
  BY HsetDoes DEF AloneNow
<1>2. act'[a].pc = "setret" /\ act'[a].op = act[a].op /\ act'[a].size = act[a].size
  <2>1. act[a] \in ActType
    BY DEF AloneNow, BaseInv, TypeInv
  <2> QED BY <1>1, <2>1 DEF ActType
<1>3. Open(a)' = Open(a) /\ Open(a)
  <2>1. act[a].pc \in Midway /\ act'[a].pc \in Midway
    BY <1>1, <1>2 DEF Midway, Pc, Ready
  <2> QED BY <2>1, MidwayOpen, MidwayOpenNext
<1>4. Now' = Now
  <2>1. One' = One
    BY <1>1 DEF One
  <2>2. Applied(ent[One], md'.size) = Applied(ent[One], md.size)
    BY HsetSize
  <2> QED BY <1>1, <2>1, <2>2 DEF Now
<1> QED BY <1>1, <1>2, <1>3, <1>4, SilentMove

(* A size in the queue takes effect there, because the entry is changed    *)
(* only while nobody writes it out.                                        *)
LEMMA MergedEffect ==
  ASSUME NEW e \in Entry \cup {None}, NEW op \in {"write", "truncate", "settime"},
         NEW s \in Nat, NEW x \in Nat
  PROVE  Applied(Merged(IF e = None THEN NewEnt ELSE e, op, s), x) = Effect(op, s, Applied(e, x))
<1> DEFINE f == IF e = None THEN NewEnt ELSE e
<1> SUFFICES Applied(Merged(f, op, s), x) = Effect(op, s, Applied(e, x))
  OBVIOUS
<1>1. f \in Entry /\ Applied(f, x) = Applied(e, x)
  BY DEF NewEnt, Entry, Applied
<1> HIDE DEF f
<1>2. Merged(f, op, s) # None
  BY <1>1, MergedType, AttrQueueAssumption
<1>3. CASE op = "truncate"
  <2>1. Merged(f, op, s) = [f EXCEPT !.set = "truncate", !.size = s]
    BY <1>3 DEF Merged
  <2>2. Merged(f, op, s).set = "truncate" /\ Merged(f, op, s).size = s
    BY <1>1, <2>1 DEF Entry
  <2> QED BY <1>2, <1>3, <2>2 DEF Applied, Effect
<1>4. CASE op = "write"
  <2> DEFINE g == Merged(f, op, s)
             w == IF f.set = "not" THEN "extern" ELSE f.set
             z == IF f.set = "not" THEN s ELSE Bigger(f.size, s)
  <2>1. g = [f EXCEPT !.set = w, !.size = z]
    BY <1>4 DEF Merged
  <2> HIDE DEF w, z
  <2>2. g.set = w /\ g.size = z
    BY <1>1, <2>1 DEF Entry
  <2> HIDE DEF g
  <2>3. f.set \in {"not", "extern", "truncate"} /\ f.size \in Nat /\ f # None
    BY <1>1, AttrQueueAssumption DEF Entry
  <2>4. Applied(g, x) = IF w = "extern" THEN Bigger(z, x) ELSE z
    BY <1>2, <2>2, <2>3 DEF Applied, w, g
  <2>5. Applied(g, x) = IF s > Applied(f, x) THEN s ELSE Applied(f, x)
    BY <2>3, <2>4 DEF Applied, Bigger, w, z
  <2> QED BY <1>1, <1>4, <2>5 DEF Effect, g
<1>5. CASE op = "settime"
  BY <1>1, <1>5 DEF Merged, Effect
<1> QED BY <1>3, <1>4, <1>5

LEMMA QueueMaps ==
  ASSUME AloneNow, AloneNow', NEW a \in Actor, Queue(a)
  PROVE  Clients!Next
<1>1. act[a].pc = "queue" /\ Goto(a, "done") /\ UNCHANGED <<md, use>> /\ "done" \in Pc
  BY DEF Queue, Pc, Ready
<1>2. a[1] = One /\ One' = One
  BY <1>1, AtOne DEF One
<1>3. /\ act'[a].pc = "done" /\ act'[a].op = act[a].op
      /\ act'[a].size = act[a].size /\ Flow(a) /\ \A b \in Actor \ {a} : act'[b] = act[b]
  BY <1>1, Moved, GoneTo DEF AloneNow, BaseInv
<1>4. act[a].op \in {"write", "truncate", "settime"} /\ a \in Task
  BY <1>1, <1>3 DEF Flow
<1>5. act[a].op \in Op
  BY <1>4 DEF Op
<1>6. act[a].size \in Nat /\ md.size \in Nat /\ ent[One] \in Entry \cup {None} /\ One \in Core
  <2>1. act[a] \in ActType /\ md \in Record /\ ent[One] \in Entry \cup {None} /\ One \in Core
    BY OneIs DEF AloneNow, BaseInv, TypeInv
  <2> QED BY <2>1 DEF ActType, Record
<1>7. ent'[One] = Merged(Found(One), act[a].op, act[a].size)
  BY <1>2, <1>6, QueueDoes DEF AloneNow, BaseInv, TypeInv
<1>8. Now' = Effect(act[a].op, act[a].size, Now)
  <2>1. Applied(Merged(Found(One), act[a].op, act[a].size), md.size)
        = Effect(act[a].op, act[a].size, Applied(ent[One], md.size))
    BY <1>4, <1>6, MergedEffect DEF Found
  <2>2. Now' = Applied(ent'[One], md.size)
    BY <1>1, <1>2 DEF Now
  <2> QED BY <1>7, <2>1, <2>2 DEF Now
<1>9. Open(a) /\ ~Open(a)'
  BY <1>1, <1>3 DEF Open, Ready
<1>10. \A b \in Task \ {a} : Told(b)' = Told(b)
  BY <1>3, Actors, ToldKept
<1> QED BY <1>3, <1>4, <1>5, <1>8, <1>9, <1>10, TakesEffect

(* The flusher removes its entry when the record in redis has what the     *)
(* entry held.                                                             *)
LEMMA UnlockMaps ==
  ASSUME AloneNow, AloneNow', NEW a \in Actor, Unlock(a)
  PROVE  Clients!Next \/ UNCHANGED Clients!vars
<1>1. act[a].pc = "unlock" /\ a[1] = One /\ UNCHANGED <<md, use>>
  BY AtOne DEF Unlock
<1>2. One \in Core /\ One' = One /\ Flusher(One) \in Actor \ Task /\ Flow(a)
  BY <1>1, OneIs DEF One, AloneNow, BaseInv, FlowInv
<1>3. CASE act[a].op = "flush"
  <2>1. act' = Removed(One, act) /\ ent' = [ent EXCEPT ![One] = None]
    BY <1>1, <1>3 DEF Unlock
  <2>2. a = Flusher(One)
    <3>1. a \notin Task
      BY <1>1, <1>2, <1>3, AttrQueueAssumption DEF Flow, Ready, AloneNow, BaseInv, TypeInv, Use, Op
    <3> QED BY <1>1, <3>1, Actors
  <2>3. ent'[One] = None
    BY <1>2, <2>1 DEF AloneNow, BaseInv, TypeInv
  <2>4. Applied(ent[One], md.size) = md.size
    BY <1>1, <2>2 DEF AloneNow, RecordInv
  <2>5. Now' = Now
    BY <1>1, <1>2, <2>3, <2>4 DEF Now, Applied
  <2>6. ASSUME NEW b \in Task PROVE Told(b)' = Told(b)
    <3>1. b \in Actor /\ b # Flusher(One)
      BY <1>2, Actors
    <3>2. /\ act'[b].op = act[b].op /\ act'[b].size = act[b].size
          /\ act'[b] = act[b] \/ (act[b].pc = "wait" /\ act'[b].pc = "queue")
      BY <1>2, <2>1, <3>1, RemovedDoes DEF AloneNow
    <3>3. CASE act'[b] = act[b]
      BY <3>1, <3>3, ToldKept
    <3>4. CASE act[b].pc = "wait" /\ act'[b].pc = "queue"
      <4>1. act[b].pc \in Midway /\ act'[b].pc \in Midway
        BY <3>4 DEF Midway, Pc, Ready
      <4> QED BY <3>1, <3>2, <4>1, MidwayOpen, MidwayOpenNext, ToldMoved
    <3> QED BY <3>2, <3>3, <3>4
  <2> QED BY <2>5, <2>6, SilentNow
<1>4. CASE act[a].op # "flush"
  <2>1. act[a].op = "setattr"
    BY <1>1, <1>2, <1>4, NoUnlink DEF Flow, Ready, AloneNow
  <2>2. Goto(a, "done") /\ "done" \in Pc /\ ent' = ent
    BY <1>4, <2>1 DEF Unlock, Pc, Ready
  <2>3. /\ act'[a].pc = "done" /\ act'[a].op = act[a].op
        /\ act'[a].size = act[a].size /\ \A b \in Actor \ {a} : act'[b] = act[b]
    BY <2>2, Moved, GoneTo DEF AloneNow, BaseInv
  <2>4. a \in Task
    BY <1>1, <1>2, <1>4 DEF Flow
  <2>5. Now' = Effect(act[a].op, act[a].size, Now) /\ act[a].op \in Op
    BY <1>1, <2>1, <2>2, NowKept DEF Effect, Op
  <2>6. Open(a) /\ ~Open(a)'
    BY <1>1, <2>3 DEF Open, Ready
  <2>7. \A b \in Task \ {a} : Told(b)' = Told(b)
    BY <2>3, Actors, ToldKept
  <2> QED BY <2>1, <2>3, <2>4, <2>5, <2>6, <2>7, TakesEffect
<1> QED BY <1>3, <1>4

LEMMA FlushStartMaps ==
  ASSUME AloneNow, AloneNow', NEW n \in Core, FlushStart(n)
  PROVE  UNCHANGED Clients!vars
<1> DEFINE r == [Idle EXCEPT !.pc = "lock", !.op = "flush"]
<1>1. /\ act' = [act EXCEPT ![Flusher(n)] = r] /\ ent' = [ent EXCEPT ![n].running = TRUE]
      /\ ent[n] # None /\ UNCHANGED <<md, use>>
  BY DEF FlushStart
<1>2. n = One /\ One' = One
  BY <1>1 DEF AloneNow, Elsewhere, One
<1>3. Flusher(One) \in Actor \ Task /\ One \in Core
  BY OneIs DEF AloneNow
<1> HIDE DEF r
<1>4. \A b \in Task : Told(b)' = Told(b)
  <2>1. \A b \in Task : b \in Actor /\ act'[b] = act[b]
    BY <1>1, <1>2, <1>3, Actors DEF AloneNow, BaseInv, TypeInv
  <2> QED BY <2>1, ToldKept
<1>5. Now' = Now
  <2>1. ent[One] \in Entry
    BY <1>1, <1>2, <1>3 DEF AloneNow, BaseInv, TypeInv
  <2>2. ent'[One] = [ent[One] EXCEPT !.running = TRUE]
    BY <1>1, <1>2, <1>3 DEF AloneNow, BaseInv, TypeInv
  <2>3. ent'[One].set = ent[One].set /\ ent'[One].size = ent[One].size /\ ent'[One] \in Entry
    BY <2>1, <2>2 DEF Entry
  <2>4. ASSUME NEW e, NEW f, e # None, f # None, f.set = e.set, f.size = e.size
        PROVE  \A x : Applied(f, x) = Applied(e, x)
    BY <2>4 DEF Applied
  <2>5. ent[One] # None /\ ent'[One] # None
    BY <2>1, <2>3, AttrQueueAssumption
  <2>6. Applied(ent'[One], md.size) = Applied(ent[One], md.size)
    BY <2>3, <2>4, <2>5
  <2> QED BY <1>1, <1>2, <2>6 DEF Now
<1> QED BY <1>4, <1>5, SilentNow

LEMMA QuietMaps ==
  ASSUME AloneNow, AloneNow', UNCHANGED <<md, ent, act, use>>
  PROVE  UNCHANGED Clients!vars
<1>1. \A b \in Task : Told(b)' = Told(b)
  BY Actors, ToldKept
<1> QED BY <1>1, NowKept, SilentNow

LEMMA AloneMaps ==
  ASSUME AloneNow, AloneNow', [Next]_vars
  PROVE  [Clients!Next]_Clients!vars
<1>1. ASSUME NEW a \in use.tasks, NEW op \in use.ops,
             NEW s \in CASE op = "write"    -> use.sizes \ {0}
                         [] op = "truncate" -> use.sizes
                         [] OTHER           -> {0},
             Call(a, op, s)
      PROVE  Clients!Next
  <2>1. s \in 0..MaxSize /\ op \in Op
    BY CallSize DEF AloneNow, BaseInv
  <2> QED BY <1>1, <2>1, CallMaps
<1>2. ASSUME NEW a \in Actor,
             \/ GetHit(a) \/ Hget(a) \/ HgetRet(a) \/ Written(a) \/ Queue(a) \/ Wait(a)
             \/ Lock(a) \/ Hset(a) \/ HsetRet(a) \/ Unlock(a)
      PROVE  Clients!Next \/ UNCHANGED Clients!vars
  <2>1. CASE GetHit(a)
    <3>1. a[1] = One
      BY <2>1, AtOne DEF GetHit
    <3>2. /\ act[a].pc = "getattr" /\ cache[One] # None /\ Have(a, cache[One])
          /\ UNCHANGED <<md, ent, use>>
      BY <2>1, <3>1 DEF GetHit
    <3>3. cache[One] \in Record /\ Near(cache[One])
      BY <3>2, KnownNear, OneIs DEF AloneNow, BaseInv, TypeInv
    <3> QED BY <3>2, <3>3, HaveMaps
  <2>2. CASE HgetRet(a)
    <3>1. act[a].pc = "got" /\ Have(a, act[a].md) /\ UNCHANGED <<md, ent, use>>
      BY <2>2 DEF HgetRet
    <3>2. act[a].md \in Record
      <4>1. act[a] \in ActType
        BY DEF AloneNow, BaseInv, TypeInv
      <4> QED BY <4>1 DEF ActType
    <3>3. Near(act[a].md)
      BY <3>1, KnownNear
    <3> QED BY <3>1, <3>2, <3>3, HaveMaps
  <2>3. CASE Hget(a) \/ Hset(a)
    BY <2>3, HgetMaps, HsetMaps
  <2>4. CASE Written(a) \/ Wait(a) \/ Lock(a) \/ HsetRet(a)
    BY <2>4, GotoMaps
  <2>5. CASE Queue(a)
    BY <2>5, QueueMaps
  <2>6. CASE Unlock(a)
    BY <2>6, UnlockMaps
  <2> QED BY <1>2, <2>1, <2>2, <2>3, <2>4, <2>5, <2>6
<1>3. ASSUME NEW n \in Core, FlushStart(n) \/ Expire(n)
      PROVE  UNCHANGED Clients!vars
  <2>1. Expire(n) => UNCHANGED <<md, ent, act, use>>
    BY DEF Expire
  <2> QED BY <1>3, <2>1, FlushStartMaps, QuietMaps
<1>4. CASE LockExpire \/ UNCHANGED vars
  BY <1>4, QuietMaps DEF LockExpire, vars
<1> QED BY <1>1, <1>2, <1>3, <1>4, AloneCases

(* Every step of the system is a step of FileSize, or none.                *)
LEMMA NextMaps ==
  BaseInv /\ AloneInv /\ BaseInv' /\ AloneInv' /\ [Next]_vars => [Clients!Next]_Clients!vars
<1> SUFFICES ASSUME BaseInv, AloneInv, BaseInv', AloneInv', [Next]_vars
             PROVE  [Clients!Next]_Clients!vars
  OBVIOUS
<1>1. Alone' <=> Alone
  BY UseKept DEF Alone
<1>2. CASE Alone
  <2>1. AloneNow /\ AloneNow'
    BY <1>1, <1>2 DEF AloneNow, AloneInv
  <2> QED BY <2>1, AloneMaps
<1>3. CASE ~Alone
  <2>1. Seen' = Seen /\ Log' = Log
    BY <1>1, <1>3 DEF Seen, Log
  <2> QED BY <2>1, Silent
<1> QED BY <1>2, <1>3

LEMMA InitMaps == Init => Clients!Init
<1> SUFFICES ASSUME Init PROVE Seen = 0 /\ Log = [a \in Task |-> Untold]
  BY DEF Clients!Init, Seen, Log, Untold
<1>1. BaseInv
  BY InitBase
<1>2. Alone => View(One) = 0
  <2>1. Alone => One \in Core
    BY <1>1, OneIs
  <2> QED BY <2>1 DEF Init, View, Applied
<1>3. \A a \in Task : Told(a) = Untold
  <2> SUFFICES ASSUME NEW a \in Task PROVE Told(a) = Untold
    OBVIOUS
  <2>1. act[a] = Idle
    <3>1. a \in Actor
      BY Actors
    <3> QED BY <3>1 DEF Init
  <2>2. act[a].pc = "idle" /\ act[a].op = "" /\ act[a].size = 0
    <3>1. Idle.pc = "idle" /\ Idle.op = "" /\ Idle.size = 0
      BY DEF Idle
    <3> QED BY <2>1, <3>1
  <2>3. Open(a) = FALSE
    BY <2>2 DEF Open, Ready
  <2> QED BY <2>2, <2>3 DEF Told, Untold
<1> QED BY <1>2, <1>3 DEF Seen, Log

(* With one core the size of the file is one number to its clients: every  *)
(* call takes effect at one moment between its start and its return, and   *)
(* what a flush, a lost copy or a late answer of redis does never shows.   *)
THEOREM FileSizeImplemented == Spec => ImplementsFileSize
BY InitMaps, NextMaps, BaseHolds, AloneHolds, PTL DEF Spec, ImplementsFileSize, Clients!Spec

=============================================================================
