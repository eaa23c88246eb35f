---------------------------- MODULE PlockProofs ----------------------------
(***************************************************************************)
(* Proofs about Plock, for any finite number of tasks, with or without a   *)
(* priority, and any timeouts.                                             *)
(***************************************************************************)
EXTENDS Plock, FiniteSetTheorems, WellFoundedInduction, TLAPS

(* What the list of waiters is, besides a sequence: every sleeper is in it *)
(* at one place, and nobody else is.                                       *)
Distinct(q) == \A i, j \in 1..Len(q) : q[i].task = q[j].task => i = j

QueueInv ==
  /\ Distinct(queue)
  /\ \A t \in Task : pc[t] = "queued" <=> \E i \in 1..Len(queue) : queue[i].task = t

PlockType ==
  /\ writer \in Task \cup {NoTask}
  /\ readers \in Nat
  /\ queue \in Seq(Waiter)
  /\ pc \in [Task -> PC]
  /\ since \in [Task -> 0..MaxTime]
  /\ now \in 0..MaxTime

(* The inductive invariant.  NoLostWakeup needs the counters to be right,  *)
(* and the counters need every waiter to be queued once: it is counted     *)
(* when the lock is handed to it.                                          *)
PlockInv == PlockType /\ QueueInv /\ Exclusion /\ NoLostWakeup

-----------------------------------------------------------------------------
(* The least element of a set of natural numbers, from the library's       *)
(* well-founded order on finite sets.                                      *)
LEMMA LeastNat ==
  ASSUME NEW S \in SUBSET Nat, S # {}
  PROVE  \E n \in S : \A m \in S : n <= m
<1> DEFINE T == {0..n : n \in S}
<1>1. T # {}
  OBVIOUS
<1>2. T \subseteq FiniteSubsetsOf(Nat)
  <2>1. \A n \in S : 0..n \in SUBSET Nat /\ IsFiniteSet(0..n)
    BY FS_Interval
  <2> QED BY <2>1 DEF FiniteSubsetsOf
<1> HIDE DEF T
<1>3. PICK x \in T : \A y \in T : ~ (<<y, x>> \in StrictSubsetOrdering(Nat))
  BY <1>1, <1>2, FS_StrictSubsetOrderingWellFounded, WFMin
<1>4. PICK n \in S : x = 0..n
  BY DEF T
<1>5. ASSUME NEW m \in S, m < n PROVE FALSE
  <2>1. 0..m \in T
    BY DEF T
  <2>2. 0..m \subseteq 0..n /\ 0..m # 0..n
    BY <1>5
  <2>3. <<0..m, x>> \in StrictSubsetOrdering(Nat)
    BY <2>1, <2>2, <1>2, <1>4 DEF StrictSubsetOrdering, FiniteSubsetsOf
  <2> QED BY <2>1, <2>3, <1>3
<1> QED
  BY <1>5

(* r is q with e put in at place k.                                        *)
Inserted(q, r, e, k) ==
  /\ k \in 1..(Len(q) + 1) /\ r \in Seq(Waiter) /\ Len(r) = Len(q) + 1
  /\ \A i \in 1..(Len(q) + 1) : r[i] = IF i < k THEN q[i] ELSE IF i = k THEN e ELSE q[i - 1]

(* __plock_register puts the waiter at one place k and moves nobody else;  *)
(* without a priority, k is the end.                                       *)
LEMMA RegisterFacts ==
  ASSUME NEW q \in Seq(Waiter), NEW e \in Waiter
  PROVE  \E k : Inserted(q, Register(q, e), e, k) /\ (e.prio = 0 => k = Len(q) + 1)
<1> DEFINE ordinary == {i \in 1..Len(q) : q[i].prio = 0}
<1>1. CASE e.prio = 1 /\ ordinary # {}
  <2>1. PICK k \in ordinary : k = CHOOSE i \in ordinary : \A j \in ordinary : i <= j
    <3>1. ordinary \in SUBSET Nat
      OBVIOUS
    <3>2. \E i \in ordinary : \A j \in ordinary : i <= j
      BY <1>1, <3>1, LeastNat
    <3> QED BY <3>2
  <2>2. Register(q, e) = InsertAt(q, k, e)
    BY <1>1, <2>1 DEF Register
  <2>3. k \in 1..Len(q)
    OBVIOUS
  <2> HIDE DEF ordinary
  <2>4. Inserted(q, InsertAt(q, k, e), e, k)
    BY <2>3 DEF InsertAt, Inserted
  <2> QED BY <1>1, <2>2, <2>4
<1>2. CASE ~(e.prio = 1 /\ ordinary # {})
  <2>1. Register(q, e) = Append(q, e)
    BY <1>2 DEF Register
  <2>2. Inserted(q, Append(q, e), e, Len(q) + 1)
    BY DEF Inserted
  <2> QED BY <2>1, <2>2
<1> QED
  BY <1>1, <1>2

(* Where the waiters are, and where they were.                             *)
LEMMA InsertedFacts ==
  ASSUME NEW q \in Seq(Waiter), NEW r \in Seq(Waiter), NEW e \in Waiter, NEW k \in Nat,
         Inserted(q, r, e, k)
  PROVE  /\ k \in 1..Len(r) /\ r[k] = e
         /\ \A i \in 1..Len(q) : \E j \in 1..Len(r) : r[j] = q[i]
         /\ \A i \in 1..Len(r) : i = k \/ \E j \in 1..Len(q) : r[i] = q[j]
         /\ Distinct(q) /\ (\A i \in 1..Len(q) : q[i].task # e.task) => Distinct(r)
         /\ k > 1 => q # <<>> /\ r[1] = q[1]
<1>a. /\ Len(q) \in Nat /\ k \in Nat /\ k \in 1..(Len(q) + 1) /\ r \in Seq(Waiter) /\ Len(r) = Len(q) + 1
      /\ \A i \in 1..(Len(q) + 1) : r[i] = IF i < k THEN q[i] ELSE IF i = k THEN e ELSE q[i - 1]
  BY DEF Inserted
<1>1. k \in 1..Len(r) /\ r[k] = e
  BY <1>a
<1>2. ASSUME NEW i \in 1..Len(q) PROVE \E j \in 1..Len(r) : r[j] = q[i]
  <2>1. CASE i < k
    BY <2>1, <1>a
  <2>2. CASE ~(i < k)
    <3>1. i + 1 \in 1..(Len(q) + 1) /\ ~(i + 1 < k) /\ i + 1 # k /\ (i + 1) - 1 = i
      BY <2>2, <1>a
    <3> QED BY <3>1, <1>a
  <2> QED BY <2>1, <2>2
<1>3. ASSUME NEW i \in 1..Len(r), i # k
      PROVE  \E j \in 1..Len(q) : r[i] = q[j] /\ j = IF i < k THEN i ELSE i - 1
  <2>1. CASE i < k
    BY <2>1, <1>a
  <2>2. CASE ~(i < k)
    <3>1. i - 1 \in 1..Len(q) /\ r[i] = q[i - 1]
      BY <2>2, <1>3, <1>a
    <3> QED BY <2>2, <3>1
  <2> QED BY <2>1, <2>2
<1>4. ASSUME Distinct(q), \A i \in 1..Len(q) : q[i].task # e.task PROVE Distinct(r)
  <2> SUFFICES ASSUME NEW i \in 1..Len(r), NEW j \in 1..Len(r), r[i].task = r[j].task, i # j
               PROVE  FALSE
    BY DEF Distinct
  <2>1. i # k /\ j # k
    BY <1>1, <1>3, <1>4
  <2>2. PICK x \in 1..Len(q) : r[i] = q[x] /\ x = IF i < k THEN i ELSE i - 1
    BY <2>1, <1>3
  <2>3. PICK y \in 1..Len(q) : r[j] = q[y] /\ y = IF j < k THEN j ELSE j - 1
    BY <2>1, <1>3
  <2>4. x = y
    BY <2>2, <2>3, <1>4 DEF Distinct
  <2> QED BY <2>1, <2>2, <2>3, <2>4, <1>a
<1>5. k > 1 => q # <<>> /\ r[1] = q[1]
  BY <1>a
<1> QED
  BY <1>1, <1>2, <1>3, <1>4, <1>5

(* plock_unlock's loop ends, at the waiter that Handed describes.          *)
LEMMA HandedFacts ==
  ASSUME NEW q \in Seq(Waiter), NEW rd \in Nat
  PROVE  LET n == Handed(q, rd, NoTask)
         IN  /\ n \in 0..Len(q)
             /\ \/ n = 1 /\ rd = 0 /\ q[1].type = "w"
                \/ /\ \A i \in 1..n : q[i].type = "r"
                   /\ n < Len(q) => q[n+1].type = "w"
                   /\ (n = 0 /\ Len(q) > 0) => rd > 0
<1> DEFINE Ends(n) == \/ n = 1 /\ rd = 0 /\ q[1].type = "w"
                      \/ /\ \A i \in 1..n : q[i].type = "r"
                         /\ n < Len(q) => q[n+1].type = "w"
                         /\ (n = 0 /\ Len(q) > 0) => rd > 0
           ws == {i \in 1..Len(q) : q[i].type = "w"}
<1>a. Len(q) \in Nat /\ \A i \in 1..Len(q) : q[i].type \in {"r", "w"}
  <2>1. \A i \in 1..Len(q) : q[i] \in Waiter
    OBVIOUS
  <2> QED BY <2>1 DEF Waiter
<1>1. CASE ws = {}
  <2>1. Ends(Len(q))
    BY <1>1, <1>a
  <2> QED BY <2>1, <1>a DEF Handed
<1>2. CASE ws # {}
  <2>1. PICK k \in ws : \A j \in ws : k <= j
    <3>1. ws \in SUBSET Nat
      OBVIOUS
    <3> QED BY <1>2, <3>1, LeastNat
  <2>2. \A i \in 1..(k - 1) : q[i].type = "r"
    BY <2>1, <1>a
  <2>3. k > 1 \/ rd > 0 => Ends(k - 1)
    BY <2>1, <2>2, <1>a
  <2>4. k = 1 /\ rd = 0 => Ends(1)
    BY <2>1, <1>a
  <2>5. k \in 1..Len(q) /\ k - 1 \in 0..Len(q) /\ 1 \in 0..Len(q) /\ (k > 1 \/ k = 1)
    BY <1>a
  <2>6. \E n \in 0..Len(q) : Ends(n)
    BY <2>3, <2>4, <2>5
  <2> QED BY <2>6 DEF Handed
<1> QED
  BY <1>1, <1>2

LEMMA DisjointUnion ==
  ASSUME NEW S, NEW T, IsFiniteSet(S), IsFiniteSet(T), S \cap T = {}
  PROVE  /\ Cardinality(S \cup T) = Cardinality(S) + Cardinality(T)
         /\ Cardinality(S) \in Nat /\ Cardinality(T) \in Nat
<1>1. Cardinality(S \cap T) = 0
  <2>1. Cardinality({}) = 0
    BY FS_EmptySet
  <2> QED BY <2>1, Zenon
<1>2. Cardinality(S \cup T) = Cardinality(S) + Cardinality(T) - Cardinality(S \cap T)
  BY FS_Union
<1>3. Cardinality(S) \in Nat /\ Cardinality(T) \in Nat
  BY FS_CardinalityType
<1> QED
  BY <1>1, <1>2, <1>3

(* Counting the waiters at some places counts their tasks.                 *)
LEMMA TaskCount ==
  ASSUME NEW q \in Seq(Waiter), Distinct(q), NEW K \in SUBSET (1..Len(q))
  PROVE  /\ IsFiniteSet({q[i].task : i \in K})
         /\ Cardinality({q[i].task : i \in K}) = Cardinality(K)
<1> DEFINE f == [i \in K |-> q[i].task]
           T == {q[i].task : i \in K}
<1>1. IsFiniteSet(K)
  <2>1. IsFiniteSet(1..Len(q))
    BY FS_Interval
  <2> QED BY <2>1, FS_Subset
<1>2. f \in Bijection(K, T)
  BY DEF Bijection, Injection, Surjection, IsInjective, Distinct
<1> QED
  BY <1>1, <1>2, FS_Bijection DEF ExistsBijection

LEMMA OwnersFinite ==
  /\ IsFiniteSet(Readers) /\ Cardinality(Readers) \in Nat
  /\ Cardinality(Readers) <= Cardinality(Task) /\ Cardinality(Task) \in Nat
<1>1. Readers \in SUBSET Task /\ IsFiniteSet(Task)
  BY PlockAssumption DEF Readers
<1> QED
  BY <1>1, FS_Subset, FS_CardinalityType

LEMMA QueueTypes ==
  ASSUME queue \in Seq(Waiter)
  PROVE  /\ Len(queue) \in Nat
         /\ \A i \in 1..Len(queue) : /\ queue[i] \in Waiter /\ queue[i].task \in Task
                                     /\ queue[i].type \in {"r", "w"}
<1>1. Len(queue) \in Nat /\ \A i \in 1..Len(queue) : queue[i] \in Waiter
  OBVIOUS
<1> QED
  BY <1>1 DEF Waiter

-----------------------------------------------------------------------------
(* A lock that is taken at once, by __plock_lock or by a trylock.          *)
LEMMA TakeStep ==
  ASSUME PlockInv, NEW t \in Task, NEW type \in {"r", "w"}, pc[t] = "idle", MayLock(type, FALSE),
         readers' = IF type = "r" THEN readers + 1 ELSE readers,
         writer' = IF type = "w" THEN t ELSE writer,
         pc' = [pc EXCEPT ![t] = type],
         UNCHANGED <<queue, since, now>>
  PROVE  PlockInv'
<1> USE DEF PlockInv, PlockType
<1>a. t # NoTask /\ type \in PC
  BY PlockAssumption DEF PC
<1>1. PlockType'
  BY <1>a
<1>2. QueueInv'
  BY DEF QueueInv
<1>3. Exclusion'
  <2>1. CASE type = "r"
    <3>1. Readers' = Readers \cup {t} /\ t \notin Readers /\ Writers' = Writers
      BY <2>1 DEF Readers, Writers
    <3>2. Cardinality(Readers') = Cardinality(Readers) + 1
      BY <3>1, OwnersFinite, FS_AddElement
    <3>3. writer = NoTask /\ readers' = readers + 1 /\ writer' = writer
      BY <2>1 DEF MayLock
    <3> QED BY <3>1, <3>2, <3>3 DEF Exclusion
  <2>2. CASE type = "w"
    <3>1. Readers' = Readers /\ Writers' = Writers \cup {t}
      BY <2>2 DEF Readers, Writers
    <3>2. writer = NoTask /\ readers = 0 /\ readers' = 0 /\ writer' = t
      BY <2>2 DEF MayLock
    <3> QED BY <3>1, <3>2, <1>a DEF Exclusion
  <2> QED BY <2>1, <2>2
<1>4. NoLostWakeup'
  BY <1>a DEF NoLostWakeup, MayLock
<1> QED
  BY <1>1, <1>2, <1>3, <1>4

(* __plock_lock when the lock is not to be had: the head of the queue does *)
(* not change, or it is a writer that has to wait for the readers.         *)
LEMMA QueueStep ==
  ASSUME PlockInv, NEW t \in Task, NEW type \in {"r", "w"}, NEW prio \in {0, 1},
         type = "r" => prio = 0, pc[t] = "idle", ~MayLock(type, FALSE),
         queue' = Register(queue, [task |-> t, type |-> type, prio |-> prio]),
         pc' = [pc EXCEPT ![t] = "queued"], since' = [since EXCEPT ![t] = now],
         UNCHANGED <<readers, writer, now>>
  PROVE  PlockInv'
<1>t. PlockType /\ QueueInv /\ Exclusion /\ NoLostWakeup /\ queue \in Seq(Waiter)
  BY DEF PlockInv, PlockType
<1> DEFINE e == [task |-> t, type |-> type, prio |-> prio]
<1>a. e \in Waiter /\ e.task = t /\ e.type = type /\ e.prio = prio
  BY DEF Waiter
<1>b. PICK k : Inserted(queue, Register(queue, e), e, k) /\ (e.prio = 0 => k = Len(queue) + 1)
  BY <1>a, <1>t, RegisterFacts
<1>c. PICK r : r = queue' /\ r = Register(queue, e)
  OBVIOUS
<1> HIDE DEF e
<1>d. /\ r \in Seq(Waiter) /\ k \in 1..Len(r) /\ r[k] = e
      /\ \A i \in 1..Len(queue) : \E j \in 1..Len(r) : r[j] = queue[i]
      /\ \A i \in 1..Len(r) : i = k \/ \E j \in 1..Len(queue) : r[i] = queue[j]
      /\ Distinct(queue) /\ (\A i \in 1..Len(queue) : queue[i].task # e.task) => Distinct(r)
      /\ k > 1 => queue # <<>> /\ r[1] = queue[1]
  <2>1. Inserted(queue, r, e, k)
    BY <1>b, <1>c
  <2>2. r \in Seq(Waiter) /\ k \in Nat
    BY <2>1, <1>t DEF Inserted
  <2>3. e \in Waiter /\ queue \in Seq(Waiter)
    BY <1>a, <1>t
  <2> QED BY <2>1, <2>2, <2>3, InsertedFacts
<1>1. PlockType'
  BY <1>c, <1>d, <1>t DEF PlockType, PC
<1>2. pc' \in [Task -> PC] /\ pc'[t] = "queued" /\ \A u \in Task : u # t => pc'[u] = pc[u]
  BY <1>t DEF PlockType, PC
<1>3. QueueInv'
  <2>1. \A i \in 1..Len(queue) : queue[i].task # t
    BY <1>t DEF QueueInv
  <2>2. Distinct(r)
    BY <2>1, <1>a, <1>d, <1>t DEF QueueInv
  <2>3. ASSUME NEW u \in Task
        PROVE  pc'[u] = "queued" <=> \E i \in 1..Len(r) : r[i].task = u
    <3>1. CASE u = t
      BY <3>1, <1>2, <1>a, <1>d
    <3>2. CASE u # t
      <4>1. pc'[u] = pc[u] /\ (pc[u] = "queued" <=> \E i \in 1..Len(queue) : queue[i].task = u)
        BY <3>2, <1>2, <1>t DEF QueueInv
      <4>2. (\E i \in 1..Len(queue) : queue[i].task = u) <=> (\E i \in 1..Len(r) : r[i].task = u)
        BY <3>2, <1>a, <1>d
      <4> QED BY <4>1, <4>2
    <3> QED BY <3>1, <3>2
  <2> QED BY <2>2, <2>3, <1>c DEF QueueInv
<1>4. Exclusion'
  <2>1. Readers' = Readers /\ Writers' = Writers
    BY <1>2 DEF Readers, Writers
  <2> QED BY <2>1, <1>t DEF Exclusion
<1>5. NoLostWakeup'
  <2>1. CASE k = 1
    <3>1. r[1].type = type
      BY <2>1, <1>a, <1>d
    <3>2. type = "r" => queue = <<>>
      <4>1. type = "r" => Len(queue) = 0
        BY <2>1, <1>a, <1>b
      <4> QED BY <4>1, <1>t
    <3>3. writer # NoTask \/ (type = "w" /\ readers > 0)
      BY <3>2, <1>t DEF MayLock, PlockType
    <3> QED BY <3>1, <3>3, <1>c DEF NoLostWakeup
  <2>2. CASE k > 1
    BY <2>2, <1>c, <1>d, <1>t DEF NoLostWakeup
  <2>3. k = 1 \/ k > 1
    BY <1>d, <1>c
  <2> QED BY <2>1, <2>2, <2>3
<1> QED
  BY <1>1, <1>3, <1>4, <1>5 DEF PlockInv

(* plock_unlock, with the n waiters that its loop hands the lock to.       *)
LEMMA UnlockEffect ==
  ASSUME PlockInv, NEW t \in Task, plock_unlock(t)
  PROVE  /\ ReadersLeft \in Nat /\ Cardinality(Readers \ {t}) = ReadersLeft /\ Writers \subseteq {t}
         /\ \E n \in 0..Len(queue) :
              /\ \/ n = 1 /\ ReadersLeft = 0 /\ queue[1].type = "w"
                 \/ /\ \A i \in 1..n : queue[i].type = "r"
                    /\ n < Len(queue) => queue[n+1].type = "w"
                    /\ (n = 0 /\ Len(queue) > 0) => ReadersLeft > 0
              /\ writer' = IF n > 0 /\ queue[1].type = "w" THEN queue[1].task ELSE NoTask
              /\ readers' = ReadersLeft + Cardinality({i \in 1..n : queue[i].type = "r"})
              /\ queue' = SubSeq(queue, n + 1, Len(queue))
              /\ pc' = [u \in Task |->
                          IF u = t THEN "idle"
                          ELSE IF \E i \in 1..n : queue[i].task = u
                               THEN IF u = writer' THEN "woken_w" ELSE "woken_r"
                               ELSE pc[u]]
<1>t. PlockType /\ Exclusion /\ queue \in Seq(Waiter) /\ readers \in Nat /\ pc[t] \in {"r", "w"}
  BY DEF PlockInv, PlockType, plock_unlock
<1>1. ReadersLeft \in Nat /\ Cardinality(Readers \ {t}) = ReadersLeft /\ Writers \subseteq {t}
  <2>1. CASE writer # NoTask
    <3>1. Cardinality(Readers) = 0 /\ Writers = {writer} /\ readers = 0
      BY <2>1, <1>t DEF Exclusion
    <3>2. Readers = {}
      BY <3>1, OwnersFinite, FS_EmptySet
    <3>3. t \in Writers
      BY <3>2, <1>t DEF Readers, Writers
    <3> QED BY <2>1, <3>1, <3>2, <3>3 DEF ReadersLeft
  <2>2. CASE writer = NoTask
    <3>1. readers = Cardinality(Readers) /\ Writers = {}
      BY <2>2, <1>t DEF Exclusion
    <3>2. t \in Readers
      BY <3>1, <1>t DEF Readers, Writers
    <3>3. Cardinality(Readers \ {t}) = readers - 1 /\ IsFiniteSet(Readers \ {t})
      BY <3>1, <3>2, OwnersFinite, FS_RemoveElement
    <3>4. Cardinality(Readers \ {t}) \in Nat
      BY <3>3, FS_CardinalityType
    <3> QED BY <2>2, <3>1, <3>3, <3>4 DEF ReadersLeft
  <2> QED BY <2>1, <2>2
<1>2. PICK n \in 0..Len(queue) :
        /\ n = Handed(queue, ReadersLeft, NoTask)
        /\ \/ n = 1 /\ ReadersLeft = 0 /\ queue[1].type = "w"
           \/ /\ \A i \in 1..n : queue[i].type = "r"
              /\ n < Len(queue) => queue[n+1].type = "w"
              /\ (n = 0 /\ Len(queue) > 0) => ReadersLeft > 0
  BY <1>1, <1>t, HandedFacts
<1>3. /\ \A i \in 1..n : SubSeq(queue, 1, n)[i] = queue[i]
      /\ n > 0 => SubSeq(queue, 1, n)[1] = queue[1]
  BY <1>t
<1>4. {i \in 1..n : SubSeq(queue, 1, n)[i].type = "r"} = {i \in 1..n : queue[i].type = "r"}
  BY <1>3
<1>5. /\ writer' = IF n > 0 /\ SubSeq(queue, 1, n)[1].type = "w" THEN SubSeq(queue, 1, n)[1].task ELSE NoTask
      /\ readers' = ReadersLeft + Cardinality({i \in 1..n : SubSeq(queue, 1, n)[i].type = "r"})
      /\ queue' = SubSeq(queue, n + 1, Len(queue))
      /\ pc' = [u \in Task |->
                  IF u = t THEN "idle"
                  ELSE IF \E i \in 1..n : SubSeq(queue, 1, n)[i].task = u
                       THEN IF u = writer' THEN "woken_w" ELSE "woken_r"
                       ELSE pc[u]]
  BY <1>2 DEF plock_unlock
<1>6. /\ writer' = IF n > 0 /\ queue[1].type = "w" THEN queue[1].task ELSE NoTask
      /\ readers' = ReadersLeft + Cardinality({i \in 1..n : queue[i].type = "r"})
      /\ queue' = SubSeq(queue, n + 1, Len(queue))
  BY <1>3, <1>4, <1>5
<1>7. pc' = [u \in Task |->
              IF u = t THEN "idle"
              ELSE IF \E i \in 1..n : queue[i].task = u
                   THEN IF u = writer' THEN "woken_w" ELSE "woken_r"
                   ELSE pc[u]]
  <2>1. \A u \in Task : (\E i \in 1..n : SubSeq(queue, 1, n)[i].task = u) <=> \E i \in 1..n : queue[i].task = u
    BY <1>3
  <2> QED BY <1>5, <2>1
<1> QED
  BY <1>1, <1>2, <1>6, <1>7

LEMMA UnlockStep ==
  ASSUME PlockInv, NEW t \in Task, plock_unlock(t)
  PROVE  PlockInv'
<1>t. /\ PlockType /\ QueueInv /\ Exclusion /\ queue \in Seq(Waiter) /\ pc[t] \in {"r", "w"}
      /\ UNCHANGED <<since, now>>
  BY DEF PlockInv, PlockType, plock_unlock
<1>a. /\ Len(queue) \in Nat
      /\ \A i \in 1..Len(queue) : queue[i].task \in Task /\ queue[i].type \in {"r", "w"}
  BY <1>t, QueueTypes
<1>b. ReadersLeft \in Nat /\ Cardinality(Readers \ {t}) = ReadersLeft /\ Writers \subseteq {t}
  BY UnlockEffect
<1>c. PICK n \in 0..Len(queue) :
        /\ \/ n = 1 /\ ReadersLeft = 0 /\ queue[1].type = "w"
           \/ /\ \A i \in 1..n : queue[i].type = "r"
              /\ n < Len(queue) => queue[n+1].type = "w"
              /\ (n = 0 /\ Len(queue) > 0) => ReadersLeft > 0
        /\ writer' = IF n > 0 /\ queue[1].type = "w" THEN queue[1].task ELSE NoTask
        /\ readers' = ReadersLeft + Cardinality({i \in 1..n : queue[i].type = "r"})
        /\ queue' = SubSeq(queue, n + 1, Len(queue))
        /\ pc' = [u \in Task |->
                    IF u = t THEN "idle"
                    ELSE IF \E i \in 1..n : queue[i].task = u
                         THEN IF u = writer' THEN "woken_w" ELSE "woken_r"
                         ELSE pc[u]]
  BY UnlockEffect
<1> DEFINE Taken == {queue[i].task : i \in 1..n}
<1>d. PICK q \in Seq(Waiter) : /\ q = queue' /\ Len(q) = Len(queue) - n
                              /\ \A i \in 1..Len(q) : q[i] = queue[n + i]
  <2>1. /\ SubSeq(queue, n + 1, Len(queue)) \in Seq(Waiter)
        /\ Len(SubSeq(queue, n + 1, Len(queue))) = Len(queue) - n
        /\ \A i \in 1..(Len(queue) - n) : SubSeq(queue, n + 1, Len(queue))[i] = queue[n + i]
    BY <1>t, <1>a
  <2>2. queue' = SubSeq(queue, n + 1, Len(queue))
    BY <1>c
  <2> QED BY <2>1, <2>2
<1>e. /\ \A i \in 1..n : i \in 1..Len(queue)
      /\ \A i \in 1..Len(q) : n + i \in 1..Len(queue)
      /\ \A i \in 1..Len(queue) : i \in 1..n \/ i - n \in 1..Len(q)
  BY <1>a, <1>d
<1>f. /\ IsFiniteSet(Taken) /\ Cardinality(Taken) = n
      /\ Taken \subseteq Task /\ t \notin Taken
      /\ \A u \in Taken : pc[u] = "queued"
  <2>1. IsFiniteSet(Taken) /\ Cardinality(Taken) = Cardinality(1..n)
    <3>1. 1..n \in SUBSET (1..Len(queue)) /\ Distinct(queue)
      BY <1>e, <1>t DEF QueueInv
    <3> QED BY <3>1, <1>t, TaskCount
  <2>2. Cardinality(1..n) = n
    BY <1>a, FS_Interval
  <2>3. \A u \in Taken : pc[u] = "queued" /\ u \in Task
    BY <1>a, <1>e, <1>t DEF QueueInv
  <2> QED BY <2>1, <2>2, <2>3, <1>t
<1>g. /\ pc' \in [Task -> PC] /\ pc'[t] = "idle"
      /\ \A u \in Task \ {t} : u \notin Taken => pc'[u] = pc[u]
      /\ \A u \in Taken : pc'[u] = IF u = writer' THEN "woken_w" ELSE "woken_r"
  BY <1>c, <1>f, <1>t DEF PlockType, PC
<1> HIDE DEF Taken
(* One writer, or the leading readers.                                     *)
<1>h. \/ /\ n = 1 /\ ReadersLeft = 0 /\ writer' \in Task /\ Taken = {writer'}
         /\ readers' = 0
      \/ /\ writer' = NoTask /\ readers' = ReadersLeft + n
         /\ \A i \in 1..n : queue[i].type = "r"
         /\ n < Len(queue) => queue[n+1].type = "w"
         /\ (n = 0 /\ Len(queue) > 0) => ReadersLeft > 0
  <2>1. CASE n = 1 /\ ReadersLeft = 0 /\ queue[1].type = "w"
    <3>1. {i \in 1..n : queue[i].type = "r"} = {}
      BY <2>1
    <3>2. readers' = 0
      <4>1. readers' = ReadersLeft + Cardinality({i \in 1..n : queue[i].type = "r"})
        BY <1>c
      <4>2. Cardinality({}) = 0
        BY FS_EmptySet
      <4>3. readers' = ReadersLeft + Cardinality({})
        BY <3>1, <4>1, Zenon
      <4> QED BY <2>1, <4>2, <4>3
    <3>3. writer' = queue[1].task /\ queue[1].task \in Task /\ Taken = {queue[1].task}
      BY <2>1, <1>a, <1>c, <1>e DEF Taken
    <3> QED BY <2>1, <3>2, <3>3
  <2>2. CASE /\ \A i \in 1..n : queue[i].type = "r"
             /\ n < Len(queue) => queue[n+1].type = "w"
             /\ (n = 0 /\ Len(queue) > 0) => ReadersLeft > 0
    <3>1. {i \in 1..n : queue[i].type = "r"} = 1..n
      BY <2>2
    <3>2. Cardinality(1..n) = n
      BY <1>a, FS_Interval
    <3>3. readers' = ReadersLeft + n
      BY <3>1, <3>2, <1>c
    <3>4. writer' = NoTask
      BY <2>2, <1>a, <1>c
    <3> QED BY <2>2, <3>3, <3>4
  <2> QED BY <2>1, <2>2, <1>c
<1>1. PlockType'
  <2>1. writer' \in Task \cup {NoTask} /\ readers' \in Nat
    BY <1>b, <1>h, <1>a
  <2> QED BY <2>1, <1>d, <1>g, <1>t DEF PlockType
<1>2. QueueInv'
  <2>1. Distinct(q)
    <3> SUFFICES ASSUME NEW i \in 1..Len(q), NEW j \in 1..Len(q), q[i].task = q[j].task PROVE i = j
      BY DEF Distinct
    <3>1. n + i = n + j
      BY <1>d, <1>e, <1>t DEF QueueInv, Distinct
    <3> QED BY <3>1, <1>a
  <2>2. ASSUME NEW u \in Task PROVE pc'[u] = "queued" <=> \E i \in 1..Len(q) : q[i].task = u
    <3>1. pc[u] = "queued" <=> \E i \in 1..Len(queue) : queue[i].task = u
      BY <1>t DEF QueueInv
    <3>2. ASSUME NEW i \in 1..Len(q), q[i].task = u PROVE pc[u] = "queued" /\ u \notin Taken
      <4>1. queue[n + i].task = u /\ n + i \in 1..Len(queue) /\ n + i \notin 1..n
        BY <3>2, <1>a, <1>d, <1>e
      <4>2. \A j \in 1..n : queue[j].task # u
        BY <4>1, <1>e, <1>t DEF QueueInv, Distinct
      <4> QED BY <3>1, <4>1, <4>2 DEF Taken
    <3>3. ASSUME pc[u] = "queued", u \notin Taken PROVE \E i \in 1..Len(q) : q[i].task = u
      <4>1. PICK i \in 1..Len(queue) : queue[i].task = u
        BY <3>1, <3>3
      <4>2. i \notin 1..n
        BY <3>3, <4>1 DEF Taken
      <4>3. i - n \in 1..Len(q) /\ n + (i - n) = i
        BY <4>2, <1>a, <1>e
      <4> QED BY <4>1, <4>3, <1>d
    <3>4. pc'[u] = "queued" <=> pc[u] = "queued" /\ u \notin Taken
      BY <1>f, <1>g, <1>t
    <3> QED BY <3>2, <3>3, <3>4
  <2> QED BY <2>1, <2>2, <1>d DEF QueueInv
<1>3. Exclusion'
  <2>1. CASE /\ n = 1 /\ ReadersLeft = 0 /\ writer' \in Task /\ Taken = {writer'}
             /\ readers' = 0
    <3>1. Readers \ {t} = {}
      BY <2>1, <1>b, OwnersFinite, FS_Subset, FS_EmptySet
    <3>2. Readers' = {} /\ Writers' = {writer'}
      BY <2>1, <3>1, <1>b, <1>f, <1>g DEF Readers, Writers
    <3> QED BY <2>1, <3>2, FS_EmptySet, PlockAssumption DEF Exclusion
  <2>2. CASE writer' = NoTask /\ readers' = ReadersLeft + n
    <3>1. \A u \in Taken : pc'[u] = "woken_r"
      BY <2>2, <1>f, <1>g, PlockAssumption
    <3>2. Readers' = (Readers \ {t}) \cup Taken /\ (Readers \ {t}) \cap Taken = {}
      BY <3>1, <1>f, <1>g DEF Readers
    <3>3. Writers' = {}
      BY <3>1, <1>b, <1>f, <1>g DEF Writers
    <3>4. IsFiniteSet(Readers \ {t})
      BY OwnersFinite, FS_Subset
    <3>5. Cardinality((Readers \ {t}) \cup Taken) = Cardinality(Readers \ {t}) + Cardinality(Taken)
      BY <3>2, <3>4, <1>f, DisjointUnion
    <3>6. Cardinality(Readers') = ReadersLeft + n
      BY <3>2, <3>5, <1>b, <1>f, Zenon
    <3> QED BY <2>2, <3>3, <3>6 DEF Exclusion
  <2> QED BY <2>1, <2>2, <1>h
<1>4. NoLostWakeup'
  <2>1. CASE writer' \in Task
    BY <2>1, PlockAssumption DEF NoLostWakeup
  <2>2. CASE /\ readers' = ReadersLeft + n
             /\ n < Len(queue) => queue[n+1].type = "w"
             /\ (n = 0 /\ Len(queue) > 0) => ReadersLeft > 0
    <3> SUFFICES ASSUME q # <<>> PROVE readers' > 0 /\ q[1].type = "w"
      BY <1>d DEF NoLostWakeup
    <3>1. Len(q) > 0
      OBVIOUS
    <3>2. n < Len(queue) /\ q[1] = queue[n + 1]
      BY <3>1, <1>a, <1>d
    <3> QED BY <2>2, <3>2, <1>a, <1>b
  <2> QED BY <2>1, <2>2, <1>h
<1> QED
  BY <1>1, <1>2, <1>3, <1>4 DEF PlockInv

(* The yield that returns.                                                 *)
LEMMA ReturnStep ==
  ASSUME PlockInv, NEW t \in Task, Return(t)
  PROVE  PlockInv'
<1>t. PlockType /\ QueueInv /\ Exclusion /\ NoLostWakeup /\ UNCHANGED <<writer, readers, queue, now>>
  BY DEF PlockInv, Return
<1>1. /\ pc' \in [Task -> PC] /\ pc[t] # "queued" /\ pc'[t] # "queued"
      /\ pc'[t] \in {"r", "woken_r"} <=> pc[t] \in {"r", "woken_r"}
      /\ pc'[t] \in {"w", "woken_w"} <=> pc[t] \in {"w", "woken_w"}
      /\ \A u \in Task : u # t => pc'[u] = pc[u]
  BY <1>t DEF Return, PlockType, PC
<1>2. PlockType'
  BY <1>1, <1>t, PlockAssumption DEF Return, PlockType
<1>3. QueueInv'
  BY <1>1, <1>t DEF QueueInv
<1>4. Readers' = Readers /\ Writers' = Writers
  BY <1>1 DEF Readers, Writers
<1> QED
  BY <1>2, <1>3, <1>4, <1>t DEF PlockInv, Exclusion, NoLostWakeup

(* What stays in the queue is in it once, and nothing else is.             *)
LEMMA KeepFacts ==
  ASSUME queue \in Seq(Waiter), Distinct(queue), NEW keep \in SUBSET (1..Len(queue)), KeepOnly(keep)
  PROVE  /\ queue' \in Seq(Waiter) /\ Distinct(queue')
         /\ \A i \in 1..Len(queue') : \E j \in keep : queue'[i] = queue[j]
         /\ \A j \in keep : \E i \in 1..Len(queue') : queue'[i] = queue[j]
<1>1. IsFiniteSet(keep) /\ Cardinality(keep) \in Nat
  <2>1. IsFiniteSet(1..Len(queue))
    BY FS_Interval
  <2> QED BY <2>1, FS_Subset, FS_CardinalityType
<1>2. PICK n \in Nat : n = Cardinality(keep)
  BY <1>1
<1>3. PICK at \in Bijection(1..n, keep) : queue' = [i \in DOMAIN at |-> queue[at[i]]]
  BY <1>2 DEF KeepOnly
<1>4. /\ at \in [1..n -> keep] /\ \A i, j \in 1..n : at[i] = at[j] => i = j
      /\ \A j \in keep : \E i \in 1..n : at[i] = j
  BY DEF Bijection, Injection, Surjection, IsInjective
<1>5. PICK q \in Seq(Waiter) : q = queue' /\ Len(q) = n /\ \A i \in 1..n : q[i] = queue[at[i]]
  <2> DEFINE f == [i \in 1..n |-> queue[at[i]]]
  <2>1. ASSUME NEW i \in 1..n PROVE at[i] \in 1..Len(queue) /\ queue[at[i]] \in Waiter
    <3>1. PICK j \in keep : j = at[i]
      BY <1>4
    <3>2. j \in 1..Len(queue) /\ \A k \in 1..Len(queue) : queue[k] \in Waiter
      OBVIOUS
    <3> QED BY <3>1, <3>2
  <2>2. f \in [1..n -> Waiter] /\ \A i \in 1..n : f[i] = queue[at[i]]
    BY <2>1
  <2>3. queue' = f
    BY <1>3, <1>4
  <2> HIDE DEF f
  <2>4. f \in Seq(Waiter) /\ Len(f) = n
    BY <2>2
  <2> QED BY <2>2, <2>3, <2>4
<1>6. Distinct(q)
  <2> SUFFICES ASSUME NEW i \in 1..n, NEW j \in 1..n, q[i].task = q[j].task PROVE i = j
    BY <1>5 DEF Distinct
  <2>1. at[i] \in 1..Len(queue) /\ at[j] \in 1..Len(queue) /\ queue[at[i]].task = queue[at[j]].task
    BY <1>4, <1>5
  <2> QED BY <2>1, <1>4 DEF Distinct
<1>7. ASSUME NEW i \in 1..Len(q) PROVE \E j \in keep : q[i] = queue[j]
  <2>1. i \in 1..n /\ at[i] \in keep
    BY <1>4, <1>5
  <2> QED BY <2>1, <1>5
<1>8. \A j \in keep : \E i \in 1..Len(q) : q[i] = queue[j]
  BY <1>4, <1>5
<1> QED
  BY <1>5, <1>6, <1>7, <1>8

(* __plock_timeout_check: readers that overtake the writers, and writers   *)
(* that are sent away.                                                     *)
LEMMA TimeoutStep ==
  ASSUME PlockInv, NEW t \in Task, TimeoutCheck(t)
  PROVE  PlockInv'
<1>t. /\ PlockType /\ QueueInv /\ Exclusion /\ NoLostWakeup /\ queue \in Seq(Waiter)
      /\ UNCHANGED <<writer, since, now>> /\ writer = NoTask
  BY DEF PlockInv, PlockType, TimeoutCheck
<1>a. /\ Len(queue) \in Nat
      /\ \A i \in 1..Len(queue) : queue[i].task \in Task /\ queue[i].type \in {"r", "w"}
  BY <1>t, QueueTypes
<1>b. PICK reader, late :
        /\ reader = {i \in 1..Len(queue) : queue[i].type = "r"}
        /\ late = {i \in (1..Len(queue)) \ reader : since[queue[i].task] + RpcTimeout <= now}
  OBVIOUS
<1>c. PICK forced : forced = {queue[i].task : i \in reader}
  OBVIOUS
<1>d. PICK keep : keep = (1..Len(queue)) \ (reader \cup late)
  OBVIOUS
<1>e. /\ readers' = readers + Cardinality(forced)
      /\ KeepOnly(keep)
      /\ pc' = [u \in Task |-> IF u \in forced THEN "woken_r"
                              ELSE IF \E i \in late : queue[i].task = u THEN "woken_etimedout"
                              ELSE pc[u]]
  BY <1>b, <1>c, <1>d DEF TimeoutCheck
<1>f. PICK q \in Seq(Waiter) :
        /\ q = queue' /\ Distinct(q)
        /\ \A i \in 1..Len(q) : \E j \in keep : q[i] = queue[j]
        /\ \A j \in keep : \E i \in 1..Len(q) : q[i] = queue[j]
  <2>1. keep \in SUBSET (1..Len(queue)) /\ Distinct(queue)
    BY <1>d, <1>t DEF QueueInv
  <2> QED BY <2>1, <1>e, <1>t, KeepFacts
<1>g. /\ reader \subseteq 1..Len(queue) /\ late \subseteq 1..Len(queue) /\ keep \subseteq 1..Len(queue)
      /\ \A i \in 1..Len(queue) : i \in reader \/ i \in late \/ i \in keep
      /\ keep \cap (reader \cup late) = {}
  BY <1>b, <1>d
<1>h. forced \subseteq Task /\ \A u \in forced : pc[u] = "queued"
  BY <1>a, <1>c, <1>g, <1>t DEF QueueInv
<1>i. /\ pc' \in [Task -> PC]
      /\ \A u \in forced : pc'[u] = "woken_r"
      /\ \A u \in Task \ forced : \/ pc'[u] = pc[u] /\ \A i \in late : queue[i].task # u
                                  \/ pc'[u] = "woken_etimedout" /\ \E i \in late : queue[i].task = u
  BY <1>e, <1>h, <1>t DEF PlockType, PC
<1>j. /\ IsFiniteSet(forced) /\ Cardinality(forced) \in Nat
  <2>1. reader \in SUBSET (1..Len(queue)) /\ Distinct(queue)
    BY <1>g, <1>t DEF QueueInv
  <2> QED BY <2>1, <1>c, <1>t, TaskCount, FS_CardinalityType
<1>1. PlockType'
  <2>1. readers' \in Nat
    BY <1>e, <1>j, <1>t DEF PlockType
  <2> QED BY <2>1, <1>f, <1>i, <1>t DEF PlockType
<1>2. QueueInv'
  <2>1. ASSUME NEW u \in Task PROVE pc'[u] = "queued" <=> \E i \in 1..Len(q) : q[i].task = u
    <3>1. pc[u] = "queued" <=> \E i \in 1..Len(queue) : queue[i].task = u
      BY <1>t DEF QueueInv
    <3>2. ASSUME pc'[u] = "queued" PROVE \E i \in 1..Len(q) : q[i].task = u
      <4>1. pc[u] = "queued" /\ u \notin forced /\ \A i \in late : queue[i].task # u
        BY <3>2, <1>i
      <4>2. PICK i \in 1..Len(queue) : queue[i].task = u
        BY <3>1, <4>1
      <4>3. i \in keep
        BY <4>1, <4>2, <1>c, <1>g
      <4> QED BY <4>2, <4>3, <1>f
    <3>3. ASSUME NEW i \in 1..Len(q), q[i].task = u PROVE pc'[u] = "queued"
      <4>1. PICK j \in keep : queue[j].task = u
        BY <3>3, <1>f
      <4>2. \A k \in reader \cup late : queue[k].task # u
        BY <4>1, <1>g, <1>t DEF QueueInv, Distinct
      <4> QED BY <3>1, <4>1, <4>2, <1>c, <1>g, <1>i
    <3> QED BY <3>2, <3>3
  <2> QED BY <2>1, <1>f DEF QueueInv
<1>3. Exclusion'
  <2>1. Readers' = Readers \cup forced /\ Readers \cap forced = {}
    <3>1. \A u \in Task \ forced : pc'[u] = pc[u] \/ (pc'[u] = "woken_etimedout" /\ pc[u] = "queued")
      BY <1>g, <1>i, <1>t DEF QueueInv
    <3> QED BY <3>1, <1>h, <1>i DEF Readers
  <2>2. Writers' = {}
    <3>1. Writers = {}
      BY <1>t DEF Exclusion
    <3> QED BY <3>1, <1>h, <1>i DEF Writers
  <2>3. Cardinality(Readers \cup forced) = Cardinality(Readers) + Cardinality(forced)
    BY <2>1, <1>j, OwnersFinite, DisjointUnion
  <2>4. Cardinality(Readers') = readers'
    <3>1. readers = Cardinality(Readers)
      BY <1>t DEF Exclusion
    <3> QED BY <3>1, <2>1, <2>3, <1>e, Zenon
  <2> QED BY <2>2, <2>4, <1>t DEF Exclusion
<1>4. NoLostWakeup'
  <2> SUFFICES ASSUME q # <<>> PROVE readers' > 0 /\ q[1].type = "w"
    BY <1>f DEF NoLostWakeup
  <2>1. 1 \in 1..Len(q)
    OBVIOUS
  <2>2. PICK j \in keep : q[1] = queue[j]
    BY <2>1, <1>f
  <2>3. q[1].type = "w"
    BY <2>2, <1>a, <1>b, <1>g
  <2>4. queue # <<>>
    BY <2>2, <1>g
  <2>5. readers \in Nat /\ readers > 0
    BY <2>4, <1>t DEF NoLostWakeup, PlockType
  <2> QED BY <2>3, <2>5, <1>e, <1>j
<1> QED
  BY <1>1, <1>2, <1>3, <1>4 DEF PlockInv

LEMMA PlockNext == PlockInv /\ [Next]_vars => PlockInv'
<1> SUFFICES ASSUME PlockInv, [Next]_vars PROVE PlockInv'
  OBVIOUS
<1>1. ASSUME NEW t \in Task, NEW type \in {"r", "w"}, NEW prio \in {0, 1}, type = "r" => prio = 0,
             Lock(t, type, prio)
      PROVE  PlockInv'
  <2>1. CASE MayLock(type, FALSE)
    BY <1>1, <2>1, TakeStep DEF Lock
  <2>2. CASE ~MayLock(type, FALSE)
    BY <1>1, <2>2, QueueStep DEF Lock
  <2> QED BY <2>1, <2>2
<1>2. ASSUME NEW t \in Task, plock_rdlock(t) \/ plock_wrlock(t) \/ plock_wrlock_prio(t) PROVE PlockInv'
  BY <1>1, <1>2 DEF plock_rdlock, plock_wrlock, plock_wrlock_prio
<1>3. ASSUME NEW t \in Task, plock_tryrdlock(t) \/ plock_trywrlock(t) PROVE PlockInv'
  BY <1>3, TakeStep DEF plock_tryrdlock, plock_trywrlock, Trylock
<1>4. CASE Tick \/ UNCHANGED vars
  <2>1. UNCHANGED <<writer, readers, queue, pc, since>>
    BY <1>4 DEF Tick, vars
  <2>2. PlockType'
    BY <1>4, PlockAssumption DEF Tick, vars, PlockInv, PlockType
  <2> QED
    BY <2>1, <2>2 DEF PlockInv, QueueInv, Exclusion, NoLostWakeup, Readers, Writers
<1> QED
  BY <1>2, <1>3, <1>4, UnlockStep, ReturnStep, TimeoutStep DEF Next

LEMMA PlockAlways == Spec => []PlockInv
<1>1. Init => PlockInv
  <2> SUFFICES ASSUME Init PROVE PlockInv
    OBVIOUS
  <2>1. PlockType /\ QueueInv /\ NoLostWakeup
    BY PlockAssumption DEF Init, PlockType, QueueInv, Distinct, NoLostWakeup, PC
  <2>2. Readers = {} /\ Writers = {}
    BY DEF Init, Readers, Writers
  <2> QED BY <2>1, <2>2, FS_EmptySet DEF Init, PlockInv, Exclusion
<1> QED
  BY <1>1, PlockNext, PTL DEF Spec

-----------------------------------------------------------------------------
(* The lock's fields keep their types, and rwlock->readers never counts    *)
(* more readers than there are tasks, nor goes below zero.                 *)
THEOREM PlockTypeCorrect == Spec => []TypeOK
<1>1. PlockInv => TypeOK
  BY OwnersFinite DEF PlockInv, PlockType, Exclusion, TypeOK
<1> QED
  BY <1>1, PlockAlways, PTL

(* plock.c gives mutual exclusion to any number of tasks: a writer never   *)
(* shares the lock, and writer and readers tell exactly who owns it, while *)
(* it is handed over, forced open for readers or given up after a timeout. *)
THEOREM PlockExclusion == Spec => []Exclusion
<1>1. PlockInv => Exclusion
  BY DEF PlockInv
<1> QED
  BY <1>1, PlockAlways, PTL

(* plock_unlock and __plock_timeout_check never leave a waiter at the head *)
(* of the queue of a lock that it could have.                              *)
THEOREM PlockNoLostWakeup == Spec => []NoLostWakeup
<1>1. PlockInv => NoLostWakeup
  BY DEF PlockInv
<1> QED
  BY <1>1, PlockAlways, PTL

(* Every lock_wait_t on a sleeper's stack is in the queue once, and none   *)
(* is in it when its task has been resumed: no dangling list entry.        *)
THEOREM PlockQueuedOnce == Spec => []QueuedOnce
<1>1. ASSUME PlockInv PROVE QueuedOnce
  <2> SUFFICES ASSUME NEW t \in Task
               PROVE  Cardinality({i \in 1..Len(queue) : queue[i].task = t})
                        = IF pc[t] = "queued" THEN 1 ELSE 0
    BY DEF QueuedOnce
  <2>1. pc[t] = "queued" <=> \E i \in 1..Len(queue) : queue[i].task = t
    BY <1>1 DEF PlockInv, QueueInv
  <2>2. CASE pc[t] = "queued"
    <3>1. PICK i \in 1..Len(queue) : queue[i].task = t
      BY <2>1, <2>2
    <3>2. {j \in 1..Len(queue) : queue[j].task = t} = {i}
      BY <1>1, <3>1 DEF PlockInv, QueueInv, Distinct
    <3> QED BY <2>2, <3>2, FS_Singleton
  <2>3. CASE pc[t] # "queued"
    <3>1. {j \in 1..Len(queue) : queue[j].task = t} = {}
      BY <2>1, <2>3
    <3> QED BY <2>3, <3>1, FS_EmptySet
  <2> QED BY <2>2, <2>3
<1> QED
  BY <1>1, PlockAlways, PTL

=============================================================================
