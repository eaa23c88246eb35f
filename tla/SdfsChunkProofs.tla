-------------------------- MODULE SdfsChunkProofs --------------------------
(***************************************************************************)
(* Proofs about SdfsChunk, for any number of clients, disks and writes:    *)
(* first the types, the clients' operations and the disks, in every        *)
(* environment, then the lock and the data, in an environment that does    *)
(* not overrun leases or send redis commands twice.                        *)
(***************************************************************************)
EXTENDS SdfsChunk, FiniteSetTheorems, TLAPS

(* Which operation a client k may be doing at each place, and that the     *)
(* data it writes was issued: what TypeOK needs to be inductive.           *)
OpInv(k, I) ==
  /\ k.op = "write" => k.w \in I
  /\ k.pc \in {"wr_lock", "writing", "wr_unlock", "wr_err"} => k.op = "write"
  /\ k.pc \in LoadPC \cup IoPC \cup {"failed"} => k.op # "recover"

TypeInv == TypeOK /\ \A c \in Client : OpInv(cl[c], issued)

-----------------------------------------------------------------------------
(* What Set, Goto, Finish and Fail do to the clients.                      *)
LEMMA SetFacts ==
  ASSUME cl \in [Client -> ClientState], NEW c \in Client, NEW k \in ClientState, Set(c, k)
  PROVE  /\ cl' \in [Client -> ClientState]
         /\ cl'[c] = k
         /\ \A x \in Client : x # c => cl'[x] = cl[x]
  BY DEF Set

(* Client c moves to l with chkinfo i and todo t; n and o are its intact   *)
(* and ok, and the call it is in remains the same.                         *)
Moves(k, q, l, i, t, n, o) ==
  /\ q \in ClientState
  /\ q.pc = l /\ q.op = k.op /\ q.w = k.w /\ q.base = k.base
  /\ q.info = i /\ q.todo = t /\ q.intact = n /\ q.ok = o

Moved(c, l, i, t, n, o) ==
  /\ cl' \in [Client -> ClientState]
  /\ Moves(cl[c], cl'[c], l, i, t, n, o)
  /\ \A x \in Client : x # c => cl'[x] = cl[x]

LEMMA SetMoved ==
  ASSUME cl \in [Client -> ClientState], NEW c \in Client, NEW q, Set(c, q),
         NEW l, NEW i, NEW t, NEW n, NEW o, Moves(cl[c], q, l, i, t, n, o)
  PROVE  Moved(c, l, i, t, n, o)
  BY SetFacts DEF Moves, Moved

LEMMA GotoMoves ==
  ASSUME NEW k \in ClientState, NEW l \in PC
  PROVE  Moves(k, [k EXCEPT !.pc = l], l, k.info, k.todo, k.intact, k.ok)
  BY DEF ClientState, Moves

LEMMA GotoMoved ==
  ASSUME cl \in [Client -> ClientState], NEW c \in Client, NEW l \in PC, Goto(c, l)
  PROVE  Moved(c, l, cl[c].info, cl[c].todo, cl[c].intact, cl[c].ok)
<1>1. cl[c] \in ClientState
  OBVIOUS
<1> QED
  BY <1>1, GotoMoves, SetMoved DEF Goto

LEMMA StartTyped ==
  ASSUME NEW o \in {"read", "write", "recover"}, NEW w \in Write \cup {None},
         NEW b \in SUBSET Write
  PROVE  Start(o, w, b) \in ClientState
<1>1. NoInfo \in ChkInfo
  BY DEF NoInfo, ChkInfo
<1> QED
  BY <1>1, SdfsChunkAssumption DEF Start, ClientState, PC, LoadPC, RecPC

LEMMA IdleTyped == Idle \in ClientState /\ Idle.pc = "idle" /\ Idle.op = "read"
<1>1. Start("read", None, {}) \in ClientState
  BY StartTyped
<1>2. Start("read", None, {}).op = "read"
  BY DEF Start
<1>3. "idle" \in PC
  BY DEF PC
<1> QED
  BY <1>1, <1>2, <1>3, GotoMoves DEF Idle, Moves

LEMMA FinishFacts ==
  ASSUME cl \in [Client -> ClientState], NEW c \in Client, Finish(c)
  PROVE  /\ cl' \in [Client -> ClientState]
         /\ cl'[c].pc = "idle" /\ cl'[c].op = "read"
         /\ \A x \in Client : x # c => cl'[x] = cl[x]
  BY IdleTyped, SetFacts DEF Finish

LEMMA FailMoved ==
  ASSUME cl \in [Client -> ClientState], NEW c \in Client, Fail(c)
  PROVE  Moved(c, "failed", NoInfo, {}, TRUE, TRUE)
<1> DEFINE s == Start(cl[c].op, cl[c].w, cl[c].base)
           q == [s EXCEPT !.pc = "failed", !.tries = cl[c].tries]
<1>1. cl[c] \in ClientState
  OBVIOUS
<1>2. s \in ClientState
  BY <1>1, StartTyped, ZenonT(40) DEF ClientState
<1>3. /\ s.op = cl[c].op /\ s.w = cl[c].w /\ s.base = cl[c].base
      /\ s.info = NoInfo /\ s.todo = {} /\ s.intact = TRUE /\ s.ok = TRUE
  BY DEF Start
<1>4. Moves(cl[c], q, "failed", NoInfo, {}, TRUE, TRUE)
  <2> HIDE DEF s
  <2> QED BY <1>1, <1>2, <1>3 DEF ClientState, PC, Moves
<1>5. Set(c, q)
  BY DEF Fail
<1> QED
  <2> HIDE DEF q, s
  <2> QED BY <1>4, <1>5, SetMoved

(* The other forms of update, by the fields that they change.              *)
LEMMA UpdateMoves ==
  ASSUME NEW k \in ClientState, NEW l \in PC, NEW i \in ChkInfo, NEW t \in SUBSET Disk
  PROVE  /\ Moves(k, [k EXCEPT !.info = i, !.pc = l],
                  l, i, k.todo, k.intact, k.ok)
         /\ Moves(k, [k EXCEPT !.todo = t, !.pc = l],
                  l, k.info, t, k.intact, k.ok)
         /\ Moves(k, [k EXCEPT !.todo = t],
                  k.pc, k.info, t, k.intact, k.ok)
         /\ Moves(k, [k EXCEPT !.todo = t, !.ok = FALSE],
                  k.pc, k.info, t, k.intact, FALSE)
         /\ Moves(k, [k EXCEPT !.info = i, !.todo = t, !.pc = l],
                  l, i, t, k.intact, k.ok)
         /\ Moves(k, [k EXCEPT !.intact = TRUE, !.todo = t, !.pc = l],
                  l, k.info, t, TRUE, k.ok)
         /\ Moves(k, [k EXCEPT !.intact = FALSE, !.todo = t, !.pc = l],
                  l, k.info, t, FALSE, k.ok)
         /\ Moves(k, [k EXCEPT !.pc = l, !.rtry = 0, !.info = i],
                  l, i, k.todo, k.intact, k.ok)
         /\ Moves(k, [k EXCEPT !.again = 1, !.pc = l, !.info = i, !.todo = t],
                  l, i, t, k.intact, k.ok)
         /\ Moves(k, [k EXCEPT !.rtry = 1, !.pc = l, !.info = i, !.todo = t],
                  l, i, t, k.intact, k.ok)
<1>1. Moves(k, [k EXCEPT !.info = i, !.pc = l],
           l, i, k.todo, k.intact, k.ok)
  BY DEF ClientState, Moves
<1>2. Moves(k, [k EXCEPT !.todo = t, !.pc = l],
           l, k.info, t, k.intact, k.ok)
  BY DEF ClientState, Moves
<1>3. Moves(k, [k EXCEPT !.todo = t],
           k.pc, k.info, t, k.intact, k.ok)
  BY DEF ClientState, Moves
<1>4. Moves(k, [k EXCEPT !.todo = t, !.ok = FALSE],
           k.pc, k.info, t, k.intact, FALSE)
  BY DEF ClientState, Moves
<1>5. Moves(k, [k EXCEPT !.info = i, !.todo = t, !.pc = l],
           l, i, t, k.intact, k.ok)
  BY DEF ClientState, Moves
<1>6. Moves(k, [k EXCEPT !.intact = TRUE, !.todo = t, !.pc = l],
           l, k.info, t, TRUE, k.ok)
  BY DEF ClientState, Moves
<1>7. Moves(k, [k EXCEPT !.intact = FALSE, !.todo = t, !.pc = l],
           l, k.info, t, FALSE, k.ok)
  BY DEF ClientState, Moves
<1>8. Moves(k, [k EXCEPT !.pc = l, !.rtry = 0, !.info = i],
           l, i, k.todo, k.intact, k.ok)
  BY DEF ClientState, Moves
<1>9. Moves(k, [k EXCEPT !.again = 1, !.pc = l, !.info = i, !.todo = t],
           l, i, t, k.intact, k.ok)
  BY DEF ClientState, Moves
<1>10. Moves(k, [k EXCEPT !.rtry = 1, !.pc = l, !.info = i, !.todo = t],
           l, i, t, k.intact, k.ok)
  BY DEF ClientState, Moves
<1> QED
  BY <1>1, <1>2, <1>3, <1>4, <1>5, <1>6, <1>7, <1>8, <1>9, <1>10

LEMMA RetryMoves ==
  ASSUME NEW k \in ClientState, k.tries < MaxRetry
  PROVE  Moves(k, [k EXCEPT !.pc = "fast", !.tries = @ + 1],
               "fast", k.info, k.todo, k.intact, k.ok)
<1>1. k.tries + 1 \in 0..MaxRetry /\ "fast" \in PC
  BY SdfsChunkAssumption DEF ClientState, PC, LoadPC
<1> QED
  BY <1>1 DEF ClientState, Moves

LEMMA RecDoneMoved ==
  ASSUME cl \in [Client -> ClientState], NEW c \in Client, RecDone(c)
  PROVE  \/ Finish(c)
         \/ cl[c].op # "recover" /\ Moved(c, "fast", NoInfo, {}, cl[c].intact, cl[c].ok)
<1>1. cl[c] \in ClientState /\ NoInfo \in ChkInfo /\ "fast" \in PC /\ {} \in SUBSET Disk
  BY DEF NoInfo, ChkInfo, PC, LoadPC
<1> QED
  BY <1>1, UpdateMoves, SetMoved DEF RecDone

LEMMA RecFailMoved ==
  ASSUME cl \in [Client -> ClientState], NEW c \in Client, RecFail(c)
  PROVE  \/ Finish(c)
         \/ cl[c].op # "recover" /\ Moved(c, "fast", NoInfo, {}, cl[c].intact, cl[c].ok)
         \/ Moved(c, "rec_lock", NoInfo, {}, cl[c].intact, cl[c].ok)
<1>1. cl[c] \in ClientState /\ NoInfo \in ChkInfo /\ "rec_lock" \in PC /\ {} \in SUBSET Disk
  BY DEF NoInfo, ChkInfo, PC, RecPC
<1> QED
  BY <1>1, UpdateMoves, SetMoved, RecDoneMoved DEF RecFail

-----------------------------------------------------------------------------
(* The effect of each action on its client *)

Keep(c, l)      == Moved(c, l, cl[c].info, cl[c].todo, cl[c].intact, cl[c].ok)
Load(c, l, i)   == Moved(c, l, i, cl[c].todo, cl[c].intact, cl[c].ok)
New(c, l, i, t) == Moved(c, l, i, t, cl[c].intact, cl[c].ok)

LEMMA LocalTypes ==
  ASSUME cl \in [Client -> ClientState], NEW c \in Client
  PROVE  /\ cl[c] \in ClientState
         /\ cl[c].info \in ChkInfo /\ cl[c].todo \in SUBSET Disk
         /\ cl[c].info.clean \in SUBSET Disk /\ cl[c].info.dirty \in SUBSET Disk
         /\ cl[c].intact \in BOOLEAN /\ cl[c].ok \in BOOLEAN
         /\ NoInfo \in ChkInfo
         /\ {"idle", "failed"} \cup LoadPC \cup RecPC \cup IoPC = PC
<1>1. cl[c] \in ClientState /\ NoInfo \in ChkInfo
  BY DEF NoInfo, ChkInfo
<1>2. cl[c].info \in ChkInfo /\ cl[c].todo \in SUBSET Disk /\ cl[c].intact \in BOOLEAN /\ cl[c].ok \in BOOLEAN
  BY <1>1 DEF ClientState
<1> QED
  BY <1>1, <1>2 DEF ChkInfo, PC

LEMMA RetryEffect ==
  ASSUME cl \in [Client -> ClientState], NEW c \in Client, Retry(c)
  PROVE  Finish(c) \/ Keep(c, "fast")
  BY LocalTypes, RetryMoves, SetMoved DEF Retry, Keep

LEMMA LoadEffect ==
  ASSUME cl \in [Client -> ClientState], NEW c \in Client, NEW l \in LoadPC, NEW i \in ChkInfo,
         Set(c, [cl[c] EXCEPT !.info = i, !.pc = l])
  PROVE  Load(c, l, i)
  BY LocalTypes, UpdateMoves, SetMoved DEF Load

LEMMA CreateEffect ==
  ASSUME TypeOK, NEW c \in Client, Create(c)
  PROVE  \/ /\ meta = None
            /\ \E D \in SUBSET Disk : Cardinality(D) = RepNum /\ meta' = [clean |-> D, dirty |-> {}]
            /\ meta' \in ChkInfo
            /\ Load(c, "scan", meta') \/ Goto(c, "fast") \/ Fail(c)
         \/ (Goto(c, "fast") \/ Fail(c)) /\ UNCHANGED meta
<1>1. ASSUME NEW D \in SUBSET Disk, meta' = [clean |-> D, dirty |-> {}] PROVE meta' \in ChkInfo
  BY <1>1 DEF ChkInfo
<1>2. ASSUME meta' \in ChkInfo, Set(c, [cl[c] EXCEPT !.info = meta', !.pc = "scan"])
      PROVE  Load(c, "scan", meta')
  BY <1>2, LoadEffect DEF TypeOK, LoadPC
<1> QED
  BY <1>1, <1>2 DEF Create

Split(lost) == [clean |-> meta.clean \ lost, dirty |-> meta.dirty \cup lost]

LEMMA SlowLoadEffect ==
  ASSUME TypeOK, NEW c \in Client, SlowLoad(c)
  PROVE  \/ Goto(c, "slow_enoent") \/ Goto(c, "slow_err")
         \/ meta # None /\ \E lost \in SUBSET meta.clean :
              meta.clean \ lost # {} /\ Split(lost) \in ChkInfo /\ Load(c, "slow_update", Split(lost))
<1>1. ASSUME meta # None, NEW lost \in SUBSET meta.clean,
             Set(c, [cl[c] EXCEPT !.info = [clean |-> meta.clean \ lost,
                                            dirty |-> meta.dirty \cup lost],
                                  !.pc = "slow_update"])
      PROVE  Split(lost) \in ChkInfo /\ Load(c, "slow_update", Split(lost))
  <2>1. Split(lost) \in ChkInfo
    BY <1>1 DEF Split, ChkInfo, TypeOK
  <2>2. Set(c, [cl[c] EXCEPT !.info = Split(lost), !.pc = "slow_update"])
    BY <1>1 DEF Split
  <2> QED BY <2>1, <2>2, LoadEffect DEF TypeOK, LoadPC
<1> QED
  BY <1>1 DEF SlowLoad

LEMMA ScanEffect ==
  ASSUME cl \in [Client -> ClientState], NEW c \in Client, Scan(c)
  PROVE  \/ Load(c, "rec_lock", NoInfo)
         \/ /\ cl[c].op = "read"
            /\ \E n \in BOOLEAN : Moved(c, "read", cl[c].info, cl[c].info.clean, n, cl[c].ok)
         \/ /\ cl[c].op # "read"
            /\ Moved(c, "wr_lock", cl[c].info, cl[c].info.clean, FALSE, cl[c].ok)
         \/ /\ cl[c].op # "read"
            /\ Moved(c, "writing", cl[c].info, cl[c].info.clean, TRUE, cl[c].ok)
<1>1. {"read", "wr_lock", "writing", "rec_lock"} \subseteq PC
  BY DEF PC, IoPC, RecPC
<1>2. CASE Set(c, [cl[c] EXCEPT !.pc = "rec_lock", !.rtry = 0, !.info = NoInfo])
  BY <1>1, <1>2, LocalTypes, UpdateMoves, SetMoved, ZenonT(40) DEF Load
<1>3. ASSUME NEW l \in {"read", "wr_lock", "writing"},
             Set(c, [cl[c] EXCEPT !.intact = FALSE, !.todo = cl[c].info.clean, !.pc = l])
      PROVE  Moved(c, l, cl[c].info, cl[c].info.clean, FALSE, cl[c].ok)
  BY <1>1, <1>3, LocalTypes, UpdateMoves, SetMoved, ZenonT(40)
<1>4. ASSUME NEW l \in {"read", "wr_lock", "writing"},
             Set(c, [cl[c] EXCEPT !.intact = TRUE, !.todo = cl[c].info.clean, !.pc = l])
      PROVE  Moved(c, l, cl[c].info, cl[c].info.clean, TRUE, cl[c].ok)
  BY <1>1, <1>4, LocalTypes, UpdateMoves, SetMoved, ZenonT(40)
<1>5. CASE Set(c, [cl[c] EXCEPT !.intact = FALSE, !.todo = cl[c].info.clean,
                                !.pc = IF cl[c].op = "read" THEN "read" ELSE "wr_lock"])
  BY <1>3, <1>5
<1>6. CASE Set(c, [cl[c] EXCEPT !.intact = TRUE, !.todo = cl[c].info.clean,
                                !.pc = IF cl[c].op = "read" THEN "read" ELSE "writing"])
  BY <1>4, <1>6
<1> QED
  BY <1>2, <1>5, <1>6 DEF Scan

LEMMA TodoEffect ==
  ASSUME cl \in [Client -> ClientState], NEW c \in Client, NEW d,
         Set(c, [cl[c] EXCEPT !.todo = @ \ {d}])
  PROVE  New(c, cl[c].pc, cl[c].info, cl[c].todo \ {d})
<1> DEFINE t == cl[c].todo \ {d}
<1>1. t \in SUBSET Disk /\ Set(c, [cl[c] EXCEPT !.todo = t])
  BY LocalTypes
<1> HIDE DEF t
<1>2. New(c, cl[c].pc, cl[c].info, t)
  BY <1>1, LocalTypes, UpdateMoves, SetMoved DEF New, ClientState
<1> QED
  BY <1>2 DEF t

LEMMA TodoOkEffect ==
  ASSUME cl \in [Client -> ClientState], NEW c \in Client, NEW d,
         Set(c, [cl[c] EXCEPT !.todo = @ \ {d}, !.ok = FALSE])
  PROVE  Moved(c, cl[c].pc, cl[c].info, cl[c].todo \ {d}, cl[c].intact, FALSE)
<1> DEFINE t == cl[c].todo \ {d}
<1>1. t \in SUBSET Disk /\ Set(c, [cl[c] EXCEPT !.todo = t, !.ok = FALSE])
  BY LocalTypes
<1> HIDE DEF t
<1>2. Moved(c, cl[c].pc, cl[c].info, t, cl[c].intact, FALSE)
  BY <1>1, LocalTypes, UpdateMoves, SetMoved DEF ClientState
<1> QED
  BY <1>2 DEF t

LEMMA RecLoadEffect ==
  ASSUME TypeOK, NEW c \in Client, RecLoad(c)
  PROVE  \/ Goto(c, "rec_err")
         \/ /\ meta # None
            /\ \/ New(c, "rec_pull", meta, {})
               \/ \E off \in SUBSET Disks(meta) : New(c, "rec_newrep", meta, off)
<1>1. ASSUME meta # None, NEW off \in SUBSET Disks(meta), NEW l \in {"rec_pull", "rec_newrep"},
             Set(c, [cl[c] EXCEPT !.info = meta, !.todo = off, !.pc = l])
      PROVE  New(c, l, meta, off)
  <2>1. off \in SUBSET Disk /\ meta \in ChkInfo /\ l \in PC
    BY <1>1 DEF TypeOK, Disks, ChkInfo, PC, RecPC
  <2> QED BY <2>1, <1>1, LocalTypes, UpdateMoves, SetMoved DEF New, TypeOK
<1> QED
  BY <1>1 DEF RecLoad

Replace(i, o, n) == [clean |-> i.clean \ {o}, dirty |-> (i.dirty \ {o}) \cup {n}]

LEMMA RecNewrepEffect ==
  ASSUME cl \in [Client -> ClientState], NEW c \in Client, RecNewrep(c)
  PROVE  \/ Goto(c, "rec_err") /\ rmq' \subseteq rmq \cup cl[c].todo
         \/ \E o \in cl[c].todo : \E n \in Disk \ Disks(cl[c].info) :
              /\ rmq' = rmq \cup {o}
              /\ \E l \in {"rec_pull", "rec_newrep"} :
                   New(c, l, Replace(cl[c].info, o, n), cl[c].todo \ {o})
<1>1. ASSUME NEW o \in cl[c].todo, NEW n \in Disk \ Disks(cl[c].info),
             Set(c, [cl[c] EXCEPT
                       !.info = [clean |-> @.clean \ {o}, dirty |-> (@.dirty \ {o}) \cup {n}],
                       !.todo = @ \ {o},
                       !.pc = IF cl[c].todo = {o} THEN "rec_pull" ELSE "rec_newrep"])
      PROVE  \E l \in {"rec_pull", "rec_newrep"} :
               New(c, l, Replace(cl[c].info, o, n), cl[c].todo \ {o})
  <2> DEFINE i == Replace(cl[c].info, o, n)
             t == cl[c].todo \ {o}
             l == IF cl[c].todo = {o} THEN "rec_pull" ELSE "rec_newrep"
  <2>1. Set(c, [cl[c] EXCEPT !.info = i, !.todo = t, !.pc = l])
    BY <1>1 DEF Replace
  <2>2. i \in ChkInfo
    BY LocalTypes DEF Replace, ChkInfo
  <2>3. t \in SUBSET Disk /\ l \in PC /\ l \in {"rec_pull", "rec_newrep"}
    BY LocalTypes DEF PC, RecPC
  <2> HIDE DEF i, t, l
  <2>4. New(c, l, i, t)
    BY <2>1, <2>2, <2>3, LocalTypes, UpdateMoves, SetMoved DEF New
  <2> QED BY <2>3, <2>4 DEF i, t
<1> QED
  BY <1>1 DEF RecNewrep, NewDisk, RmPush

LEMMA RecPullEffect ==
  ASSUME cl \in [Client -> ClientState], NEW c \in Client, RecPull(c)
  PROVE  Goto(c, "rec_err") \/ New(c, "rec_push", cl[c].info, cl[c].info.dirty)
<1>1. "rec_push" \in PC
  BY DEF PC, RecPC
<1> QED
  BY <1>1, LocalTypes, UpdateMoves, SetMoved DEF RecPull, New

AllClean(i) == [clean |-> Disks(i), dirty |-> {}]

LEMMA RecCheckEffect ==
  ASSUME cl \in [Client -> ClientState], NEW c \in Client, RecCheck(c)
  PROVE  Goto(c, "rec_err") \/ Load(c, "rec_update", AllClean(cl[c].info))
<1> DEFINE i == AllClean(cl[c].info)
<1>1. i \in ChkInfo /\ "rec_update" \in PC
  BY LocalTypes DEF ChkInfo, Disks, PC, RecPC, AllClean
<1>2. Set(c, [cl[c] EXCEPT !.info = i, !.pc = "rec_update"]) \/ Goto(c, "rec_err")
  BY DEF RecCheck, AllClean
<1> HIDE DEF i
<1>3. Load(c, "rec_update", i) \/ Goto(c, "rec_err")
  BY <1>1, <1>2, LocalTypes, UpdateMoves, SetMoved DEF Load
<1> QED
  BY <1>3 DEF i


LEMMA RecPushEffect ==
  ASSUME cl \in [Client -> ClientState], NEW c \in Client, RecPush(c)
  PROVE  \/ cl[c].todo = {} /\ Goto(c, "rec_check") /\ UNCHANGED <<content, rebuilt>>
         \/ Goto(c, "rec_err") /\ UNCHANGED <<content, rebuilt>>
         \/ \E d \in cl[c].todo :
              /\ \E kept \in {content[d], {}} : content' = [content EXCEPT ![d] = kept]
              /\ rebuilt' = rebuilt \cup {d}
              /\ New(c, "rec_push", cl[c].info, cl[c].todo \ {d}) \/ Goto(c, "rec_err")
<1>1. ASSUME NEW d \in cl[c].todo, Set(c, [cl[c] EXCEPT !.todo = @ \ {d}])
      PROVE  New(c, "rec_push", cl[c].info, cl[c].todo \ {d})
  BY <1>1, TodoEffect DEF RecPush, At
<1> QED
  BY <1>1 DEF RecPush
-----------------------------------------------------------------------------
(* Type correctness *)

OpsOK == cl \in [Client -> ClientState] /\ \A c \in Client : OpInv(cl[c], issued)

(* A step of a client that stays in its call, and one that ends it.        *)
LEMMA MovedOps ==
  ASSUME OpsOK, NEW c \in Client, NEW l, NEW i, NEW t, NEW n, NEW o,
         Moved(c, l, i, t, n, o), issued' = issued,
         l \in {"wr_lock", "writing", "wr_unlock", "wr_err"} => cl[c].op = "write",
         l \in LoadPC \cup IoPC \cup {"failed"} => cl[c].op # "recover"
  PROVE  OpsOK'
  BY DEF OpsOK, Moved, Moves, OpInv

LEMMA FinishOps ==
  ASSUME OpsOK, NEW c \in Client, Finish(c), issued' = issued
  PROVE  OpsOK'
<1>1. OpInv(cl'[c], issued')
  BY FinishFacts DEF OpsOK, OpInv, LoadPC, IoPC
<1> QED
  BY <1>1, FinishFacts DEF OpsOK

LEMMA FailOps ==
  ASSUME OpsOK, NEW c \in Client, Fail(c), cl[c].op # "recover", issued' = issued
  PROVE  OpsOK'
  BY FailMoved, MovedOps DEF OpsOK

LEMMA GotoOps ==
  ASSUME OpsOK, NEW c \in Client, NEW l \in PC, Goto(c, l), issued' = issued,
         l \in {"wr_lock", "writing", "wr_unlock", "wr_err"} => cl[c].op = "write",
         l \in LoadPC \cup IoPC \cup {"failed"} => cl[c].op # "recover"
  PROVE  OpsOK'
  BY GotoMoved, MovedOps DEF OpsOK

LEMMA EnoentOps ==
  ASSUME OpsOK, NEW c \in Client, Enoent(c), cl[c].op # "recover", issued' = issued
  PROVE  OpsOK'
<1>1. "create" \in PC
  BY DEF PC, LoadPC
<1> QED
  BY <1>1, GotoOps, FinishOps DEF Enoent

LEMMA RecFailOps ==
  ASSUME OpsOK, NEW c \in Client, RecFail(c) \/ RecDone(c), issued' = issued
  PROVE  OpsOK'
<1>1. CASE Finish(c)
  BY <1>1, FinishOps
<1>2. CASE cl[c].op # "recover" /\ Moved(c, "fast", NoInfo, {}, cl[c].intact, cl[c].ok)
  BY <1>2, MovedOps
<1>3. CASE Moved(c, "rec_lock", NoInfo, {}, cl[c].intact, cl[c].ok)
  BY <1>3, MovedOps DEF LoadPC, IoPC
<1> QED
  BY <1>1, <1>2, <1>3, RecDoneMoved, RecFailMoved DEF OpsOK


LEMMA TypeInit == Init => TypeInv
<1> SUFFICES ASSUME Init PROVE TypeInv
  OBVIOUS
<1>1. TypeOK
  BY IdleTyped, SdfsChunkAssumption DEF Init, TypeOK
<1>2. \A c \in Client : OpInv(cl[c], issued)
  BY IdleTyped DEF Init, OpInv, LoadPC, IoPC
<1> QED
  BY <1>1, <1>2 DEF TypeInv

(* The calls that begin.                                                   *)
LEMMA StartOps ==
  ASSUME TypeInv, NEW c \in Client, StartRead(c) \/ StartWrite(c) \/ StartRecover(c)
  PROVE  OpsOK'
<1>a. OpsOK /\ cl \in [Client -> ClientState] /\ acked \in SUBSET Write
  BY DEF TypeInv, TypeOK, OpsOK
<1>1. CASE StartRead(c) \/ StartRecover(c)
  <2>1. PICK o \in {"read", "recover"} : Set(c, Start(o, None, acked))
    BY <1>1 DEF StartRead, StartRecover
  <2>2. /\ cl' \in [Client -> ClientState]
        /\ cl'[c] = Start(o, None, acked)
        /\ \A x \in Client : x # c => cl'[x] = cl[x]
    BY <2>1, <1>a, StartTyped, SetFacts
  <2>3. issued' = issued
    BY <1>1 DEF StartRead, StartRecover
  <2>4. OpInv(Start(o, None, acked), issued)
    BY DEF Start, OpInv, LoadPC, IoPC
  <2> QED BY <2>2, <2>3, <2>4, <1>a DEF OpsOK
<1>2. CASE StartWrite(c)
  <2>1. PICK w \in Write \ issued : issued' = issued \cup {w} /\ Set(c, Start("write", w, acked))
    BY <1>2 DEF StartWrite
  <2>2. /\ cl' \in [Client -> ClientState]
        /\ cl'[c] = Start("write", w, acked)
        /\ \A x \in Client : x # c => cl'[x] = cl[x]
    BY <2>1, <1>a, StartTyped, SetFacts
  <2>3. OpInv(Start("write", w, acked), issued')
    BY <2>1 DEF Start, OpInv, LoadPC, IoPC
  <2> QED BY <2>1, <2>2, <2>3, <1>a DEF OpsOK, OpInv
<1> QED
  BY <1>1, <1>2

(* A step of one client keeps the types of the clients.                    *)
LEMMA StepOps ==
  ASSUME TypeInv, NEW c \in Client, Step(c)
  PROVE  OpsOK'
<1> USE DEF At
<1>a. OpsOK /\ TypeOK /\ cl \in [Client -> ClientState] /\ OpInv(cl[c], issued)
  BY DEF TypeInv, TypeOK, OpsOK
<1>b. PC = {"idle", "failed"} \cup LoadPC \cup RecPC \cup IoPC
  BY DEF PC
<1>c. issued' = issued
  BY DEF Step, Retry, LoadFast, Create, SlowLock, SlowLoad, SlowUpdate, SlowUnlock, SlowErr,
         Scan, Read, WriteLock, WriteReplica, WriteDone, WriteUnlock, WriteErr, RecLock, RecLoad,
         RecNewrep, RecPull, RecPush, RecCheck, RecUpdate, RecUnlock, Hset, NewDisk, RmPush
<1>d. CASE UNCHANGED cl
  BY <1>a, <1>c, <1>d DEF OpsOK
<1>e. ASSUME NEW l \in RecPC, NEW i, NEW t, New(c, l, i, t) PROVE OpsOK'
  BY <1>a, <1>c, <1>e, MovedOps DEF New, RecPC, LoadPC, IoPC
<1>f. ASSUME NEW l \in RecPC, Goto(c, l) PROVE OpsOK'
  BY <1>a, <1>b, <1>c, <1>f, GotoOps DEF RecPC, LoadPC, IoPC
<1>1. CASE cl[c].pc \in LoadPC \cup {"failed", "read"}
  <2>a. cl[c].op # "recover"
    BY <1>1, <1>a DEF OpInv, IoPC
  <2>b. ASSUME NEW l \in LoadPC, Goto(c, l) PROVE OpsOK'
    BY <2>a, <2>b, <1>a, <1>b, <1>c, GotoOps DEF LoadPC
  <2>c. ASSUME NEW l \in LoadPC, NEW i, Load(c, l, i) PROVE OpsOK'
    BY <2>a, <2>c, <1>a, <1>c, MovedOps DEF Load, LoadPC
  <2>d. CASE Fail(c) \/ Finish(c) \/ Enoent(c)
    BY <2>a, <2>d, <1>a, <1>c, FailOps, FinishOps, EnoentOps
  <2>1. CASE Retry(c) \/ Read(c)
    BY <2>1, <2>c, <2>d, <1>a, RetryEffect DEF Read, Keep, Load, LoadPC
  <2>2. CASE LoadFast(c)
    <3>1. meta # None => meta \in ChkInfo
      BY <1>a DEF TypeOK
    <3>2. ASSUME meta # None, Set(c, [cl[c] EXCEPT !.info = meta, !.pc = "scan"]) PROVE OpsOK'
      BY <3>1, <3>2, <2>c, <1>a, LoadEffect DEF LoadPC
    <3> QED BY <2>2, <2>b, <2>d, <3>2 DEF LoadFast, LoadPC
  <2>3. CASE Create(c)
    BY <2>3, <2>b, <2>c, <2>d, <1>a, CreateEffect DEF LoadPC
  <2>4. CASE SlowLoad(c)
    BY <2>4, <2>b, <2>c, <1>a, SlowLoadEffect DEF LoadPC
  <2>5. CASE SlowLock(c) \/ SlowUpdate(c) \/ SlowUnlock(c) \/ SlowErr(c)
    BY <2>5, <2>b, <2>d, <1>d
    DEF SlowLock, SlowUpdate, SlowUnlock, SlowErr, Klock, Kunlock, LoadPC, Hset
  <2>6. CASE Scan(c)
    <3>1. cl[c].op = "read" \/ cl[c].op = "write"
      BY <2>a, <1>a, LocalTypes DEF ClientState
    <3>2. CASE Load(c, "rec_lock", NoInfo)
      BY <3>2, <1>e DEF Load, New, RecPC
    <3>3. ASSUME NEW l \in IoPC, l # "read" => cl[c].op = "write",
                 NEW n, Moved(c, l, cl[c].info, cl[c].info.clean, n, cl[c].ok)
          PROVE  OpsOK'
      BY <3>3, <2>a, <1>a, <1>c, MovedOps
    <3> QED BY <2>6, <3>1, <3>2, <3>3, <1>a, ScanEffect DEF IoPC
  <2> QED
    BY <1>1, <2>1, <2>2, <2>3, <2>4, <2>5, <2>6
    DEF Step, WriteLock, WriteReplica, WriteDone, WriteUnlock, WriteErr, RecLock, RecLoad,
        RecNewrep, RecPull, RecPush, RecCheck, RecUpdate, RecUnlock, LoadPC, NewDisk, RmPush, Hset
<1>2. CASE cl[c].pc \in {"wr_lock", "writing", "wr_unlock", "wr_err"}
  <2>a. cl[c].op = "write"
    BY <1>2, <1>a DEF OpInv
  <2>b. ASSUME NEW l \in IoPC, Goto(c, l) PROVE OpsOK'
    BY <2>a, <2>b, <1>a, <1>b, <1>c, GotoOps
  <2>c. CASE Fail(c) \/ Finish(c)
    BY <2>a, <2>c, <1>a, <1>c, FailOps, FinishOps
  <2>1. CASE WriteReplica(c)
    <3>1. PICK d \in cl[c].todo : \/ Set(c, [cl[c] EXCEPT !.todo = @ \ {d}])
                                  \/ Set(c, [cl[c] EXCEPT !.todo = @ \ {d}, !.ok = FALSE])
      BY <2>1 DEF WriteReplica
    <3>2. \/ New(c, cl[c].pc, cl[c].info, cl[c].todo \ {d})
          \/ Moved(c, cl[c].pc, cl[c].info, cl[c].todo \ {d}, cl[c].intact, FALSE)
      BY <3>1, <1>a, TodoEffect, TodoOkEffect
    <3> QED BY <3>2, <2>a, <1>a, <1>c, MovedOps DEF New
  <2>2. CASE WriteLock(c) \/ WriteDone(c) \/ WriteUnlock(c) \/ WriteErr(c)
    BY <2>2, <2>b, <2>c, <1>d
    DEF WriteLock, WriteDone, WriteUnlock, WriteErr, Ack, Klock, Kunlock, IoPC
  <2> QED
    BY <1>2, <2>1, <2>2
    DEF Step, Retry, LoadFast, Create, SlowLock, SlowLoad, SlowUpdate, SlowUnlock, SlowErr, Scan,
        Read, RecLock, RecLoad, RecNewrep, RecPull, RecPush, RecCheck, RecUpdate, RecUnlock,
        Hset, NewDisk, RmPush
<1>3. CASE cl[c].pc \in RecPC
  <2>1. CASE RecLock(c) \/ RecUpdate(c) \/ RecUnlock(c)
    <3>1. CASE RecFail(c) \/ RecDone(c)
      BY <3>1, <1>a, <1>c, RecFailOps
    <3> QED BY <2>1, <3>1, <1>d, <1>f DEF RecLock, RecUpdate, RecUnlock, Klock, Kunlock, RecPC, Hset
  <2>2. CASE RecLoad(c)
    BY <2>2, <1>a, <1>e, <1>f, RecLoadEffect DEF RecPC
  <2>3. CASE RecNewrep(c)
    <3>1. CASE Goto(c, "rec_err")
      BY <3>1, <1>f DEF RecPC
    <3>2. ASSUME NEW l \in {"rec_pull", "rec_newrep"}, NEW i, NEW t, New(c, l, i, t) PROVE OpsOK'
      BY <3>2, <1>e DEF RecPC
    <3> QED BY <2>3, <3>1, <3>2, <1>a, RecNewrepEffect
  <2>4. CASE RecPull(c)
    BY <2>4, <1>a, <1>e, <1>f, RecPullEffect DEF RecPC
  <2>5. CASE RecPush(c)
    BY <2>5, <1>a, <1>e, <1>f, RecPushEffect DEF RecPC
  <2>6. CASE RecCheck(c)
    BY <2>6, <1>a, <1>e, <1>f, RecCheckEffect DEF RecPC, Load, New
  <2> QED
    BY <1>3, <2>1, <2>2, <2>3, <2>4, <2>5, <2>6
    DEF Step, Retry, LoadFast, Create, SlowLock, SlowLoad, SlowUpdate, SlowUnlock, SlowErr, Scan,
        Read, WriteLock, WriteReplica, WriteDone, WriteUnlock, WriteErr, RecPC, Hset
<1>4. cl[c].pc # "idle"
  BY DEF Step, Retry, LoadFast, Create, SlowLock, SlowLoad, SlowUpdate, SlowUnlock, SlowErr,
         Scan, Read, WriteLock, WriteReplica, WriteDone, WriteUnlock, WriteErr, RecLock, RecLoad,
         RecNewrep, RecPull, RecPush, RecCheck, RecUpdate, RecUnlock, Hset, NewDisk, RmPush
<1> QED
  BY <1>1, <1>2, <1>3, <1>4, <1>a, <1>b, LocalTypes DEF ClientState, IoPC

(* The actions that change each of the shared variables.                   *)
LEMMA Frames ==
  ASSUME [Next]_vars
  PROVE  /\ \/ UNCHANGED meta
            \/ \E c \in Client : Create(c) \/ SlowUpdate(c) \/ RecUpdate(c)
         /\ \/ UNCHANGED content
            \/ \E c \in Client : WriteReplica(c) \/ RecPush(c)
            \/ \E d \in Disk : Unlink(d)
         /\ UNCHANGED rebuilt \/ \E c \in Client : RecPush(c)
         /\ UNCHANGED acked \/ \E c \in Client : WriteDone(c) \/ WriteUnlock(c)
         /\ \/ UNCHANGED <<rmq, unlinking>>
            \/ \E c \in Client : RecNewrep(c)
            \/ \E d \in Disk : Cleanup(d) \/ Unlink(d)
         /\ \/ UNCHANGED <<issued, calls>>
            \/ \E c \in Client : StartRead(c) \/ StartWrite(c) \/ StartRecover(c)
<1> USE DEF Next, Step, StartRead, StartWrite, StartRecover, Retry, LoadFast, Create, SlowLock, SlowLoad,
            SlowUpdate, SlowUnlock, SlowErr, Scan, Read, WriteLock, WriteReplica, WriteDone,
            WriteUnlock, WriteErr, RecLock, RecLoad, RecNewrep, RecPull, RecPush, RecCheck, RecUpdate,
            RecUnlock, Crash, Cleanup, Unlink, Expire, vars, Hset, NewDisk, RmPush, RmPop
<1>1. UNCHANGED meta \/ \E c \in Client : Create(c) \/ SlowUpdate(c) \/ RecUpdate(c)
  BY ZenonT(40)
<1>2. \/ UNCHANGED content
      \/ \E c \in Client : WriteReplica(c) \/ RecPush(c)
      \/ \E d \in Disk : Unlink(d)
  BY ZenonT(40)
<1>3. UNCHANGED rebuilt \/ \E c \in Client : RecPush(c)
  BY ZenonT(40)
<1>4. UNCHANGED acked \/ \E c \in Client : WriteDone(c) \/ WriteUnlock(c)
  BY ZenonT(40)
<1>5. \/ UNCHANGED <<rmq, unlinking>>
      \/ \E c \in Client : RecNewrep(c)
      \/ \E d \in Disk : Cleanup(d) \/ Unlink(d)
  BY ZenonT(40)
<1>6. \/ UNCHANGED <<issued, calls>>
      \/ \E c \in Client : StartRead(c) \/ StartWrite(c) \/ StartRecover(c)
  BY ZenonT(40)
<1> HIDE DEF Next, Step, StartRead, StartWrite, StartRecover, Retry, LoadFast, Create, SlowLock, SlowLoad,
            SlowUpdate, SlowUnlock, SlowErr, Scan, Read, WriteLock, WriteReplica, WriteDone,
            WriteUnlock, WriteErr, RecLock, RecLoad, RecNewrep, RecPull, RecPush, RecCheck, RecUpdate,
            RecUnlock, Crash, Cleanup, Unlink, Expire, vars, Hset, NewDisk, RmPush, RmPop
<1> QED
  BY <1>1, <1>2, <1>3, <1>4, <1>5, <1>6

LEMMA TypeNext == TypeInv /\ [Next]_vars => TypeInv'
<1> SUFFICES ASSUME TypeInv, [Next]_vars PROVE TypeInv'
  OBVIOUS
<1>a. TypeOK /\ OpsOK
  BY DEF TypeInv, TypeOK, OpsOK
<1>1. OpsOK'
  <2>1. CASE UNCHANGED <<cl, issued>>
    BY <2>1, <1>a DEF OpsOK
  <2>2. ASSUME NEW c \in Client, Crash(c) PROVE OpsOK'
    BY <2>2, <1>a, FinishOps DEF Crash
  <2> QED
    BY <2>1, <2>2, StartOps, StepOps DEF Next, Cleanup, Unlink, Expire, vars, RmPop
<1>2. meta' \in ChkInfo \cup {None}
  <2>1. ASSUME NEW c \in Client, Create(c) PROVE meta' \in ChkInfo \cup {None}
    BY <2>1, <1>a, CreateEffect DEF TypeOK
  <2>2. ASSUME NEW c \in Client, SlowUpdate(c) \/ RecUpdate(c) PROVE meta' \in ChkInfo \cup {None}
    BY <2>2, <1>a, LocalTypes DEF SlowUpdate, RecUpdate, TypeOK, Hset
  <2> QED
    BY <2>1, <2>2, <1>a, Frames DEF TypeOK
<1>3. lock' \in Client \cup {None}
  BY <1>a, ZenonT(40)
  DEF Next, Step, StartRead, StartWrite, StartRecover, Retry, LoadFast, Create, SlowLock, SlowLoad,
      SlowUpdate, SlowUnlock, SlowErr, Scan, Read, WriteLock, WriteReplica, WriteDone, WriteUnlock,
      WriteErr, RecLock, RecLoad, RecNewrep, RecPull, RecPush, RecCheck, RecUpdate, RecUnlock,
      Crash, Cleanup, Unlink, Expire, Klock, Kunlock, TypeOK, vars, Hset, NewDisk, RmPush, RmPop
<1>4. content' \in [Disk -> SUBSET Write]
  <2>1. ASSUME NEW c \in Client, WriteReplica(c) PROVE content' \in [Disk -> SUBSET Write]
    <3>1. cl[c].op = "write" /\ cl[c].w \in Write
      BY <2>1, <1>a DEF OpsOK, OpInv, WriteReplica, At, TypeOK
    <3> QED BY <2>1, <3>1, <1>a, LocalTypes DEF WriteReplica, Written, TypeOK
  <2>2. ASSUME NEW c \in Client, RecPush(c) PROVE content' \in [Disk -> SUBSET Write]
    <3>1. \/ \E d \in cl[c].todo : \E kept \in {content[d], {}} :
                content' = [content EXCEPT ![d] = kept]
          \/ content' = content
      BY <2>2 DEF RecPush
    <3>2. cl[c].todo \subseteq Disk /\ content \in [Disk -> SUBSET Write]
      BY <1>a, LocalTypes DEF TypeOK
    <3> QED BY <3>1, <3>2
  <2>3. ASSUME NEW d \in Disk, Unlink(d) PROVE content' \in [Disk -> SUBSET Write]
    BY <2>3, <1>a DEF Unlink, TypeOK
  <2> QED
    BY <2>1, <2>2, <2>3, <1>a, Frames DEF TypeOK
<1>5. rmq' \subseteq Disk /\ unlinking' \subseteq Disk
  <2>1. ASSUME NEW c \in Client, RecNewrep(c) PROVE rmq' \subseteq Disk /\ unlinking' \subseteq Disk
    BY <2>1, <1>a, LocalTypes DEF RecNewrep, TypeOK, NewDisk, RmPush
  <2> QED
    BY <2>1, <1>a, Frames DEF Cleanup, Unlink, TypeOK, RmPop
<1>6. issued' \subseteq Write /\ calls' \in 0..MaxCall
  BY <1>a, Frames, SdfsChunkAssumption DEF StartRead, StartWrite, StartRecover, TypeOK
<1>7. acked' \subseteq issued'
  <2>1. issued \subseteq issued'
    BY Frames DEF StartRead, StartWrite, StartRecover
  <2>2. ASSUME NEW c \in Client, WriteDone(c) \/ WriteUnlock(c) PROVE acked' \subseteq issued'
    <3>1. cl[c].op = "write" /\ cl[c].w \in issued
      BY <2>2, <1>a DEF OpsOK, OpInv, WriteDone, WriteUnlock, At
    <3>2. acked' \subseteq acked \cup {cl[c].w}
      BY <2>2 DEF WriteDone, WriteUnlock, Ack, Kunlock
    <3> QED BY <3>1, <3>2, <2>1, <1>a DEF TypeOK
  <2> QED
    BY <2>1, <2>2, <1>a, Frames DEF TypeOK
<1>8. rebuilt' \subseteq Disk
  <2>1. ASSUME NEW c \in Client, RecPush(c) PROVE rebuilt' \subseteq Disk
    <3>1. cl \in [Client -> ClientState] /\ rebuilt \subseteq Disk
      BY <1>a DEF TypeOK
    <3>2. cl[c].todo \subseteq Disk
      BY <3>1, LocalTypes
    <3> QED BY <2>1, <3>1, <3>2 DEF RecPush
  <2> QED
    BY <2>1, <1>a, Frames DEF TypeOK
<1> QED
  BY <1>1, <1>2, <1>3, <1>4, <1>5, <1>6, <1>7, <1>8 DEF TypeInv, TypeOK, OpsOK

LEMMA TypeAlways == Spec => []TypeInv
  BY TypeInit, TypeNext, PTL DEF Spec

(* The variables of the clients, the metadata and the removal lists always *)
(* have the types that the code's declarations give them.                  *)
THEOREM TypeCorrect == Spec => []TypeOK
<1>1. TypeInv => TypeOK
  BY DEF TypeInv
<1> QED
  BY <1>1, TypeAlways, PTL

-----------------------------------------------------------------------------
(* The integrity of the chkinfo, with every lock fault *)

Good(i) == Cardinality(Disks(i)) = RepNum /\ i.clean \cap i.dirty = {}

(* What a client carries from a load to an update is as good as what is in *)
(* redis, whoever holds the lock: __md_newrep keeps the number of replicas *)
(* because the disks that it replaces are replicas.                        *)
InfoInv(k) ==
  /\ k.pc \in {"slow_update", "rec_newrep", "rec_pull", "rec_push", "rec_check", "rec_update"} =>
       Good(k.info)
  /\ k.pc \in {"slow_update", "rec_push", "rec_check", "rec_update"} => k.info.clean # {}
  /\ k.pc = "rec_newrep" => k.todo \subseteq Disks(k.info)

RepInv == RepIntegrity /\ \A c \in Client : InfoInv(cl[c])

(* Replacing the disk o of a replica by a disk that has none.              *)
LEMMA ReplaceGood ==
  ASSUME NEW i \in ChkInfo, Good(i), NEW o \in Disks(i), NEW n \in Disk \ Disks(i)
  PROVE  Good(Replace(i, o, n)) /\ Disks(Replace(i, o, n)) = (Disks(i) \ {o}) \cup {n}
<1>1. IsFiniteSet(Disks(i))
  BY SdfsChunkAssumption, FS_Subset DEF Disks, ChkInfo
<1>2. Disks(Replace(i, o, n)) = (Disks(i) \ {o}) \cup {n}
  BY DEF Replace, Disks
<1>3. Cardinality((Disks(i) \ {o}) \cup {n}) = RepNum
  <2>1. /\ IsFiniteSet(Disks(i) \ {o})
        /\ Cardinality(Disks(i) \ {o}) = Cardinality(Disks(i)) - 1
    BY <1>1, FS_RemoveElement
  <2>2. Cardinality((Disks(i) \ {o}) \cup {n}) = Cardinality(Disks(i) \ {o}) + 1
    BY <2>1, FS_AddElement
  <2> QED BY <2>1, <2>2, <1>1, FS_CardinalityType DEF Good
<1>4. Replace(i, o, n).clean \cap Replace(i, o, n).dirty = {}
  BY DEF Replace, Good, Disks
<1> QED
  BY <1>2, <1>3, <1>4 DEF Good

(* The client that moved is at l with chkinfo i.                           *)
LEMMA MovedInfo ==
  ASSUME NEW c \in Client, NEW l, NEW i, NEW t, NEW n, NEW o, Moved(c, l, i, t, n, o),
         \A x \in Client : InfoInv(cl[x]),
         l \in {"slow_update", "rec_newrep", "rec_pull", "rec_push", "rec_check", "rec_update"} => Good(i),
         l \in {"slow_update", "rec_push", "rec_check", "rec_update"} => i.clean # {},
         l = "rec_newrep" => t \subseteq Disks(i)
  PROVE  \A x \in Client : InfoInv(cl[x])'
<1>1. InfoInv(cl'[c])
  BY DEF Moved, Moves, InfoInv
<1> QED
  BY <1>1 DEF Moved

Safe == {"idle", "failed", "fast", "create", "slow_lock", "slow_load", "slow_unlock", "slow_err",
         "slow_enoent", "scan", "rec_lock", "rec_load", "rec_unlock", "rec_err", "read", "wr_lock",
         "writing", "wr_unlock", "wr_err"}

LEMMA GotoInfo ==
  ASSUME cl \in [Client -> ClientState], \A x \in Client : InfoInv(cl[x]), NEW c \in Client,
         \/ Finish(c) \/ Fail(c) \/ Enoent(c) \/ RecDone(c) \/ RecFail(c)
         \/ \E l \in Safe : Goto(c, l)
         \/ \E l \in Safe : \E i, t, n, o : Moved(c, l, i, t, n, o)
         \/ UNCHANGED cl
  PROVE  \A x \in Client : InfoInv(cl[x])'
<1>1. CASE Finish(c)
  BY <1>1, FinishFacts DEF InfoInv
<1>2. ASSUME NEW l \in Safe, NEW i, NEW t, NEW n, NEW o, Moved(c, l, i, t, n, o)
      PROVE  \A x \in Client : InfoInv(cl[x])'
  BY <1>2, MovedInfo DEF Safe
<1>3. CASE Fail(c)
  BY <1>2, <1>3, FailMoved DEF Safe
<1>4. ASSUME NEW l \in Safe, Goto(c, l) PROVE \A x \in Client : InfoInv(cl[x])'
  <2>1. l \in PC
    BY DEF Safe, PC, LoadPC, RecPC, IoPC
  <2> QED BY <1>2, <1>4, <2>1, GotoMoved
<1>5. CASE Enoent(c)
  BY <1>1, <1>4, <1>5 DEF Enoent, Safe
<1>6. CASE RecDone(c) \/ RecFail(c)
  <2>1. \/ Finish(c)
        \/ Moved(c, "fast", NoInfo, {}, cl[c].intact, cl[c].ok)
        \/ Moved(c, "rec_lock", NoInfo, {}, cl[c].intact, cl[c].ok)
    BY <1>6, RecDoneMoved, RecFailMoved
  <2> QED BY <2>1, <1>1, <1>2 DEF Safe
<1>7. CASE UNCHANGED cl
  BY <1>7
<1> QED
  BY <1>1, <1>2, <1>3, <1>4, <1>5, <1>6, <1>7

LEMMA StartInfo ==
  ASSUME TypeInv, NEW c \in Client, StartRead(c) \/ StartWrite(c) \/ StartRecover(c),
         \A x \in Client : InfoInv(cl[x])
  PROVE  \A x \in Client : InfoInv(cl[x])'
<1>1. PICK o \in {"read", "write", "recover"}, w \in Write \cup {None} : Set(c, Start(o, w, acked))
  BY DEF StartRead, StartWrite, StartRecover
<1>2. acked \in SUBSET Write /\ cl \in [Client -> ClientState]
  BY DEF TypeInv, TypeOK
<1>3. cl'[c] = Start(o, w, acked) /\ \A x \in Client : x # c => cl'[x] = cl[x]
  BY <1>1, <1>2, StartTyped, SetFacts
<1>4. InfoInv(Start(o, w, acked))
  BY DEF InfoInv, Start
<1> QED
  BY <1>3, <1>4

LEMMA StepInfo ==
  ASSUME TypeInv, RepInv, NEW c \in Client, Step(c)
  PROVE  \A x \in Client : InfoInv(cl[x])'
<1> USE DEF At
<1>a. TypeOK /\ cl \in [Client -> ClientState] /\ \A x \in Client : InfoInv(cl[x])
  BY DEF TypeInv, TypeOK, RepInv
<1>b. /\ cl[c].info \in ChkInfo /\ InfoInv(cl[c]) /\ (meta # None => meta \in ChkInfo)
      /\ (meta # None => Good(meta) /\ meta.clean # {})
  BY <1>a, LocalTypes DEF RepInv, RepIntegrity, Good, TypeOK
<1>1. ASSUME NEW l \in Safe, Goto(c, l) PROVE \A x \in Client : InfoInv(cl[x])'
  BY <1>1, <1>a, GotoInfo
<1>2. ASSUME NEW l \in Safe, NEW i, NEW t, NEW n, NEW o, Moved(c, l, i, t, n, o)
      PROVE  \A x \in Client : InfoInv(cl[x])'
  BY <1>2, <1>a, GotoInfo
<1>3. CASE Finish(c) \/ Fail(c) \/ Enoent(c) \/ RecDone(c) \/ RecFail(c) \/ UNCHANGED cl
  BY <1>3, <1>a, GotoInfo
<1>4. CASE Retry(c) \/ Read(c)
  BY <1>4, <1>a, <1>2, <1>3, RetryEffect DEF Read, Keep, Safe
<1>5. CASE LoadFast(c)
  <2>1. ASSUME meta # None, Set(c, [cl[c] EXCEPT !.info = meta, !.pc = "scan"])
        PROVE  \A x \in Client : InfoInv(cl[x])'
    <3>1. Load(c, "scan", meta)
      BY <2>1, <1>a, <1>b, LoadEffect DEF LoadPC
    <3> QED BY <3>1, <1>2 DEF Load, Safe
  <2> QED BY <1>5, <1>1, <1>3, <2>1 DEF LoadFast, Safe
<1>6. CASE Create(c)
  <2>1. Load(c, "scan", meta') \/ Goto(c, "fast") \/ Fail(c)
    BY <1>6, <1>a, CreateEffect
  <2>2. CASE Load(c, "scan", meta')
    BY <2>2, <1>2 DEF Load, Safe
  <2> QED BY <2>1, <2>2, <1>1, <1>3 DEF Safe
<1>7. CASE SlowLoad(c)
  <2>1. ASSUME meta # None, NEW lost \in SUBSET meta.clean, meta.clean \ lost # {},
               Load(c, "slow_update", Split(lost))
        PROVE  \A x \in Client : InfoInv(cl[x])'
    <3>1. Disks(Split(lost)) = Disks(meta) /\ Split(lost).clean \cap Split(lost).dirty = {}
      BY <2>1, <1>b DEF Split, Disks, Good
    <3>2. Good(Split(lost)) /\ Split(lost).clean # {}
      BY <2>1, <3>1, <1>b DEF Good, Split
    <3> QED BY <2>1, <3>2, <1>a, MovedInfo DEF Load
  <2> QED BY <1>7, <2>1, <1>1, <1>a, SlowLoadEffect DEF Safe
<1>8. CASE SlowLock(c) \/ SlowUpdate(c) \/ SlowUnlock(c) \/ SlowErr(c)
  BY <1>8, <1>1, <1>3 DEF SlowLock, SlowUpdate, SlowUnlock, SlowErr, Klock, Kunlock, Safe, Hset
<1>9. CASE Scan(c)
  BY <1>9, <1>a, <1>2, ScanEffect DEF Load, Safe
<1>10. CASE WriteReplica(c)
  <2>1. PICK d \in cl[c].todo : \/ Set(c, [cl[c] EXCEPT !.todo = @ \ {d}])
                                \/ Set(c, [cl[c] EXCEPT !.todo = @ \ {d}, !.ok = FALSE])
    BY <1>10 DEF WriteReplica
  <2>2. cl[c].pc = "writing"
    BY <1>10 DEF WriteReplica
  <2>3. \/ Moved(c, "writing", cl[c].info, cl[c].todo \ {d}, cl[c].intact, cl[c].ok)
        \/ Moved(c, "writing", cl[c].info, cl[c].todo \ {d}, cl[c].intact, FALSE)
    BY <2>1, <2>2, <1>a, TodoEffect, TodoOkEffect DEF New
  <2> QED BY <2>3, <1>2 DEF Safe
<1>11. CASE WriteLock(c) \/ WriteDone(c) \/ WriteUnlock(c) \/ WriteErr(c)
  BY <1>11, <1>1, <1>3 DEF WriteLock, WriteDone, WriteUnlock, WriteErr, Ack, Klock, Kunlock, Safe
<1>12. CASE RecLock(c) \/ RecUpdate(c) \/ RecUnlock(c)
  BY <1>12, <1>1, <1>3 DEF RecLock, RecUpdate, RecUnlock, Klock, Kunlock, Safe, Hset
<1>13. CASE RecLoad(c)
  <2>1. ASSUME meta # None, NEW l \in {"rec_pull", "rec_newrep"}, NEW off \in SUBSET Disks(meta),
               New(c, l, meta, off)
        PROVE  \A x \in Client : InfoInv(cl[x])'
    BY <2>1, <1>a, <1>b, MovedInfo DEF New
  <2> QED BY <1>13, <2>1, <1>1, <1>a, RecLoadEffect DEF Safe
<1>14. CASE RecNewrep(c)
  <2>1. Good(cl[c].info) /\ cl[c].todo \subseteq Disks(cl[c].info)
    BY <1>14, <1>b DEF RecNewrep, InfoInv, NewDisk, RmPush
  <2>2. ASSUME NEW o \in cl[c].todo, NEW n \in Disk \ Disks(cl[c].info),
               NEW l \in {"rec_pull", "rec_newrep"},
               New(c, l, Replace(cl[c].info, o, n), cl[c].todo \ {o})
        PROVE  \A x \in Client : InfoInv(cl[x])'
    <3>1. /\ Good(Replace(cl[c].info, o, n))
          /\ Disks(Replace(cl[c].info, o, n)) = (Disks(cl[c].info) \ {o}) \cup {n}
      BY <2>1, <1>b, ReplaceGood
    <3> QED BY <2>1, <2>2, <3>1, <1>a, MovedInfo DEF New
  <2> QED BY <1>14, <2>2, <1>1, <1>a, RecNewrepEffect DEF Safe
<1>15. CASE RecPull(c)
  <2>1. cl[c].info.clean # {} \/ Goto(c, "rec_err")
    BY <1>15 DEF RecPull
  <2>2. Good(cl[c].info)
    BY <1>15, <1>b DEF RecPull, InfoInv
  <2> QED BY <1>15, <2>1, <2>2, <1>1, <1>a, RecPullEffect, MovedInfo DEF New, Safe
<1>16. CASE RecPush(c)
  <2>1. Good(cl[c].info) /\ cl[c].info.clean # {} /\ "rec_check" \in PC
    BY <1>16, <1>b DEF RecPush, InfoInv, PC, RecPC
  <2>2. ASSUME NEW l \in {"rec_push", "rec_check"}, NEW t, New(c, l, cl[c].info, t)
        PROVE  \A x \in Client : InfoInv(cl[x])'
    BY <2>1, <2>2, <1>a, MovedInfo DEF New
  <2>3. CASE Goto(c, "rec_check")
    BY <2>1, <2>2, <2>3, <1>a, GotoMoved DEF New
  <2> QED BY <1>16, <2>2, <2>3, <1>1, <1>a, RecPushEffect DEF Safe
<1>17. CASE RecCheck(c)
  <2>1. Good(AllClean(cl[c].info)) /\ AllClean(cl[c].info).clean # {}
    BY <1>17, <1>b DEF RecCheck, InfoInv, Good, AllClean, Disks
  <2> QED BY <1>17, <2>1, <1>1, <1>a, RecCheckEffect, MovedInfo DEF Load, Safe
<1> QED
  BY <1>4, <1>5, <1>6, <1>7, <1>8, <1>9, <1>10, <1>11, <1>12, <1>13, <1>14, <1>15, <1>16, <1>17
  DEF Step

LEMMA RepNext == TypeInv /\ RepInv /\ [Next]_vars => RepInv'
<1> SUFFICES ASSUME TypeInv, RepInv, [Next]_vars PROVE RepInv'
  OBVIOUS
<1>a. TypeOK /\ cl \in [Client -> ClientState] /\ \A x \in Client : InfoInv(cl[x])
  BY DEF TypeInv, TypeOK, RepInv
<1>1. \A x \in Client : InfoInv(cl[x])'
  <2>1. CASE UNCHANGED cl
    BY <2>1, <1>a
  <2>2. ASSUME NEW c \in Client, Crash(c) PROVE \A x \in Client : InfoInv(cl[x])'
    BY <2>2, <1>a, GotoInfo DEF Crash
  <2> QED
    BY <2>1, <2>2, <1>a, StartInfo, StepInfo DEF Next, Cleanup, Unlink, Expire, vars, RmPop
<1>2. RepIntegrity'
  <2>1. ASSUME NEW c \in Client, Create(c) PROVE RepIntegrity'
    <3>1. CASE UNCHANGED meta
      BY <3>1 DEF RepInv, RepIntegrity
    <3>2. ASSUME NEW D \in SUBSET Disk, Cardinality(D) = RepNum, meta' = [clean |-> D, dirty |-> {}]
          PROVE  RepIntegrity'
      <4>1. Disks(meta') = D /\ meta'.clean = D /\ meta'.dirty = {}
        BY <3>2 DEF Disks
      <4>2. D # {}
        BY <3>2, SdfsChunkAssumption, FS_EmptySet
      <4> QED BY <3>2, <4>1, <4>2 DEF RepIntegrity
    <3> QED BY <2>1, <3>1, <3>2, <1>a, CreateEffect
  <2>2. ASSUME NEW c \in Client, SlowUpdate(c) \/ RecUpdate(c) PROVE RepIntegrity'
    <3>1. Good(cl[c].info) /\ cl[c].info.clean # {}
      BY <2>2, <1>a DEF InfoInv, SlowUpdate, RecUpdate, At, Hset
    <3>2. meta' = meta \/ meta' = cl[c].info
      BY <2>2 DEF SlowUpdate, RecUpdate, Hset
    <3> QED BY <3>1, <3>2 DEF Good, RepIntegrity, RepInv, Disks
  <2>3. CASE UNCHANGED meta
    BY <2>3 DEF RepInv, RepIntegrity
  <2> QED
    BY <2>1, <2>2, <2>3, Frames
<1> QED
  BY <1>1, <1>2 DEF RepInv

LEMMA RepAlways == Spec => []RepInv
<1>1. Init => RepInv
  BY IdleTyped DEF Init, RepInv, RepIntegrity, InfoInv
<1> QED
  BY <1>1, RepNext, TypeAlways, PTL DEF Spec

(* Whatever happens to the lock (leases that are overrun, keys deleted by  *)
(* others, commands sent twice) and however many clients run, the chkinfo  *)
(* in redis lists RepNum different disks, and at least one as clean.       *)
THEOREM RepIntegrityHolds == Spec => []RepIntegrity
<1>1. RepInv => RepIntegrity
  BY DEF RepInv
<1> QED
  BY <1>1, RepAlways, PTL

-----------------------------------------------------------------------------
(* The lock and the data.                                                  *)
LockInv ==
  \A c \in Client : /\ Holds(c) => lock = c
                    /\ cl[c].pc \in {"wr_lock", "wr_unlock", "wr_err"} => cl[c].intact = FALSE

Locked == {"slow_load", "slow_update", "slow_unlock", "slow_err", "slow_enoent", "rec_load",
           "rec_newrep", "rec_pull", "rec_push", "rec_check", "rec_update", "rec_unlock", "rec_err"}

Open == {"idle", "failed", "fast", "create", "slow_lock", "scan", "rec_lock", "read"}

LEMMA HoldsDef ==
  ASSUME NEW c \in Client
  PROVE  /\ cl[c].pc \in Locked => Holds(c)
         /\ cl[c].pc \in Open \cup {"wr_lock"} => ~Holds(c)
         /\ cl[c].pc \in {"wr_unlock", "wr_err"} /\ cl[c].intact = FALSE => Holds(c)
         /\ (cl[c].pc \in Open \cup {"wr_lock"} => ~Holds(c))'
         /\ ((cl[c].intact = TRUE /\ cl[c].pc = "writing") => ~Holds(c))'
  BY DEF Holds, Locked, Open

(* A client that gives the lock back, or that never had it, is at one of   *)
(* the places where it does not hold the lock.                             *)
LEMMA OpenMoves ==
  ASSUME cl \in [Client -> ClientState], NEW c \in Client,
         \/ Finish(c) \/ Fail(c) \/ Enoent(c) \/ RecDone(c) \/ RecFail(c)
         \/ \E l \in Open : Goto(c, l)
         \/ \E l \in Open : \E i, t, n, o : Moved(c, l, i, t, n, o)
  PROVE  cl'[c].pc \in Open /\ \A x \in Client : x # c => cl'[x] = cl[x]
<1>1. ASSUME NEW l \in Open, NEW i, NEW t, NEW n, NEW o, Moved(c, l, i, t, n, o)
      PROVE  cl'[c].pc \in Open /\ \A x \in Client : x # c => cl'[x] = cl[x]
  BY <1>1 DEF Moved, Moves
<1>2. ASSUME NEW l \in Open, Goto(c, l)
      PROVE  cl'[c].pc \in Open /\ \A x \in Client : x # c => cl'[x] = cl[x]
  <2>1. l \in PC
    BY DEF Open, PC, LoadPC, RecPC, IoPC
  <2> QED BY <1>1, <1>2, <2>1, GotoMoved
<1>3. CASE Finish(c)
  BY <1>3, FinishFacts DEF Open
<1>4. CASE Fail(c)
  BY <1>4, <1>1, FailMoved DEF Open
<1>5. CASE Enoent(c)
  BY <1>5, <1>2, <1>3 DEF Enoent, Open
<1>6. CASE RecDone(c) \/ RecFail(c)
  <2>1. \/ Finish(c)
        \/ Moved(c, "fast", NoInfo, {}, cl[c].intact, cl[c].ok)
        \/ Moved(c, "rec_lock", NoInfo, {}, cl[c].intact, cl[c].ok)
    BY <1>6, RecDoneMoved, RecFailMoved
  <2> QED BY <2>1, <1>1, <1>3 DEF Open
<1> QED
  BY <1>1, <1>2, <1>3, <1>4, <1>5, <1>6

(* The three ways in which a step of c keeps LockInv: it does not get the  *)
(* lock, it sets the key, or it has the key deleted.                       *)
LEMMA LockKept ==
  ASSUME LockInv, None \notin Client, NEW c \in Client, \A x \in Client : x # c => cl'[x] = cl[x],
         (cl[c].pc \in {"wr_lock", "wr_unlock", "wr_err"} => cl[c].intact = FALSE)',
         \/ lock' = lock /\ (Holds(c)' => Holds(c))
         \/ lock = None /\ lock' = c
         \/ lock' \in {lock, None} /\ Holds(c) /\ ~Holds(c)'
  PROVE  LockInv'
<1>1. \A x \in Client : x # c => Holds(x)' = Holds(x)
  BY DEF Holds
<1> QED
  BY <1>1 DEF LockInv

LEMMA LockStep ==
  ASSUME Faults = {}, TypeInv, LockInv, NEW c \in Client, Step(c)
  PROVE  LockInv'
<1> USE DEF At
<1>a. TypeOK /\ cl \in [Client -> ClientState] /\ None \notin Client
  BY SdfsChunkAssumption DEF TypeInv, TypeOK
<1>b. cl[c].pc \in {"wr_lock", "wr_unlock", "wr_err"} => cl[c].intact = FALSE
  BY DEF LockInv
(* A release, or a step of a client without the lock.                      *)
<1>1. ASSUME cl'[c].pc \in Open, \A x \in Client : x # c => cl'[x] = cl[x],
             \/ lock' = lock
             \/ lock = None /\ lock' = c
             \/ lock' \in {lock, None} /\ Holds(c)
      PROVE  LockInv'
  BY <1>1, <1>a, HoldsDef, LockKept DEF Open
(* A step to l inside the lock, or that sets the key.                      *)
<1>2. ASSUME NEW l \in Locked, NEW i, NEW t, NEW n, NEW o, Moved(c, l, i, t, n, o),
             \/ lock' = lock /\ Holds(c)
             \/ lock = None /\ lock' = c
      PROVE  LockInv'
  BY <1>2, <1>a, LockKept DEF Moved, Moves, Locked
<1>3. ASSUME NEW l \in Locked, Goto(c, l),
             \/ lock' = lock /\ Holds(c)
             \/ lock = None /\ lock' = c
      PROVE  LockInv'
  <2>1. l \in PC
    BY DEF Locked, PC, LoadPC, RecPC
  <2> QED BY <1>2, <1>3, <2>1, <1>a, GotoMoved
(* The same for the places of a write.                                     *)
<1>4. ASSUME NEW l \in {"writing", "wr_unlock", "wr_err"}, NEW i, NEW t, NEW n, NEW o,
             Moved(c, l, i, t, n, o), l = "writing" \/ n = FALSE,
             \/ lock' = lock /\ (n = FALSE => Holds(c))
             \/ lock = None /\ lock' = c
      PROVE  LockInv'
  <2>1. Holds(c)' => n = FALSE
    BY <1>4 DEF Moved, Moves, Holds
  <2> QED BY <1>4, <2>1, <1>a, LockKept DEF Moved, Moves
<1>5. ASSUME Finish(c) \/ Fail(c) \/ Enoent(c) \/ RecDone(c) \/ RecFail(c),
             \/ lock' = lock
             \/ lock = None /\ lock' = c
             \/ lock' \in {lock, None} /\ Holds(c)
      PROVE  LockInv'
  BY <1>5, <1>1, <1>a, OpenMoves
<1>6. CASE Retry(c) \/ Read(c) \/ LoadFast(c) \/ Create(c)
  <2>1. lock' = lock
    BY <1>6 DEF Retry, Read, LoadFast, Create
  <2>2. ASSUME NEW i \in ChkInfo, Load(c, "scan", i) PROVE LockInv'
    BY <2>1, <2>2, <1>1 DEF Load, Moved, Moves, Open
  <2>3. ASSUME NEW l \in {"fast", "slow_lock"}, Goto(c, l) PROVE LockInv'
    BY <2>1, <2>3, <1>1, <1>a, OpenMoves DEF Open
  <2>4. CASE Retry(c) \/ Read(c)
    <3>1. Keep(c, "fast") => LockInv'
      BY <2>1, <1>1 DEF Keep, Moved, Moves, Open
    <3> QED BY <2>1, <2>4, <3>1, <1>5, <1>a, RetryEffect DEF Read
  <2>5. CASE LoadFast(c)
    <3>1. ASSUME meta # None, Set(c, [cl[c] EXCEPT !.info = meta, !.pc = "scan"]) PROVE LockInv'
      BY <3>1, <2>2, <1>a, LoadEffect DEF TypeOK, LoadPC
    <3> QED BY <2>1, <2>3, <2>5, <3>1, <1>5 DEF LoadFast
  <2>6. CASE Create(c)
    BY <2>1, <2>2, <2>3, <2>6, <1>5, <1>a, CreateEffect
  <2> QED BY <1>6, <2>4, <2>5, <2>6
<1>7. CASE SlowLock(c) \/ RecLock(c)
  BY <1>7, <1>3, <1>5 DEF SlowLock, RecLock, Klock, Locked
<1>8. CASE SlowLoad(c) \/ SlowUpdate(c)
  <2>1. lock' = lock /\ Holds(c)
    BY <1>8, HoldsDef DEF SlowLoad, SlowUpdate, Locked, Hset
  <2>2. ASSUME NEW i, Load(c, "slow_update", i) PROVE LockInv'
    BY <2>1, <2>2, <1>2 DEF Load, Locked
  <2>3. CASE SlowLoad(c)
    BY <2>1, <2>2, <2>3, <1>3, <1>a, SlowLoadEffect DEF Locked
  <2> QED BY <1>8, <2>1, <2>3, <1>3 DEF SlowUpdate, Locked, Hset
<1>9. CASE SlowUnlock(c) \/ SlowErr(c) \/ RecUnlock(c)
  <2>1. lock' \in {lock, None} /\ Holds(c)
    BY <1>9, HoldsDef DEF SlowUnlock, SlowErr, RecUnlock, Kunlock, Locked
  <2>2. CASE Goto(c, "scan")
    BY <2>1, <2>2, <1>1, <1>a, OpenMoves DEF Open
  <2> QED BY <1>9, <2>1, <2>2, <1>5 DEF SlowUnlock, SlowErr, RecUnlock, Kunlock
<1>10. CASE Scan(c)
  <2>1. lock' = lock
    BY <1>10 DEF Scan
  <2>2. CASE Load(c, "rec_lock", NoInfo)
    BY <2>1, <2>2, <1>1 DEF Load, Moved, Moves, Open
  <2>3. ASSUME NEW n, Moved(c, "read", cl[c].info, cl[c].info.clean, n, cl[c].ok) PROVE LockInv'
    BY <2>1, <2>3, <1>1 DEF Moved, Moves, Open
  <2>4. CASE Moved(c, "wr_lock", cl[c].info, cl[c].info.clean, FALSE, cl[c].ok)
    <3>1. ~Holds(c)' /\ cl'[c].intact = FALSE /\ \A x \in Client : x # c => cl'[x] = cl[x]
      BY <2>4, HoldsDef DEF Moved, Moves
    <3> QED BY <2>1, <3>1, <1>a, LockKept
  <2>5. CASE Moved(c, "writing", cl[c].info, cl[c].info.clean, TRUE, cl[c].ok)
    BY <2>1, <2>5, <1>4
  <2> QED BY <1>10, <2>2, <2>3, <2>4, <2>5, <1>a, ScanEffect
<1>11. CASE WriteLock(c)
  <2>1. "writing" \in PC
    BY DEF PC, IoPC
  <2>2. ASSUME Goto(c, "writing"), lock = None, lock' = c PROVE LockInv'
    BY <2>1, <2>2, <1>4, <1>a, GotoMoved
  <2> QED BY <1>11, <2>2, <1>5 DEF WriteLock, Klock
<1>12. CASE WriteReplica(c)
  <2>1. lock' = lock /\ cl[c].pc = "writing"
    BY <1>12 DEF WriteReplica
  <2>2. PICK d \in cl[c].todo : \/ Set(c, [cl[c] EXCEPT !.todo = @ \ {d}])
                                \/ Set(c, [cl[c] EXCEPT !.todo = @ \ {d}, !.ok = FALSE])
    BY <1>12 DEF WriteReplica
  <2>3. \/ Moved(c, "writing", cl[c].info, cl[c].todo \ {d}, cl[c].intact, cl[c].ok)
        \/ Moved(c, "writing", cl[c].info, cl[c].todo \ {d}, cl[c].intact, FALSE)
    BY <2>1, <2>2, <1>a, TodoEffect, TodoOkEffect DEF New
  <2>4. cl[c].intact = FALSE => Holds(c)
    BY <2>1 DEF Holds
  <2> QED BY <2>1, <2>3, <2>4, <1>4
<1>13. CASE WriteDone(c)
  <2>1. lock' = lock /\ cl[c].pc = "writing"
    BY <1>13 DEF WriteDone
  <2>2. {"wr_unlock", "wr_err"} \subseteq PC
    BY DEF PC, IoPC
  <2>3. ASSUME NEW l \in {"wr_unlock", "wr_err"}, Goto(c, l), ~cl[c].intact PROVE LockInv'
    <3>1. cl[c].intact = FALSE /\ Holds(c)
      BY <2>1, <2>3, <1>a, LocalTypes DEF Holds
    <3> QED BY <2>1, <2>2, <2>3, <3>1, <1>4, <1>a, GotoMoved
  <2> QED BY <1>13, <2>1, <2>3, <1>5 DEF WriteDone, Ack
<1>14. CASE WriteUnlock(c) \/ WriteErr(c)
  <2>1. lock' \in {lock, None} /\ Holds(c)
    BY <1>14, <1>b, HoldsDef DEF WriteUnlock, WriteErr, Kunlock
  <2> QED BY <1>14, <2>1, <1>5 DEF WriteUnlock, WriteErr, Kunlock, Ack
<1>15. CASE RecLoad(c) \/ RecNewrep(c) \/ RecPull(c) \/ RecPush(c) \/ RecCheck(c) \/ RecUpdate(c)
  <2>1. lock' = lock /\ Holds(c)
    BY <1>15, HoldsDef DEF RecLoad, RecNewrep, RecPull, RecPush, RecCheck, RecUpdate, Locked,
                           NewDisk, RmPush, Hset
  <2>2. ASSUME NEW l \in Locked, NEW i, NEW t, New(c, l, i, t) PROVE LockInv'
    BY <2>1, <2>2, <1>2 DEF New
  <2>3. ASSUME NEW l \in Locked, Goto(c, l) PROVE LockInv'
    BY <2>1, <2>3, <1>3
  <2>4. CASE RecLoad(c)
    BY <2>2, <2>3, <2>4, <1>a, RecLoadEffect DEF Locked
  <2>5. CASE RecNewrep(c)
    <3>1. ASSUME NEW l \in {"rec_pull", "rec_newrep"}, NEW i, NEW t, New(c, l, i, t) PROVE LockInv'
      BY <3>1, <2>2 DEF Locked
    <3>2. CASE Goto(c, "rec_err")
      BY <3>2, <2>3 DEF Locked
    <3> QED BY <2>5, <3>1, <3>2, <1>a, RecNewrepEffect
  <2>6. CASE RecPull(c)
    BY <2>2, <2>3, <2>6, <1>a, RecPullEffect DEF Locked
  <2>7. CASE RecPush(c)
    BY <2>2, <2>3, <2>7, <1>a, RecPushEffect DEF Locked
  <2>8. CASE RecCheck(c)
    BY <2>2, <2>3, <2>8, <1>a, RecCheckEffect DEF Locked, Load, New
  <2> QED BY <1>15, <2>3, <2>4, <2>5, <2>6, <2>7, <2>8 DEF RecUpdate, Locked, Hset
<1> QED
  BY <1>6, <1>7, <1>8, <1>9, <1>10, <1>11, <1>12, <1>13, <1>14, <1>15 DEF Step

LEMMA LockNext ==
  ASSUME Faults = {}, TypeInv, LockInv, [Next]_vars
  PROVE  LockInv'
<1>a. TypeOK /\ cl \in [Client -> ClientState] /\ None \notin Client /\ acked \in SUBSET Write
  BY SdfsChunkAssumption DEF TypeInv, TypeOK
<1>1. ASSUME NEW c \in Client, StartRead(c) \/ StartWrite(c) \/ StartRecover(c) PROVE LockInv'
  <2>1. PICK o \in {"read", "write", "recover"}, w \in Write \cup {None} : Set(c, Start(o, w, acked))
    BY <1>1 DEF StartRead, StartWrite, StartRecover
  <2>2. cl'[c] = Start(o, w, acked) /\ \A x \in Client : x # c => cl'[x] = cl[x]
    BY <2>1, <1>a, StartTyped, SetFacts
  <2>3. cl'[c].pc \in {"fast", "rec_lock"} /\ lock' = lock
    BY <1>1, <2>2 DEF Start, StartRead, StartWrite, StartRecover
  <2> QED BY <2>2, <2>3, <1>a, HoldsDef, LockKept DEF Open
<1>2. ASSUME NEW c \in Client, Crash(c) PROVE LockInv'
  <2>1. lock' = lock /\ cl'[c].pc \in Open /\ \A x \in Client : x # c => cl'[x] = cl[x]
    BY <1>2, <1>a, OpenMoves DEF Crash
  <2> QED BY <2>1, <1>a, HoldsDef, LockKept DEF Open
<1>3. CASE Expire
  <2>1. \A x \in Client : ~Holds(x)
    BY <1>3 DEF Expire, LockInv
  <2>2. \A x \in Client : Holds(x)' = Holds(x)
    BY <1>3 DEF Expire, Holds
  <2> QED BY <1>3, <2>1, <2>2 DEF Expire, LockInv
<1>4. CASE UNCHANGED <<cl, lock>>
  BY <1>4 DEF LockInv, Holds
<1> QED
  BY <1>1, <1>2, <1>3, <1>4, LockStep DEF Next, Cleanup, Unlink, vars, RmPop

LEMMA LockAlways == Faults = {} => (Spec => []LockInv)
<1> SUFFICES ASSUME Faults = {} PROVE Spec => []LockInv
  OBVIOUS
<1>1. Init => LockInv
  BY IdleTyped DEF Init, LockInv, Holds
<1>2. TypeInv /\ LockInv /\ [Next]_vars => LockInv'
  BY LockNext
<1> QED
  BY <1>1, <1>2, TypeAlways, PTL DEF Spec

(* With leases that are not overrun and redis commands that are not sent   *)
(* twice, klock and kunlock give mutual exclusion between any number of    *)
(* clients, although kunlock never looks at the owner of the key.          *)
THEOREM LockExclusionHolds == Faults = {} => (Spec => []LockExclusion)
<1>1. LockInv => LockExclusion
  BY DEF LockInv, LockExclusion
<1> QED
  BY <1>1, LockAlways, PTL

-----------------------------------------------------------------------------
(* The inductive invariant of the data *)

(* The clean replicas that no recovery has written to, and all disks of    *)
(* the chunk that none has written to.                                     *)
Orig      == meta.clean \ rebuilt
Untouched == Disks(meta) \ rebuilt

Loaded  == {"slow_update", "slow_unlock", "scan", "rec_newrep", "rec_pull", "rec_push", "rec_check",
            "rec_update", "read", "wr_lock", "writing", "wr_unlock"}
Reading == {"slow_unlock", "scan", "read"}
Quiet   == {"idle", "failed", "fast", "create", "slow_lock", "slow_load", "slow_err", "slow_enoent",
            "rec_lock", "rec_load", "rec_unlock", "rec_err", "wr_err"}

(* What a client knows about the metadata while it holds the lock.         *)
HolderInv(c) ==
  /\ At(c, "slow_update") => cl[c].info.clean \subseteq meta.clean /\ Disks(cl[c].info) = Disks(meta)
  /\ cl[c].pc \in {"rec_newrep", "rec_pull", "rec_push", "rec_check"} => cl[c].info.clean \subseteq meta.clean
  /\ At(c, "rec_push") => cl[c].info.dirty \ cl[c].todo \subseteq rebuilt
  /\ At(c, "rec_check") => cl[c].info.dirty \subseteq rebuilt
  /\ At(c, "rec_update") => /\ cl[c].info.clean \subseteq meta.clean \cup rebuilt /\ cl[c].info.dirty = {}
                            /\ cl[c].info.clean \cap meta.clean # {}

(* What remains true of a chkinfo after the lock was given back, or when   *)
(* it was never taken: it may be out of date, but every replica that is    *)
(* still clean and original is among those it lists as clean.              *)
IoInv(c) ==
  /\ cl[c].base \subseteq acked
  /\ cl[c].pc \in Loaded => meta # None
  /\ cl[c].pc \in Reading \cup {"wr_lock", "writing", "wr_unlock"} => Orig \subseteq cl[c].info.clean
  /\ cl[c].pc \in Reading =>
       \A d \in cl[c].info.clean \cap Untouched : cl[c].base \subseteq content[d]
  /\ At(c, "wr_lock") => Orig \subseteq cl[c].todo
  /\ At(c, "writing") /\ cl[c].ok => \A d \in Orig \ cl[c].todo : cl[c].w \in content[d]
  /\ At(c, "wr_unlock") => \A d \in Orig : cl[c].w \in content[d]

SharedInv ==
  /\ OriginalHoldsAcked
  /\ meta = None => acked = {} /\ rmq = {} /\ unlinking = {}
  /\ meta # None => unlinking \cap Untouched = {}

DataInv == SharedInv /\ \A c \in Client : HolderInv(c) /\ IoInv(c)

(* What no step takes back.                                                *)
Grows ==
  /\ rebuilt \subseteq rebuilt' /\ acked \subseteq acked'
  /\ meta # None => /\ meta' # None
                    /\ Orig' \subseteq Orig
                    /\ Untouched' \subseteq Untouched
                    /\ \A d \in Untouched' : content[d] \subseteq content'[d]

LEMMA GrowsNext ==
  ASSUME TypeInv, DataInv, [Next]_vars
  PROVE  Grows
<1> USE DEF At
<1>a. /\ TypeOK /\ cl \in [Client -> ClientState] /\ content \in [Disk -> SUBSET Write]
      /\ (meta # None => meta \in ChkInfo)
  BY DEF TypeInv, TypeOK
<1>1. rebuilt \subseteq rebuilt'
  BY Frames DEF RecPush
<1>2. acked \subseteq acked'
  BY Frames DEF WriteDone, WriteUnlock, Ack, Kunlock
<1>3. ASSUME meta # None PROVE meta' # None /\ Orig' \subseteq Orig /\ Untouched' \subseteq Untouched
  <2>1. CASE meta' = meta
    BY <2>1, <1>1, <1>3 DEF Orig, Untouched
  <2>2. ASSUME NEW c \in Client, SlowUpdate(c) \/ RecUpdate(c), meta' = cl[c].info
        PROVE  meta' # None /\ Orig' \subseteq Orig /\ Untouched' \subseteq Untouched
    <3>1. cl[c].info \in ChkInfo /\ None \notin ChkInfo
      BY <1>a, LocalTypes, SdfsChunkAssumption DEF ChkInfo
    <3>2. /\ cl[c].info.clean \subseteq meta.clean \cup rebuilt
          /\ Disks(cl[c].info) \subseteq Disks(meta) \cup rebuilt
      BY <2>2 DEF SlowUpdate, RecUpdate, DataInv, HolderInv, Disks, Hset
    <3> QED BY <2>2, <3>1, <3>2, <1>1 DEF Orig, Untouched
  <2>3. ASSUME NEW c \in Client, Create(c) PROVE meta' = meta
    BY <2>3, <1>3, <1>a, CreateEffect
  <2> QED
    BY <2>1, <2>2, <2>3, Frames DEF SlowUpdate, RecUpdate, Hset
<1>4. ASSUME meta # None, NEW d \in Untouched' PROVE content[d] \subseteq content'[d]
  <2>1. d \in Untouched /\ d \in Disk /\ d \notin rebuilt'
    BY <1>3, <1>4, <1>a DEF Untouched, Disks, ChkInfo
  <2>2. ASSUME NEW c \in Client, WriteReplica(c) PROVE content[d] \subseteq content'[d]
    BY <2>1, <2>2, <1>a DEF WriteReplica, Written
  <2>3. ASSUME NEW c \in Client, RecPush(c) PROVE content[d] \subseteq content'[d]
    BY <2>1, <2>3, <1>a DEF RecPush
  <2>4. ASSUME NEW e \in Disk, Unlink(e) PROVE content[d] \subseteq content'[d]
    <3>1. d # e
      BY <2>1, <2>4, <1>4 DEF Unlink, DataInv, SharedInv
    <3> QED BY <2>1, <2>4, <3>1, <1>a DEF Unlink
  <2> QED
    BY <2>2, <2>3, <2>4, Frames
<1> QED
  BY <1>1, <1>2, <1>3, <1>4 DEF Grows

(* The metadata does not change under a client that holds the lock.        *)
LEMMA MetaFixed ==
  ASSUME TypeInv, LockInv, [Next]_vars, meta # None, NEW x \in Client, Holds(x), cl'[x] = cl[x]
  PROVE  meta' = meta
<1>a. TypeOK /\ cl \in [Client -> ClientState]
  BY DEF TypeInv, TypeOK
<1>1. ASSUME NEW c \in Client, SlowUpdate(c) \/ RecUpdate(c) PROVE FALSE
  <2>1. Holds(c) /\ cl[c].pc \in {"slow_update", "rec_update"}
    BY <1>1 DEF SlowUpdate, RecUpdate, At, Holds, Hset
  <2>2. c = x
    BY <2>1 DEF LockInv
  <2>3. PICK l \in {"slow_unlock", "slow_err", "rec_unlock", "rec_err"} : Goto(c, l)
    BY <1>1 DEF SlowUpdate, RecUpdate, Hset
  <2>4. l \in PC
    BY DEF PC, LoadPC, RecPC
  <2>5. cl'[c].pc = l
    BY <2>3, <2>4, <1>a, GotoMoved DEF Moved, Moves
  <2> QED BY <2>1, <2>2, <2>5
<1>2. ASSUME NEW c \in Client, Create(c) PROVE meta' = meta
  BY <1>2, <1>a, CreateEffect
<1> QED
  BY <1>1, <1>2, Frames

(* The step of another client, of a disk or of the environment.            *)
LEMMA OthersKept ==
  ASSUME TypeInv, LockInv, DataInv, [Next]_vars, Grows, NEW x \in Client, cl'[x] = cl[x]
  PROVE  HolderInv(x)' /\ IoInv(x)'
<1>1. HolderInv(x) /\ IoInv(x)
  BY DEF DataInv
<1>2. HolderInv(x)'
  <2>1. CASE cl[x].pc \in {"slow_update", "rec_newrep", "rec_pull", "rec_push", "rec_check", "rec_update"}
    <3>1. meta # None /\ Holds(x)
      BY <1>1, <2>1 DEF IoInv, Loaded, Holds
    <3>2. meta' = meta
      BY <3>1, MetaFixed
    <3> QED BY <1>1, <3>2 DEF HolderInv, At, Grows
  <2> QED BY <2>1 DEF HolderInv, At
<1>3. IoInv(x)'
  <2>1. CASE cl[x].pc \in Loaded
    <3>1. meta # None /\ Orig' \subseteq Untouched'
      BY <1>1, <2>1 DEF IoInv, Orig, Untouched, Disks
    <3> QED BY <1>1, <3>1 DEF IoInv, At, Grows
  <2>2. CASE cl[x].pc \notin Loaded
    BY <1>1, <2>2 DEF IoInv, At, Loaded, Reading, Grows
  <2> QED BY <2>1, <2>2
<1> QED
  BY <1>2, <1>3

(* Clients that go where nothing is required of their chkinfo.             *)
LEMMA QuietKept ==
  ASSUME NEW c \in Client, cl'[c].pc \in Quiet, cl'[c].base \subseteq acked'
  PROVE  HolderInv(c)' /\ IoInv(c)'
  BY DEF HolderInv, IoInv, At, Quiet, Loaded, Reading

LEMMA QuietMoves ==
  ASSUME cl \in [Client -> ClientState], Grows, NEW c \in Client, IoInv(c),
         \/ Finish(c) \/ Fail(c) \/ Enoent(c) \/ RecDone(c) \/ RecFail(c)
         \/ \E l \in Quiet : Goto(c, l)
         \/ \E l \in Quiet : \E i, t, n, o : Moved(c, l, i, t, n, o)
  PROVE  HolderInv(c)' /\ IoInv(c)'
<1>1. ASSUME NEW l \in Quiet, NEW i, NEW t, NEW n, NEW o, Moved(c, l, i, t, n, o)
      PROVE  cl'[c].pc \in Quiet /\ cl'[c].base \subseteq acked'
  BY <1>1 DEF Moved, Moves, Grows, IoInv
<1>2. ASSUME NEW l \in Quiet, Goto(c, l) PROVE cl'[c].pc \in Quiet /\ cl'[c].base \subseteq acked'
  <2>1. l \in PC
    BY DEF Quiet, PC, LoadPC, RecPC, IoPC
  <2> QED BY <1>1, <1>2, <2>1, GotoMoved
<1>3. CASE Finish(c)
  <2>1. cl'[c] = Idle
    BY <1>3, IdleTyped, SetFacts DEF Finish
  <2>2. Idle.base = {}
    BY DEF Idle, Start
  <2> QED BY <2>1, <2>2, IdleTyped, QuietKept DEF Quiet
<1>4. CASE Fail(c)
  BY <1>4, <1>1, FailMoved, QuietKept DEF Quiet
<1>5. CASE Enoent(c)
  BY <1>5, <1>2, <1>3, QuietKept DEF Enoent, Quiet
<1>6. CASE RecDone(c) \/ RecFail(c)
  <2>1. \/ Finish(c)
        \/ Moved(c, "fast", NoInfo, {}, cl[c].intact, cl[c].ok)
        \/ Moved(c, "rec_lock", NoInfo, {}, cl[c].intact, cl[c].ok)
    BY <1>6, RecDoneMoved, RecFailMoved
  <2> QED BY <2>1, <1>1, <1>3, QuietKept DEF Quiet
<1> QED
  BY <1>1, <1>2, <1>3, <1>4, <1>5, <1>6, QuietKept

(* The step of the client itself: loading the metadata.                    *)
LEMMA LoadKept ==
  ASSUME TypeInv, DataInv, Grows, NEW c \in Client,
         Retry(c) \/ LoadFast(c) \/ Create(c) \/ SlowLoad(c) \/ SlowUpdate(c)
  PROVE  HolderInv(c)' /\ IoInv(c)'
<1> USE DEF At
<1>a. TypeOK /\ cl \in [Client -> ClientState] /\ HolderInv(c) /\ IoInv(c) /\ OriginalHoldsAcked
  BY DEF TypeInv, TypeOK, DataInv, SharedInv
<1>b. cl[c].base \subseteq acked
  BY <1>a DEF IoInv
<1>c. ASSUME NEW l \in Quiet, Goto(c, l) PROVE HolderInv(c)' /\ IoInv(c)'
  BY <1>c, <1>a, QuietMoves
<1>d. CASE Finish(c) \/ Fail(c) \/ Enoent(c)
  BY <1>d, <1>a, QuietMoves
<1>1. CASE Retry(c)
  BY <1>1, <1>d, <1>a, RetryEffect, QuietMoves DEF Keep, Quiet
(* The chkinfo becomes the one in redis, after the lock is given back or   *)
(* without it.                                                             *)
<1>2. ASSUME NEW l \in Reading, meta' # None, Moved(c, l, meta', cl[c].todo, cl[c].intact, cl[c].ok),
             OriginalHoldsAcked', acked' = acked
      PROVE  HolderInv(c)' /\ IoInv(c)'
  <2>1. cl'[c].pc = l /\ cl'[c].info = meta' /\ cl'[c].base = cl[c].base
    BY <1>2 DEF Moved, Moves
  <2>2. Orig' \subseteq cl'[c].info.clean
    BY <2>1 DEF Orig
  <2>3. \A d \in cl'[c].info.clean \cap Untouched' : cl'[c].base \subseteq content'[d]
    BY <2>1, <1>2, <1>b DEF Untouched, OriginalHoldsAcked
  <2> QED BY <2>1, <2>2, <2>3, <1>b, <1>2 DEF HolderInv, IoInv, Reading
<1>3. CASE LoadFast(c)
  <2>1. UNCHANGED <<meta, content, acked, rebuilt>>
    BY <1>3 DEF LoadFast
  <2>2. OriginalHoldsAcked'
    BY <2>1, <1>a DEF OriginalHoldsAcked
  <2>3. ASSUME meta # None, Set(c, [cl[c] EXCEPT !.info = meta, !.pc = "scan"])
        PROVE  HolderInv(c)' /\ IoInv(c)'
    <3>1. Load(c, "scan", meta)
      BY <2>3, <1>a, LoadEffect DEF TypeOK, LoadPC
    <3> QED BY <3>1, <2>1, <2>2, <2>3, <1>2 DEF Load, Reading
  <2> QED BY <1>3, <2>3, <1>c, <1>d DEF LoadFast, Quiet
<1>4. CASE Create(c)
  <2>1. UNCHANGED <<content, acked, rebuilt>>
    BY <1>4 DEF Create
  <2>2. ASSUME meta = None, meta' \in ChkInfo, Load(c, "scan", meta') PROVE HolderInv(c)' /\ IoInv(c)'
    <3>1. meta' # None
      BY <2>2, SdfsChunkAssumption DEF ChkInfo
    <3>2. OriginalHoldsAcked'
      BY <2>1, <2>2 DEF DataInv, SharedInv, OriginalHoldsAcked
    <3> QED BY <2>1, <2>2, <3>1, <3>2, <1>2 DEF Load, Reading
  <2> QED BY <1>4, <2>2, <1>a, <1>c, <1>d, CreateEffect DEF Quiet
<1>5. CASE SlowLoad(c)
  <2>1. UNCHANGED <<meta, content, acked, rebuilt>>
    BY <1>5 DEF SlowLoad
  <2>2. ASSUME meta # None, NEW lost \in SUBSET meta.clean, Load(c, "slow_update", Split(lost))
        PROVE  HolderInv(c)' /\ IoInv(c)'
    <3>1. cl'[c].pc = "slow_update" /\ cl'[c].info = Split(lost) /\ cl'[c].base = cl[c].base
      BY <2>2 DEF Load, Moved, Moves
    <3>2. Split(lost).clean \subseteq meta.clean /\ Disks(Split(lost)) = Disks(meta)
      BY <2>2 DEF Split, Disks
    <3>3. HolderInv(c)'
      BY <2>1, <3>1, <3>2 DEF HolderInv
    <3>4. IoInv(c)'
      BY <2>1, <2>2, <3>1, <1>b DEF IoInv, Reading
    <3> QED BY <3>3, <3>4
  <2> QED BY <1>5, <2>2, <1>a, <1>c, SlowLoadEffect DEF Quiet
<1>6. CASE SlowUpdate(c)
  <2>1. UNCHANGED <<content, acked, rebuilt>> /\ cl[c].pc = "slow_update"
    BY <1>6 DEF SlowUpdate, Hset
  <2>2. ASSUME meta' = cl[c].info, Goto(c, "slow_unlock") PROVE HolderInv(c)' /\ IoInv(c)'
    <3>1. "slow_unlock" \in PC /\ meta # None
      BY <2>1, <1>a DEF PC, LoadPC, IoInv, Loaded
    <3>2. Moved(c, "slow_unlock", meta', cl[c].todo, cl[c].intact, cl[c].ok)
      BY <2>2, <3>1, <1>a, GotoMoved
    <3>3. OriginalHoldsAcked' /\ meta' # None
      BY <2>1, <3>1, <1>a DEF Grows, Orig, OriginalHoldsAcked
    <3> QED BY <2>1, <3>2, <3>3, <1>2 DEF Reading
  <2> QED BY <1>6, <2>2, <1>c DEF SlowUpdate, Quiet, Hset
<1> QED
  BY <1>1, <1>3, <1>4, <1>5, <1>6

(* From the load to the end of the read or the write.                      *)
LEMMA IoKept ==
  ASSUME Faults = {}, TypeInv, DataInv, Grows, NEW c \in Client,
         \/ SlowLock(c) \/ SlowUnlock(c) \/ SlowErr(c) \/ Scan(c) \/ Read(c)
         \/ WriteLock(c) \/ WriteReplica(c) \/ WriteDone(c) \/ WriteUnlock(c) \/ WriteErr(c)
  PROVE  HolderInv(c)' /\ IoInv(c)'
<1> USE DEF At
<1>a. TypeOK /\ cl \in [Client -> ClientState] /\ HolderInv(c) /\ IoInv(c)
  BY DEF TypeInv, TypeOK, DataInv
<1>b. cl[c].base \subseteq acked
  BY <1>a DEF IoInv
<1>c. ASSUME NEW l \in Quiet, Goto(c, l) PROVE HolderInv(c)' /\ IoInv(c)'
  BY <1>c, <1>a, QuietMoves
<1>d. CASE Finish(c) \/ Fail(c) \/ Enoent(c)
  BY <1>d, <1>a, QuietMoves
<1>1. CASE SlowLock(c) \/ SlowErr(c) \/ Read(c) \/ WriteErr(c) \/ WriteUnlock(c)
  BY <1>1, <1>c, <1>d DEF SlowLock, SlowErr, Read, WriteErr, WriteUnlock, Klock, Kunlock, Ack, Quiet
<1>2. CASE SlowUnlock(c)
  <2>1. UNCHANGED <<meta, content, acked, rebuilt>> /\ cl[c].pc = "slow_unlock"
    BY <1>2 DEF SlowUnlock
  <2>2. CASE Goto(c, "scan")
    <3>1. Moved(c, "scan", cl[c].info, cl[c].todo, cl[c].intact, cl[c].ok)
      BY <2>2, <1>a, GotoMoved DEF PC, LoadPC
    <3> QED
      BY <2>1, <3>1, <1>a
      DEF Moved, Moves, HolderInv, IoInv, Reading, Loaded, Orig, Untouched
  <2> QED BY <1>2, <2>2, <1>d DEF SlowUnlock, Kunlock
<1>3. CASE Scan(c)
  <2>1. UNCHANGED <<meta, content, acked, rebuilt>> /\ cl[c].pc = "scan"
    BY <1>3 DEF Scan
  <2>2. CASE Load(c, "rec_lock", NoInfo)
    BY <2>2, <1>a, QuietMoves DEF Load, Quiet
  <2>3. ASSUME NEW l \in {"read", "wr_lock", "writing"}, NEW n,
               Moved(c, l, cl[c].info, cl[c].info.clean, n, cl[c].ok)
        PROVE  HolderInv(c)' /\ IoInv(c)'
    <3>1. Orig \subseteq cl[c].info.clean /\ meta # None
      BY <2>1, <1>a DEF IoInv, Reading, Loaded
    <3>2. \A d \in cl[c].info.clean \cap Untouched : cl[c].base \subseteq content[d]
      BY <2>1, <1>a DEF IoInv, Reading
    <3> QED
      BY <2>1, <2>3, <3>1, <3>2, <1>b DEF Moved, Moves, HolderInv, IoInv, Reading, Orig, Untouched
  <2> QED BY <1>3, <2>2, <2>3, <1>a, ScanEffect
<1>4. CASE WriteLock(c)
  <2>1. UNCHANGED <<meta, content, acked, rebuilt>> /\ cl[c].pc = "wr_lock"
    BY <1>4 DEF WriteLock
  <2>2. CASE Goto(c, "writing")
    <3>1. Moved(c, "writing", cl[c].info, cl[c].todo, cl[c].intact, cl[c].ok)
      BY <2>2, <1>a, GotoMoved DEF PC, IoPC
    <3> QED
      BY <2>1, <3>1, <1>a DEF Moved, Moves, HolderInv, IoInv, Reading, Loaded, Orig
  <2> QED BY <1>4, <2>2, <1>d DEF WriteLock, Klock
<1>5. CASE WriteReplica(c)
  <2>1. UNCHANGED <<meta, acked, rebuilt>> /\ cl[c].pc = "writing"
    BY <1>5 DEF WriteReplica
  <2>2. PICK d \in cl[c].todo :
          \/ Written(c, d) /\ Set(c, [cl[c] EXCEPT !.todo = @ \ {d}])
          \/ Set(c, [cl[c] EXCEPT !.todo = @ \ {d}, !.ok = FALSE])
    BY <1>5 DEF WriteReplica
  <2>3. /\ meta # None /\ Orig \subseteq cl[c].info.clean /\ Orig' = Orig
        /\ \A e \in Orig : content[e] \subseteq content'[e]
    BY <2>1, <1>a DEF IoInv, Loaded, Grows, Orig, Untouched, Disks
  <2>4. CASE Written(c, d) /\ Set(c, [cl[c] EXCEPT !.todo = @ \ {d}])
    <3>1. Moved(c, "writing", cl[c].info, cl[c].todo \ {d}, cl[c].intact, cl[c].ok)
      BY <2>1, <2>4, <1>a, TodoEffect DEF New
    <3>2. cl[c].w \in content'[d]
      BY <2>4, <1>a, LocalTypes DEF Written, TypeOK
    <3>3. cl[c].ok => \A e \in Orig \ cl[c].todo : cl[c].w \in content[e]
      BY <2>1, <1>a DEF IoInv
    <3>4. cl[c].ok => \A e \in Orig \ (cl[c].todo \ {d}) : cl[c].w \in content'[e]
      BY <3>2, <3>3, <2>3
    <3> QED
      BY <2>1, <2>3, <3>1, <3>4, <1>b DEF Moved, Moves, HolderInv, IoInv, Reading
  <2>5. CASE Set(c, [cl[c] EXCEPT !.todo = @ \ {d}, !.ok = FALSE])
    <3>1. Moved(c, "writing", cl[c].info, cl[c].todo \ {d}, cl[c].intact, FALSE)
      BY <2>1, <2>5, <1>a, TodoOkEffect
    <3> QED
      BY <2>1, <2>3, <3>1, <1>b DEF Moved, Moves, HolderInv, IoInv, Reading
  <2> QED BY <2>2, <2>4, <2>5
<1>6. CASE WriteDone(c)
  <2>1. UNCHANGED <<meta, content, rebuilt>> /\ cl[c].pc = "writing" /\ cl[c].todo = {}
    BY <1>6 DEF WriteDone
  <2>2. ASSUME Goto(c, "wr_unlock"), cl[c].ok, acked' = acked PROVE HolderInv(c)' /\ IoInv(c)'
    <3>1. Moved(c, "wr_unlock", cl[c].info, cl[c].todo, cl[c].intact, cl[c].ok)
      BY <2>2, <1>a, GotoMoved DEF PC, IoPC
    <3> QED
      BY <2>1, <2>2, <3>1, <1>a DEF Moved, Moves, HolderInv, IoInv, Reading, Loaded, Orig
  <2> QED BY <1>6, <2>2, <1>c, <1>d DEF WriteDone, Ack, Quiet
<1> QED
  BY <1>1, <1>2, <1>3, <1>4, <1>5, <1>6

(* The steps of a recovery.                                                *)
LEMMA RecKept ==
  ASSUME Faults = {}, TypeInv, RepInv, DataInv, Grows, NEW c \in Client,
         \/ RecLock(c) \/ RecLoad(c) \/ RecNewrep(c) \/ RecPull(c) \/ RecPush(c)
         \/ RecCheck(c) \/ RecUpdate(c) \/ RecUnlock(c)
  PROVE  HolderInv(c)' /\ IoInv(c)'
<1> USE DEF At
<1>a. TypeOK /\ cl \in [Client -> ClientState] /\ HolderInv(c) /\ IoInv(c)
  BY DEF TypeInv, TypeOK, DataInv
<1>b. cl[c].base \subseteq acked
  BY <1>a DEF IoInv
<1>c. ASSUME NEW l \in Quiet, Goto(c, l) PROVE HolderInv(c)' /\ IoInv(c)'
  BY <1>c, <1>a, QuietMoves
<1>d. CASE RecDone(c) \/ RecFail(c)
  BY <1>d, <1>a, QuietMoves
<1>1. CASE RecLock(c) \/ RecUpdate(c) \/ RecUnlock(c)
  BY <1>1, <1>c, <1>d DEF RecLock, RecUpdate, RecUnlock, Klock, Kunlock, Quiet, Hset
<1>2. ASSUME NEW l \in {"rec_newrep", "rec_pull", "rec_push", "rec_check"}, NEW i, NEW t,
             New(c, l, i, t), meta # None, meta' = meta, acked' = acked, i.clean \subseteq meta.clean,
             l = "rec_push" => i.dirty \ t \subseteq rebuilt',
             l = "rec_check" => i.dirty \subseteq rebuilt'
      PROVE  HolderInv(c)' /\ IoInv(c)'
  BY <1>2, <1>b DEF New, Moved, Moves, HolderInv, IoInv, Reading
<1>3. CASE RecLoad(c)
  <2>1. UNCHANGED <<meta, acked>>
    BY <1>3 DEF RecLoad
  <2>2. ASSUME meta # None, NEW l \in {"rec_newrep", "rec_pull"}, NEW t, New(c, l, meta, t)
        PROVE  HolderInv(c)' /\ IoInv(c)'
    BY <2>1, <2>2, <1>2
  <2> QED BY <1>3, <2>2, <1>a, <1>c, RecLoadEffect DEF Quiet
<1>4. CASE RecNewrep(c)
  <2>1. UNCHANGED <<meta, acked>> /\ meta # None /\ cl[c].info.clean \subseteq meta.clean
    BY <1>4, <1>a DEF RecNewrep, HolderInv, IoInv, Loaded, NewDisk, RmPush
  <2>2. ASSUME NEW o, NEW n, NEW l \in {"rec_pull", "rec_newrep"}, NEW t,
               New(c, l, Replace(cl[c].info, o, n), t)
        PROVE  HolderInv(c)' /\ IoInv(c)'
    <3>1. Replace(cl[c].info, o, n).clean \subseteq meta.clean
      BY <2>1 DEF Replace
    <3> QED BY <2>1, <2>2, <3>1, <1>2
  <2>3. CASE Goto(c, "rec_err")
    BY <2>3, <1>c DEF Quiet
  <2>4. \/ Goto(c, "rec_err")
        \/ \E o, n : \E l \in {"rec_pull", "rec_newrep"} :
             New(c, l, Replace(cl[c].info, o, n), cl[c].todo \ {o})
    BY <1>4, <1>a, RecNewrepEffect
  <2> QED BY <2>2, <2>3, <2>4
<1>5. CASE RecPull(c)
  <2>1. UNCHANGED <<meta, acked>> /\ meta # None /\ cl[c].info.clean \subseteq meta.clean
    BY <1>5, <1>a DEF RecPull, HolderInv, IoInv, Loaded
  <2>2. New(c, "rec_push", cl[c].info, cl[c].info.dirty) => HolderInv(c)' /\ IoInv(c)'
    BY <2>1, <1>2
  <2> QED BY <1>5, <2>2, <1>a, <1>c, RecPullEffect DEF Quiet
<1>6. CASE RecPush(c)
  <2>1. /\ UNCHANGED <<meta, acked>> /\ meta # None /\ cl[c].info.clean \subseteq meta.clean
        /\ cl[c].info.dirty \ cl[c].todo \subseteq rebuilt /\ rebuilt \subseteq rebuilt'
    BY <1>6, <1>a DEF RecPush, HolderInv, IoInv, Loaded, Grows
  <2>2. ASSUME NEW d, rebuilt' = rebuilt \cup {d}, New(c, "rec_push", cl[c].info, cl[c].todo \ {d})
        PROVE  HolderInv(c)' /\ IoInv(c)'
    <3>1. cl[c].info.dirty \ (cl[c].todo \ {d}) \subseteq rebuilt'
      BY <2>1, <2>2
    <3> QED BY <2>1, <2>2, <3>1, <1>2
  <2>3. ASSUME cl[c].todo = {}, Goto(c, "rec_check") PROVE HolderInv(c)' /\ IoInv(c)'
    <3>1. New(c, "rec_check", cl[c].info, cl[c].todo)
      BY <2>3, <1>a, GotoMoved DEF New, PC, RecPC
    <3>2. cl[c].info.dirty \subseteq rebuilt'
      BY <2>1, <2>3
    <3> QED BY <2>1, <3>1, <3>2, <1>2
  <2>4. CASE Goto(c, "rec_err")
    BY <2>4, <1>c DEF Quiet
  <2> QED BY <1>6, <2>2, <2>3, <2>4, <1>a, RecPushEffect
<1>7. CASE RecCheck(c)
  <2>1. /\ UNCHANGED <<meta, acked, rebuilt>> /\ meta # None
        /\ cl[c].info.clean \subseteq meta.clean /\ cl[c].info.dirty \subseteq rebuilt
        /\ cl[c].info.clean # {}
    BY <1>7, <1>a DEF RecCheck, HolderInv, IoInv, Loaded, RepInv, InfoInv
  <2>2. CASE Load(c, "rec_update", AllClean(cl[c].info))
    <3>1. /\ cl'[c].pc = "rec_update" /\ cl'[c].info = AllClean(cl[c].info)
          /\ cl'[c].base = cl[c].base
      BY <2>2 DEF Load, Moved, Moves
    <3>2. AllClean(cl[c].info).clean \subseteq meta.clean \cup rebuilt /\ AllClean(cl[c].info).dirty = {}
          /\ AllClean(cl[c].info).clean \cap meta.clean # {}
      BY <2>1 DEF AllClean, Disks
    <3> QED BY <2>1, <3>1, <3>2, <1>b DEF HolderInv, IoInv, Reading
  <2> QED BY <1>7, <2>2, <1>a, <1>c, RecCheckEffect DEF Quiet
<1> QED
  BY <1>1, <1>3, <1>4, <1>5, <1>6, <1>7

(* Which clients a step leaves alone.                                      *)
LEMMA OneMoves ==
  ASSUME TypeInv, NEW c \in Client, Step(c) \/ Crash(c) \/ StartRead(c) \/ StartWrite(c) \/ StartRecover(c),
         NEW x \in Client, x # c
  PROVE  cl'[x] = cl[x]
<1>a. cl \in [Client -> ClientState]
  BY DEF TypeInv, TypeOK
<1>1. (\E k : Set(c, k)) \/ UNCHANGED cl
  BY DEF Step, StartRead, StartWrite, StartRecover, Retry, LoadFast, Create, SlowLock, SlowLoad,
         SlowUpdate, SlowUnlock, SlowErr, Scan, Read, WriteLock, WriteReplica, WriteDone, WriteUnlock,
         WriteErr, RecLock, RecLoad, RecNewrep, RecPull, RecPush, RecCheck, RecUpdate, RecUnlock,
         Crash, Klock, Kunlock, Goto, Finish, Fail, Enoent, Ack, RecDone, RecFail,
         Hset, NewDisk, RmPush
<1> QED
  BY <1>1, <1>a DEF Set

LEMMA SharedNext ==
  ASSUME TypeInv, DataInv, Grows, [Next]_vars
  PROVE  SharedInv'
<1> USE DEF At
<1>a. TypeOK /\ cl \in [Client -> ClientState] /\ SharedInv /\ \A c \in Client : IoInv(c)
  BY DEF TypeInv, TypeOK, DataInv
(* A write that is acknowledged is in all of them.                         *)
<1>1. ASSUME NEW c \in Client, WriteDone(c) \/ WriteUnlock(c), acked' # acked
      PROVE  /\ meta # None /\ UNCHANGED <<meta, content, rebuilt>>
             /\ acked' = acked \cup {cl[c].w} /\ \A d \in Orig : cl[c].w \in content[d]
  <2>1. meta # None /\ UNCHANGED <<meta, content, rebuilt>>
    BY <1>1, <1>a DEF WriteDone, WriteUnlock, IoInv, Loaded
  <2>2. acked' = acked \cup {cl[c].w}
    BY <1>1 DEF WriteDone, WriteUnlock, Kunlock, Ack
  <2>3. CASE WriteDone(c)
    <3>1. cl[c].ok /\ cl[c].todo = {} /\ cl[c].pc = "writing"
      BY <1>1, <2>3 DEF WriteDone
    <3> QED BY <2>1, <2>2, <3>1, <1>a DEF IoInv
  <2>4. CASE WriteUnlock(c)
    BY <2>1, <2>2, <2>4, <1>a DEF WriteUnlock, IoInv
  <2> QED BY <1>1, <2>3, <2>4
<1>2. CASE meta = None
  <2>1. acked' = {}
    BY <1>1, <1>2, <1>a, Frames DEF SharedInv
  <2>2. \A c \in Client : ~RecNewrep(c)
    BY <1>2, <1>a DEF RecNewrep, IoInv, Loaded, NewDisk, RmPush
  <2>3. rmq' = {} /\ unlinking' = {}
    BY <2>2, <1>2, <1>a, Frames DEF SharedInv, Cleanup, Unlink, RmPop
  <2> QED BY <2>1, <2>3 DEF SharedInv, OriginalHoldsAcked
<1>3. CASE meta # None
  <2>1. meta' # None /\ Orig' \subseteq Orig /\ Untouched' \subseteq Untouched
        /\ \A d \in Orig' : content[d] \subseteq content'[d]
    BY <1>3 DEF Grows, Orig, Untouched, Disks
  <2>2. \A d \in Orig : acked \subseteq content[d]
    BY <1>3, <1>a DEF SharedInv, OriginalHoldsAcked, Orig
  <2>3. \A d \in Orig' : acked' \subseteq content'[d]
    <3>1. CASE acked' = acked
      BY <3>1, <2>1, <2>2
    <3>2. CASE acked' # acked
      <4>1. PICK c \in Client : WriteDone(c) \/ WriteUnlock(c)
        BY <3>2, Frames
      <4>2. /\ acked' = acked \cup {cl[c].w} /\ content' = content
            /\ \A d \in Orig : cl[c].w \in content[d]
        BY <4>1, <3>2, <1>1
      <4> QED BY <4>2, <2>1, <2>2
    <3> QED BY <3>1, <3>2
  <2>4. unlinking' \cap Untouched' = {}
    <3>1. unlinking \cap Untouched = {}
      BY <1>3, <1>a DEF SharedInv
    <3>2. ASSUME NEW d \in Disk, Cleanup(d) PROVE unlinking' \cap Untouched = {}
      BY <3>1, <3>2, <1>3 DEF Cleanup, Untouched, RmPop
    <3>3. unlinking' \cap Untouched = {}
      BY <3>1, <3>2, Frames DEF Unlink, RecNewrep, NewDisk, RmPush
    <3> QED BY <3>3, <2>1
  <2> QED BY <2>1, <2>3, <2>4 DEF SharedInv, OriginalHoldsAcked, Orig
<1> QED
  BY <1>2, <1>3

LEMMA DataNext ==
  ASSUME Faults = {}, TypeInv, RepInv, LockInv, DataInv, [Next]_vars
  PROVE  DataInv'
<1>a. TypeOK /\ cl \in [Client -> ClientState] /\ acked \in SUBSET Write /\ Grows
  BY GrowsNext DEF TypeInv, TypeOK
<1>1. ASSUME NEW x \in Client, cl'[x] = cl[x] PROVE HolderInv(x)' /\ IoInv(x)'
  BY <1>1, <1>a, OthersKept
<1>2. ASSUME NEW c \in Client, Step(c) PROVE HolderInv(c)' /\ IoInv(c)'
  BY <1>2, <1>a, LoadKept, IoKept, RecKept DEF Step
<1>3. ASSUME NEW c \in Client, StartRead(c) \/ StartWrite(c) \/ StartRecover(c)
      PROVE  HolderInv(c)' /\ IoInv(c)'
  <2>1. PICK o \in {"read", "write", "recover"}, w \in Write \cup {None} : Set(c, Start(o, w, acked))
    BY <1>3 DEF StartRead, StartWrite, StartRecover
  <2>2. cl'[c] = Start(o, w, acked)
    BY <2>1, <1>a, StartTyped, SetFacts
  <2>3. cl'[c].pc \in Quiet /\ cl'[c].base = acked
    BY <2>2 DEF Start, Quiet
  <2> QED BY <2>3, <1>a, QuietKept DEF Grows
<1>4. ASSUME NEW c \in Client, Crash(c) PROVE HolderInv(c)' /\ IoInv(c)'
  BY <1>4, <1>a, QuietMoves DEF Crash, DataInv
<1>5. \A x \in Client : HolderInv(x)' /\ IoInv(x)'
  <2>1. CASE UNCHANGED cl
    BY <2>1, <1>1
  <2>2. ASSUME NEW c \in Client, Step(c) \/ Crash(c) \/ StartRead(c) \/ StartWrite(c) \/ StartRecover(c),
               NEW x \in Client
        PROVE  HolderInv(x)' /\ IoInv(x)'
    <3>1. CASE x = c
      BY <2>2, <3>1, <1>2, <1>3, <1>4
    <3>2. CASE x # c
      BY <2>2, <3>2, <1>1, OneMoves
    <3> QED BY <3>1, <3>2
  <2> QED
    BY <2>1, <2>2 DEF Next, Cleanup, Unlink, Expire, vars, RmPop
<1> QED
  BY <1>5, <1>a, SharedNext DEF DataInv

LEMMA DataAlways == Faults = {} => (Spec => []DataInv)
<1> SUFFICES ASSUME Faults = {} PROVE Spec => []DataInv
  OBVIOUS
<1>1. Init => DataInv
  <2> SUFFICES ASSUME Init PROVE DataInv
    OBVIOUS
  <2>1. SharedInv
    BY DEF Init, SharedInv, OriginalHoldsAcked
  <2>2. Idle.base = {}
    BY DEF Idle, Start
  <2>3. \A c \in Client : HolderInv(c) /\ IoInv(c)
    BY <2>2, IdleTyped DEF Init, HolderInv, IoInv, At, Loaded, Reading
  <2> QED BY <2>1, <2>3 DEF DataInv
<1>2. TypeInv /\ RepInv /\ LockInv /\ DataInv /\ [Next]_vars => DataInv'
  BY DataNext
<1> QED
  BY <1>1, <1>2, TypeAlways, RepAlways, LockAlways, PTL DEF Spec

(* No acknowledged write is lost: every replica that redis lists as clean  *)
(* and that no recovery has written to holds all of them.                  *)
THEOREM OriginalHoldsAckedHolds == Faults = {} => (Spec => []OriginalHoldsAcked)
<1>1. DataInv => OriginalHoldsAcked
  BY DEF DataInv, SharedInv
<1> QED
  BY <1>1, DataAlways, PTL

(* A read, however old the chkinfo that it loaded, asks only replicas that *)
(* hold every write acknowledged before it began, or that a recovery has   *)
(* written to or moved away in the meantime.                               *)
THEOREM ReadSeesAckedHolds == Faults = {} => (Spec => []ReadSeesAcked)
<1>1. DataInv => ReadSeesAcked
  BY DEF DataInv, IoInv, ReadSeesAcked, At, Reading, Untouched
<1> QED
  BY <1>1, DataAlways, PTL

(* A DIRTY replica never becomes clean without having been written by a    *)
(* recovery: no chkinfo that is written back as a whole is out of date.    *)
THEOREM NoResurrectionHolds == Faults = {} => (Spec => NoResurrection)
<1>1. TypeInv /\ DataInv /\ [Next]_vars => [meta # None => meta'.clean \ meta.clean \subseteq rebuilt]_vars
  <2> SUFFICES ASSUME TypeInv, DataInv, [Next]_vars, meta # None
               PROVE  meta'.clean \ meta.clean \subseteq rebuilt
    OBVIOUS
  <2>1. ASSUME NEW c \in Client, Create(c) PROVE meta' = meta
    BY <2>1, CreateEffect DEF TypeInv
  <2>2. ASSUME NEW c \in Client, SlowUpdate(c) \/ RecUpdate(c)
        PROVE  meta' = meta \/ meta'.clean \subseteq meta.clean \cup rebuilt
    BY <2>2 DEF SlowUpdate, RecUpdate, At, DataInv, HolderInv, Hset
  <2> QED BY <2>1, <2>2, Frames
<1> QED
  BY <1>1, TypeAlways, DataAlways, PTL DEF Spec, NoResurrection

-----------------------------------------------------------------------------
(* Each whole chkinfo that is written back is a step of ReplicaSet on what *)
(* redis has at that moment.                                               *)
LEMMA SlowUpdateDegrades ==
  ASSUME TypeInv, RepInv, DataInv, NEW c \in Client, SlowUpdate(c)
  PROVE  UNCHANGED meta \/ Chunk!Degrade
<1>1. /\ meta # None /\ cl[c].info.clean \subseteq meta.clean /\ Disks(cl[c].info) = Disks(meta)
      /\ cl[c].info.clean # {} /\ Good(cl[c].info) /\ Good(meta)
  BY DEF SlowUpdate, At, DataInv, HolderInv, IoInv, Loaded, RepInv, InfoInv, RepIntegrity, Good, Hset
<1>2. cl[c].info \in ChkInfo
  BY LocalTypes DEF TypeInv, TypeOK
<1>3. cl[c].info.dirty = meta.dirty \cup (meta.clean \ cl[c].info.clean)
  BY <1>1 DEF Disks, Good
<1>4. cl[c].info = [clean |-> cl[c].info.clean, dirty |-> meta.dirty \cup (meta.clean \ cl[c].info.clean)]
  BY <1>2, <1>3 DEF ChkInfo
<1>5. meta' = meta \/ meta' = cl[c].info
  BY DEF SlowUpdate, Hset
<1> QED
  BY <1>1, <1>4, <1>5 DEF Chunk!Degrade

(* The instance of FiniteSets in ReplicaSet is the one of this module.     *)
LEMMA SameCardinality == ASSUME NEW S PROVE Chunk!Cardinality(S) = Cardinality(S)
  BY DEF Chunk!Cardinality, Cardinality

LEMMA RecUpdateRebuilds ==
  ASSUME TypeInv, RepInv, DataInv, NEW c \in Client, RecUpdate(c)
  PROVE  UNCHANGED meta \/ Chunk!Rebuild
<1>1. /\ meta # None /\ cl[c].info.dirty = {} /\ cl[c].info.clean \cap meta.clean # {}
      /\ Good(cl[c].info)
  BY DEF RecUpdate, At, DataInv, HolderInv, IoInv, Loaded, RepInv, InfoInv, Hset
<1>2. cl[c].info \in ChkInfo
  BY LocalTypes DEF TypeInv, TypeOK
<1>3. cl[c].info = [clean |-> cl[c].info.clean, dirty |-> {}] /\ cl[c].info.clean \in SUBSET Disk
  BY <1>1, <1>2 DEF ChkInfo
<1>4. Disks(cl[c].info) = cl[c].info.clean
  BY <1>1 DEF Disks
<1>5. meta' = meta \/ meta' = cl[c].info
  BY DEF RecUpdate, Hset
<1> QED
  BY <1>1, <1>3, <1>4, <1>5, SameCardinality DEF Chunk!Rebuild, Good

(* With leases that are not overrun and commands that are not sent twice,  *)
(* the metadata of a chunk goes through the atomic steps of ReplicaSet and *)
(* no others: no writer of a whole chkinfo (__md_chunk_load_slow, the      *)
(* recovery) undoes what another one wrote after it had loaded its own.    *)
THEOREM ReplicaSetImplemented == Faults = {} => (Spec => ImplementsReplicaSet)
<1> SUFFICES ASSUME Faults = {} PROVE Spec => Chunk!Spec
  BY DEF ImplementsReplicaSet
<1>1. Init => Chunk!Init
  BY DEF Init, Chunk!Init
<1>2. TypeInv /\ RepInv /\ DataInv /\ [Next]_vars => [Chunk!Next]_meta
  <2> SUFFICES ASSUME TypeInv, RepInv, DataInv, [Next]_vars
               PROVE  UNCHANGED meta \/ Chunk!Next
    OBVIOUS
  <2>1. ASSUME NEW c \in Client, Create(c) PROVE UNCHANGED meta \/ Chunk!Create
    BY <2>1, CreateEffect, SameCardinality DEF TypeInv, Chunk!Create
  <2> QED BY <2>1, SlowUpdateDegrades, RecUpdateRebuilds, Frames DEF Chunk!Next
<1> QED
  BY <1>1, <1>2, TypeAlways, RepAlways, DataAlways, PTL DEF Spec, Chunk!Spec

=============================================================================
