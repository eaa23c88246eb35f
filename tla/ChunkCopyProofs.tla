-------------------------- MODULE ChunkCopyProofs --------------------------
(***************************************************************************)
(* Proofs about the copy loops of a recovery, for every block size, chunk  *)
(* size, set of sources and set of DIRTY replicas.                         *)
(***************************************************************************)
EXTENDS ChunkCopy, FiniteSetTheorems, TLAPS

(* A byte that a recovery may write.                                       *)
Data == Nat \cup {Junk}

CopyType ==
  /\ pc \in {"pull", "pulling", "push", "done", "error"}
  /\ chksize \in 0..MaxChunk
  /\ srclen \in 0..MaxChunk
  /\ missing \in BOOLEAN
  /\ offset \in Nat
  /\ tmp \in [0..TmpSize-1 -> Data]
  /\ tmplen \in Nat
  /\ todo \in SUBSET Dist
  /\ buf \in [0..Block-1 -> Data]
  /\ dst \in [Dist -> [0..MaxChunk-1 -> Data \cup {Old}]]

(* How far the replica d has been written.                                 *)
Extent(d) == IF d \notin todo THEN chksize ELSE IF d = Current THEN offset ELSE 0

(* What a push writes at i: the byte of the local file, and beyond its end *)
(* whatever the last block left in the buffer.                             *)
Pushed(d, i) ==
  IF i < tmplen THEN tmp[i] ELSE IF i < Block THEN Junk ELSE dst[d][i - Block]

Written(d) ==
  \A i \in 0..MaxChunk-1 :
    IF i < Extent(d) THEN dst[d][i] \in Data /\ dst[d][i] = Pushed(d, i) ELSE dst[d][i] = Old

(* The replicas that two pushes have both reached are alike there.         *)
Alike ==
  \A d, e \in Dist : \A i \in 0..MaxChunk-1 :
    i < Extent(d) /\ i < Extent(e) => dst[d][i] = dst[e][i]

(* The buffer holds the block before offset.                               *)
BufInv ==
  /\ offset = 0 => buf = NoBuf
  /\ todo # {} /\ offset > 0 /\ offset < chksize =>
       /\ offset >= Block
       /\ \A j \in 0..Block-1 : buf[j] = dst[Current][offset - Block + j]

PushInv ==
  /\ pc \in {"pull", "pulling"} =>
       todo = Dist /\ buf = NoBuf /\ dst = [d \in Dist |-> [i \in 0..MaxChunk-1 |-> Old]]
  /\ pc \in {"push", "done"} =>
       /\ offset <= chksize
       /\ \A d \in Dist : Written(d)
       /\ Alike /\ BufInv
  /\ pc = "done" => todo = {}

CopyInv == CopyType /\ PushInv

-----------------------------------------------------------------------------
LEMMA Sizes == Block \in Nat \ {0} /\ MaxChunk \in Nat \ {0} /\ TmpSize \in Nat
               /\ TmpSize >= 2 * Block /\ TmpSize >= 2 * MaxChunk
  BY ChunkCopyAssumption DEF TmpSize

LEMMA ChunkSizeBound ==
  ASSUME NEW size \in Nat, NEW idx \in 0..1
  PROVE  GetChunkSize(size, idx) \in 0..MaxChunk
  <1>1. idx * MaxChunk \in Int
    BY Sizes
  <1> QED BY <1>1, Sizes DEF GetChunkSize

LEMMA InitCopyInv == Init => CopyInv
<1> SUFFICES ASSUME Init PROVE CopyInv
  OBVIOUS
<1>1. chksize \in 0..MaxChunk
  <2>1. PICK size \in 0..3*MaxChunk, idx \in 0..1 : chksize = GetChunkSize(size, idx)
    BY DEF Init
  <2>2. size \in Nat
    BY Sizes
  <2> QED BY <2>1, <2>2, ChunkSizeBound
<1>2. CopyType
  BY <1>1, Sizes DEF Init, CopyType, NoTmp, NoBuf, Data, Junk, Old
<1>3. PushInv
  BY DEF Init, PushInv
<1> QED BY <1>2, <1>3 DEF CopyInv

(* A pull leaves the replicas alone and ends with nothing written.         *)
LEMMA PullKeeps ==
  ASSUME CopyInv, pc \in {"pull", "pulling"}, UNCHANGED <<chksize, todo, buf, dst>>,
         offset' = 0 \/ pc' \in {"pull", "pulling"}, pc' # "done", CopyType'
  PROVE  PushInv'
<1>1. CASE pc' # "push"
  BY <1>1 DEF CopyInv, PushInv
<1>2. CASE pc' = "push"
  <2>1. offset' = 0 /\ todo' = Dist /\ buf' = NoBuf
        /\ dst' = [d \in Dist |-> [i \in 0..MaxChunk-1 |-> Old]] /\ chksize' \in 0..MaxChunk
    BY <1>2 DEF CopyInv, PushInv, CopyType
  <2>2. \A d \in Dist : Extent(d)' = 0
    BY <2>1 DEF Extent
  <2>3. \A d \in Dist : Written(d)'
    BY <2>1, <2>2 DEF Written
  <2>4. Alike'
    BY <2>2 DEF Alike
  <2>5. BufInv'
    BY <2>1 DEF BufInv
  <2> QED BY <1>2, <2>1, <2>3, <2>4, <2>5, Sizes DEF PushInv
<1> QED BY <1>1, <1>2

LEMMA WriteFileType ==
  ASSUME CopyType, NEW pos \in Nat, NEW len \in Nat, NEW data \in [0..len-1 -> Data],
         WriteFile(pos, len, data)
  PROVE  tmp' \in [0..TmpSize-1 -> Data] /\ tmplen' \in Nat
<1>1. \A i \in 0..TmpSize-1 :
        (IF i \in pos..(pos + len - 1) THEN data[i - pos] ELSE tmp[i]) \in Data
  BY Sizes DEF CopyType
<1>2. tmp' \in [0..TmpSize-1 -> Data]
  BY <1>1 DEF WriteFile
<1>3. tmplen' \in Nat
  BY DEF WriteFile, CopyType
<1> QED BY <1>2, <1>3

LEMMA NextCopyType == CopyInv /\ [Next]_vars => CopyType'
<1> SUFFICES ASSUME CopyInv, [Next]_vars PROVE CopyType'
  OBVIOUS
<1>0. CopyType
  BY DEF CopyInv
<1>1. CASE PullStart
  BY <1>0, <1>1, Sizes DEF PullStart, CopyType, NoTmp, Data
<1>2. CASE PullNoFile \/ PullEnd \/ PullFail \/ PushFail \/ SyncEnd
  BY <1>0, <1>2 DEF PullNoFile, PullEnd, PullFail, PushFail, SyncEnd, CopyType
<1>3. CASE PullBlock
  <2> DEFINE len  == IF missing THEN chksize ELSE Block
             data == [i \in 0..len-1 |-> IF missing THEN 0 ELSE SrcByte(offset + i)]
  <2>1. len \in Nat
    BY <1>0, Sizes DEF CopyType
  <2>2. data \in [0..len-1 -> Data]
    BY <1>0, <2>1 DEF CopyType, SrcByte, Data
  <2>3. WriteFile(len, len, data)
    BY <1>3 DEF PullBlock
  <2> HIDE DEF len, data
  <2>4. tmp' \in [0..TmpSize-1 -> Data] /\ tmplen' \in Nat
    BY <1>0, <2>1, <2>2, <2>3, WriteFileType
  <2>5. pc' = "push" /\ offset' = 0 /\ UNCHANGED <<chksize, srclen, missing, todo, buf, dst>>
    BY <1>3, Sizes DEF PullBlock
  <2> QED BY <1>0, <2>4, <2>5 DEF CopyType
<1>4. CASE Push
  <2> DEFINE left == chksize - offset
             size == IF Block < left THEN Block ELSE left
             got  == [i \in 0..Block-1 |-> IF i < size /\ offset + i < tmplen
                                           THEN tmp[offset + i] ELSE buf[i]]
  <2>1. left > 0 /\ left \in Nat /\ size \in 1..Block /\ size <= left
    BY <1>0, <1>4, Sizes DEF Push, PushBlock, CopyType
  <2>2. buf' = got /\ offset' = offset + size
        /\ dst' = [dst EXCEPT ![Current] = [i \in 0..MaxChunk-1 |->
             IF i \in offset..(offset + size - 1) THEN got[i - offset] ELSE @[i]]]
        /\ UNCHANGED <<pc, chksize, srclen, tried, missing, tmp, tmplen, todo, fds>>
    BY <1>4 DEF Push, PushBlock
  <2>3. got \in [0..Block-1 -> Data]
    <3>1. ASSUME NEW i \in 0..Block-1, i < size
          PROVE  offset + i \in 0..TmpSize-1
      BY <1>0, <2>1, <3>1, Sizes DEF CopyType
    <3> QED BY <1>0, <2>1, <3>1 DEF CopyType
  <2>4. offset' \in Nat
    BY <1>0, <2>1, <2>2 DEF CopyType
  <2>5. dst' \in [Dist -> [0..MaxChunk-1 -> Data \cup {Old}]]
    <3> HIDE DEF got, size
    <3> SUFFICES ASSUME NEW d \in Dist
                 PROVE  [i \in 0..MaxChunk-1 |-> IF i \in offset..(offset + size - 1)
                           THEN got[i - offset] ELSE dst[d][i]]
                          \in [0..MaxChunk-1 -> Data \cup {Old}]
      BY <1>0, <2>2 DEF CopyType
    <3>1. ASSUME NEW i \in 0..MaxChunk-1
          PROVE  (IF i \in offset..(offset + size - 1) THEN got[i - offset] ELSE dst[d][i])
                   \in Data \cup {Old}
      <4>1. CASE i \in offset..(offset + size - 1)
        <5>1. i - offset \in 0..Block-1
          BY <1>0, <2>1, <4>1, Sizes DEF CopyType
        <5> QED BY <2>3, <4>1, <5>1
      <4> QED BY <1>0, <4>1 DEF CopyType
    <3> QED BY <3>1
  <2> QED BY <1>0, <2>2, <2>3, <2>4, <2>5 DEF CopyType
<1>5. CASE PushEnd
  BY <1>0, <1>5 DEF PushEnd, CopyType, NoBuf, Data
<1>6. CASE UNCHANGED vars
  BY <1>0, <1>6 DEF vars, CopyType
<1> QED BY <1>1, <1>2, <1>3, <1>4, <1>5, <1>6 DEF Next

(* One turn of the push loop: what it writes to the current replica is     *)
(* Pushed, with the buffer standing for the block before.                  *)
LEMMA PushKeeps == CopyInv /\ Push => PushInv'
<1> SUFFICES ASSUME CopyInv, Push PROVE PushInv'
  OBVIOUS
<1> DEFINE left == chksize - offset
           size == IF Block < left THEN Block ELSE left
           got  == [i \in 0..Block-1 |-> IF i < size /\ offset + i < tmplen
                                         THEN tmp[offset + i] ELSE buf[i]]
<1>0. PICK c \in Dist : c = Current /\ c \in todo
  <2>1. Current \in todo /\ todo \subseteq Dist
    BY DEF Push, PushBlock, CopyInv, CopyType
  <2> QED BY <2>1
<1>1. CopyType /\ CopyType' /\ pc = "push" /\ c \in todo /\ c \in Dist /\ left > 0
  BY <1>0, NextCopyType DEF Push, PushBlock, CopyInv, CopyType, Next
<1>2. buf' = got /\ offset' = offset + size
      /\ dst' = [dst EXCEPT ![c] = [i \in 0..MaxChunk-1 |->
           IF i \in offset..(offset + size - 1) THEN got[i - offset] ELSE @[i]]]
      /\ UNCHANGED <<pc, chksize, tmp, tmplen, todo>>
  BY <1>0 DEF Push, PushBlock
<1>3. /\ offset \in Nat /\ chksize \in 0..MaxChunk /\ Block \in Nat \ {0} /\ MaxChunk \in Nat
      /\ size \in 1..Block /\ offset + size <= chksize /\ tmplen \in Nat
      /\ size < Block => offset + size = chksize
  BY <1>1, Sizes DEF CopyType
<1>4. offset <= chksize /\ (\A d \in Dist : Written(d)) /\ Alike /\ BufInv /\ todo # {}
  BY <1>1 DEF CopyInv, PushInv
<1>5. Current' = c
  BY <1>0, <1>2 DEF Current
<1>6. \A d \in Dist : Extent(d)' = IF d = c THEN offset + size ELSE Extent(d)
  BY <1>0, <1>1, <1>2, <1>5 DEF Extent
<1>7. Extent(c) = offset
  BY <1>0, <1>1 DEF Extent
<1>8. \A d \in Dist : d # c => dst'[d] = dst[d]
  BY <1>1, <1>2 DEF CopyType
<1> HIDE DEF size, left, got
<1>9. \A i \in 0..MaxChunk-1 : i < offset => dst'[c][i] = dst[c][i]
  BY <1>1, <1>2, <1>3 DEF CopyType
<1>10. \A i \in 0..MaxChunk-1 : i >= offset + size => dst'[c][i] = dst[c][i]
  BY <1>1, <1>2, <1>3 DEF CopyType
<1>11. \A i \in 0..MaxChunk-1 : i \in offset..(offset + size - 1) => dst'[c][i] = got[i - offset]
  BY <1>1, <1>2, <1>3 DEF CopyType
<1>12. ASSUME NEW i \in 0..MaxChunk-1, i \in offset..(offset + size - 1)
       PROVE  dst'[c][i] = Pushed(c, i)'
  <2>1. i - offset \in 0..Block-1 /\ i - offset < size /\ offset + (i - offset) = i
    BY <1>3, <1>12
  <2>2. dst'[c][i] = IF i < tmplen THEN tmp[i] ELSE buf[i - offset]
    BY <1>11, <1>12, <2>1 DEF got
  <2>3. CASE i < tmplen
    BY <2>2, <2>3, <1>2 DEF Pushed
  <2>4. CASE i >= tmplen /\ offset = 0
    <3>1. buf[i - offset] = Junk /\ i < Block
      BY <1>3, <1>4, <2>1, <2>4 DEF BufInv, NoBuf
    <3> QED BY <1>2, <1>3, <2>2, <2>4, <3>1 DEF Pushed
  <2>5. CASE i >= tmplen /\ offset > 0
    <3>1. offset >= Block /\ buf[i - offset] = dst[c][offset - Block + (i - offset)]
      BY <1>0, <1>3, <1>4, <2>1, <2>5 DEF BufInv
    <3>2. offset - Block + (i - offset) = i - Block /\ i - Block \in 0..MaxChunk-1
          /\ i - Block < offset /\ ~(i < Block) /\ ~(i < tmplen)
      BY <1>3, <2>1, <2>5, <3>1, <1>12
    <3>3. dst'[c][i - Block] = dst[c][i - Block]
      BY <1>9, <3>2
    <3> QED BY <1>2, <2>2, <3>1, <3>2, <3>3 DEF Pushed
  <2> QED BY <1>3, <2>3, <2>4, <2>5
<1>13. \A d \in Dist : Written(d)'
  <2> TAKE d \in Dist
  <2>1. CASE d # c
    <3>1. \A i \in 0..MaxChunk-1 : Pushed(d, i)' = Pushed(d, i)
      BY <1>2, <1>8, <2>1 DEF Pushed
    <3>2. dst'[d] = dst[d] /\ Extent(d)' = Extent(d)
      BY <1>6, <1>8, <2>1
    <3> QED BY <1>4, <3>1, <3>2 DEF Written
  <2>2. CASE d = c
    <3> SUFFICES ASSUME NEW i \in 0..MaxChunk-1
                 PROVE  IF i < offset + size THEN dst'[c][i] \in Data /\ dst'[c][i] = Pushed(c, i)'
                        ELSE dst'[c][i] = Old
      BY <1>1, <1>6, <2>2 DEF Written
    <3>0. IF i < offset THEN dst[c][i] \in Data /\ dst[c][i] = Pushed(c, i) ELSE dst[c][i] = Old
      BY <1>1, <1>4, <1>7 DEF Written
    <3>1. CASE i < offset
      <4>1. ~(i < Block) => i - Block \in 0..MaxChunk-1 /\ i - Block < offset
        BY <1>3, <3>1
      <4>2. Pushed(c, i)' = Pushed(c, i)
        BY <1>2, <1>9, <4>1 DEF Pushed
      <4> QED BY <1>3, <1>9, <3>0, <3>1, <4>2
    <3>2. CASE i \in offset..(offset + size - 1)
      <4>1. i - offset \in 0..Block-1
        BY <1>3, <3>2
      <4>2. dst'[c][i] = got[i - offset] /\ got[i - offset] \in Data
        BY <1>1, <1>2, <1>11, <3>2, <4>1 DEF CopyType
      <4> QED BY <1>3, <1>12, <3>2, <4>2
    <3>3. CASE i >= offset + size
      BY <1>3, <1>10, <3>0, <3>3
    <3> QED BY <1>3, <3>1, <3>2, <3>3
  <2> QED BY <2>1, <2>2
<1>14. ASSUME NEW e \in Dist, e # c, NEW i \in 0..MaxChunk-1,
              i < offset + size, i < Extent(e)
       PROVE  dst'[c][i] = dst'[e][i]
  <2>0. dst[e][i] = Pushed(e, i) /\ dst'[e][i] = dst[e][i]
    BY <1>4, <1>8, <1>14 DEF Written
  <2>1. CASE i < offset
    <3>1. dst[c][i] = dst[e][i]
      BY <1>1, <1>4, <1>7, <1>14, <2>1 DEF Alike
    <3> QED BY <1>9, <2>0, <2>1, <3>1
  <2>2. CASE i >= offset
    <3>1. dst'[c][i] = Pushed(c, i)'
      BY <1>3, <1>12, <1>14, <2>2
    <3>2. CASE i < tmplen \/ i < Block
      BY <1>2, <2>0, <3>1, <3>2 DEF Pushed
    <3>3. CASE i >= tmplen /\ i >= Block
      <4>1. i - Block \in 0..MaxChunk-1 /\ i - Block < offset /\ i - Block < Extent(e)
        <5>1. Extent(e) \in Nat
          BY <1>1, <1>3 DEF Extent
        <5> QED BY <1>3, <1>14, <2>2, <3>3, <5>1
      <4>2. dst[c][i - Block] = dst[e][i - Block] /\ dst'[c][i - Block] = dst[c][i - Block]
        BY <1>1, <1>4, <1>7, <1>9, <1>14, <4>1 DEF Alike
      <4> QED BY <1>2, <1>3, <2>0, <3>1, <3>3, <4>2 DEF Pushed
    <3> QED BY <1>3, <3>2, <3>3
  <2> QED BY <1>3, <2>1, <2>2
<1>15. Alike'
  <2> SUFFICES ASSUME NEW d \in Dist, NEW e \in Dist, NEW i \in 0..MaxChunk-1,
                      i < Extent(d)', i < Extent(e)'
               PROVE  dst'[d][i] = dst'[e][i]
    BY DEF Alike
  <2>1. CASE d # c /\ e # c
    BY <1>4, <1>6, <1>8, <2>1 DEF Alike
  <2>2. CASE d = c /\ e # c
    BY <1>6, <1>14, <2>2
  <2>3. CASE d # c /\ e = c
    BY <1>6, <1>14, <2>3
  <2> QED BY <2>1, <2>2, <2>3
<1>16. BufInv'
  <2>1. offset' # 0
    BY <1>2, <1>3
  <2>2. ASSUME offset' < chksize', NEW j \in 0..Block-1
        PROVE  offset' >= Block /\ buf'[j] = dst'[c][offset' - Block + j]
    <3>1. size = Block /\ offset' = offset + Block
      BY <1>2, <1>3, <2>2
    <3>2. offset + j \in offset..(offset + size - 1) /\ offset + j \in 0..MaxChunk-1
          /\ offset' - Block + j = offset + j /\ (offset + j) - offset = j
      BY <1>2, <1>3, <2>2, <3>1
    <3>3. dst'[c][offset + j] = got[j]
      BY <1>11, <3>2
    <3> QED BY <1>2, <1>3, <3>1, <3>2, <3>3
  <2>3. 0 \in 0..Block-1
    BY <1>3
  <2> QED BY <1>5, <2>1, <2>2, <2>3 DEF BufInv
<1> QED BY <1>1, <1>2, <1>3, <1>13, <1>15, <1>16 DEF PushInv

LEMMA NextPushInv == CopyInv /\ [Next]_vars => PushInv'
<1> SUFFICES ASSUME CopyInv, [Next]_vars PROVE PushInv'
  OBVIOUS
<1>0. CopyType /\ CopyType' /\ PushInv
  BY NextCopyType DEF CopyInv
<1>1. CASE PullStart \/ PullNoFile \/ PullBlock \/ PullEnd
  <2>1. pc \in {"pull", "pulling"} /\ UNCHANGED <<chksize, todo, buf, dst>> /\ pc' # "done"
        /\ (offset' = 0 \/ pc' \in {"pull", "pulling"})
    BY <1>1, Sizes DEF PullStart, PullNoFile, PullBlock, PullEnd
  <2> QED BY <1>0, <2>1, PullKeeps
<1>2. CASE PullFail
  BY <1>0, <1>2 DEF PullFail, PushInv
<1>3. CASE Push
  BY <1>3, PushKeeps
<1>4. CASE PushEnd
  <2>1. pc = "push" /\ pc' = "push" /\ todo # {} /\ offset = chksize /\ offset' = 0
        /\ todo' = todo \ {Current} /\ buf' = NoBuf
        /\ UNCHANGED <<chksize, tmp, tmplen, dst>>
    BY <1>4 DEF PushEnd
  <2>2. \A d \in Dist : Extent(d)' = Extent(d)
    BY <2>1 DEF Extent
  <2>3. \A d \in Dist : Written(d) /\ Alike
    BY <1>0, <2>1 DEF PushInv
  <2>4. \A d \in Dist : \A i \in 0..MaxChunk-1 : Pushed(d, i)' = Pushed(d, i)
    BY <2>1 DEF Pushed
  <2>5. \A d \in Dist : Written(d)'
    BY <2>1, <2>2, <2>3, <2>4 DEF Written
  <2>6. Alike'
    <3>1. CASE Dist = {}
      BY <3>1 DEF Alike
    <3>2. CASE Dist # {}
      BY <2>1, <2>2, <2>3, <3>2 DEF Alike
    <3> QED BY <3>1, <3>2
  <2>7. BufInv'
    BY <2>1 DEF BufInv
  <2> QED BY <1>0, <2>1, <2>5, <2>6, <2>7 DEF PushInv, CopyType
<1>5. CASE PushFail
  BY <1>0, <1>5 DEF PushFail, PushInv
<1>6. CASE SyncEnd \/ UNCHANGED vars
  <2>1. /\ UNCHANGED <<chksize, offset, tmp, tmplen, todo, buf, dst>>
        /\ pc' = pc \/ (pc = "push" /\ todo = {} /\ pc' = "done")
    BY <1>6 DEF SyncEnd, vars
  <2>2. Current' = Current
    BY <2>1 DEF Current
  <2>3. \A d \in Dist : Extent(d)' = Extent(d) /\ \A i \in 0..MaxChunk-1 : Pushed(d, i)' = Pushed(d, i)
    BY <2>1, <2>2 DEF Extent, Pushed
  <2>4. (\A d \in Dist : Written(d)) => (\A d \in Dist : Written(d)')
    BY <2>1, <2>3 DEF Written
  <2>5. Alike => Alike'
    BY <2>1, <2>3 DEF Alike
  <2>6. BufInv => BufInv'
    BY <2>1, <2>2 DEF BufInv
  <2> QED BY <1>0, <2>1, <2>4, <2>5, <2>6 DEF PushInv
<1> QED BY <1>1, <1>2, <1>3, <1>4, <1>5, <1>6 DEF Next

LEMMA CopyInvAlways == Spec => []CopyInv
<1>1. CopyInv /\ [Next]_vars => CopyInv'
  BY NextCopyType, NextPushInv DEF CopyInv
<1> QED BY InitCopyInv, <1>1, PTL DEF Spec

(* A recovery that succeeds has written every DIRTY replica from 0 to      *)
(* chksize and not beyond, and all of them alike, whatever the block size, *)
(* the sizes of file and chunk, and the blocks a short pread leaves as     *)
(* they were in the buffer.                                                *)
THEOREM PushedAlikeHolds == Spec => []PushedAlike
<1>1. CopyInv => PushedAlike
  <2> SUFFICES ASSUME CopyInv, pc = "done", NEW d \in Dist, NEW e \in Dist,
                      NEW i \in 0..MaxChunk-1
               PROVE  dst[d][i] = dst[e][i] /\ (dst[d][i] = Old <=> i >= chksize)
    BY DEF PushedAlike
  <2>1. CopyType /\ todo = {} /\ Written(d) /\ Written(e) /\ Alike
    BY DEF CopyInv, PushInv
  <2>2. Extent(d) = chksize /\ Extent(e) = chksize
    BY <2>1 DEF Extent
  <2>3. i \in Nat /\ chksize \in Nat
    BY <2>1, Sizes DEF CopyType
  <2>4. CASE i < chksize
    <3>1. dst[d][i] = dst[e][i]
      BY <2>1, <2>2, <2>4 DEF Alike
    <3>3. dst[d][i] \in Data
      BY <2>1, <2>2, <2>4 DEF Written
    <3>4. Old \notin Data
      BY DEF Old, Data, Junk
    <3> QED BY <2>3, <2>4, <3>1, <3>3, <3>4
  <2>5. CASE i >= chksize
    BY <2>1, <2>2, <2>3, <2>5 DEF Written
  <2> QED BY <2>3, <2>4, <2>5
<1> QED BY <1>1, CopyInvAlways, PTL

-----------------------------------------------------------------------------
(* Every file that is open was opened by a pull of its own source.         *)
FilesInv ==
  /\ IsFiniteSet(tried) /\ fds \in Int
  /\ fds <= Cardinality(tried)
  /\ pc = "done" => fds <= Cardinality(tried) - 1

(* A recovery that succeeds has no more files open than pulls that failed. *)
THEOREM FilesLeftHolds == Spec => []FilesLeft
<1>1. Init => FilesInv
  BY FS_EmptySet DEF Init, FilesInv
<1>2. FilesInv /\ [Next]_vars => FilesInv'
  <2> SUFFICES ASSUME FilesInv, [Next]_vars PROVE FilesInv'
    OBVIOUS
  <2>0. Cardinality(tried) \in Nat
    BY FS_CardinalityType DEF FilesInv
  <2>1. CASE PullStart \/ PullNoFile
    <3>1. PICK s \in Src \ tried : tried' = tried \cup {s}
      BY <2>1 DEF PullStart, PullNoFile
    <3>2. IsFiniteSet(tried') /\ Cardinality(tried') = Cardinality(tried) + 1
      BY <3>1, FS_AddElement DEF FilesInv
    <3>3. pc' # "done" /\ fds' \in {fds, fds + 1}
      BY <2>1 DEF PullStart, PullNoFile
    <3> QED BY <2>0, <3>2, <3>3 DEF FilesInv
  <2>2. CASE PullBlock \/ PullEnd \/ PullFail \/ Push \/ PushEnd
    <3>1. UNCHANGED <<tried, fds>> /\ pc' # "done"
      BY <2>2, Sizes DEF PullBlock, PullEnd, PullFail, Push, PushBlock, PushEnd
    <3> QED BY <3>1 DEF FilesInv
  <2>3. CASE PushFail \/ SyncEnd
    <3>1. tried' = tried /\ fds' = fds - 1
      BY <2>3 DEF PushFail, SyncEnd
    <3> QED BY <2>0, <3>1 DEF FilesInv
  <2>4. CASE UNCHANGED vars
    BY <2>4 DEF vars, FilesInv
  <2> QED BY <2>1, <2>2, <2>3, <2>4 DEF Next
<1>3. FilesInv => FilesLeft
  BY DEF FilesInv, FilesLeft
<1> QED BY <1>1, <1>2, <1>3, PTL DEF Spec

=============================================================================
