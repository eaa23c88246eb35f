----------------------------- MODULE ChunkCopy -----------------------------
(***************************************************************************)
(* The copy inside the recovery of a replicated chunk: __sdfs_chunk_sync   *)
(* of sdfs/sdfs_chunk_recovery.c pulls one clean replica into a local file *)
(* (__sdfs_chunk_pull) and pushes that file to every DIRTY replica         *)
(* (__sdfs_chunk_push), block by block.  Bytes are counted in units of any *)
(* size; all clean replicas hold the same file.                            *)
(***************************************************************************)
EXTENDS Integers, FiniteSets

CONSTANTS
  Src,        \* src: the clean replicas
  Dist,       \* dist: the DIRTY replicas
  Block,      \* Y_BLOCK_MAX
  MaxChunk    \* YFS_CHK_SIZE

ASSUME ChunkCopyAssumption ==
  Block \in Nat \ {0} /\ MaxChunk \in Nat \ {0}

(* A byte is 0, or i + 1 for the byte that the source has at offset i.     *)
Junk == -1    \* of a buffer that was not initialised
Old  == -2    \* of a DIRTY replica before the recovery

TmpSize == 2 * (IF Block > MaxChunk THEN Block ELSE MaxChunk)

VARIABLES
  pc,       \* "pull", "pulling", "push", "done" or "error"
  chksize,  \* what _get_chunk_size says
  srclen,   \* the length of the source's file
  tried,    \* the sources for which a pull was started
  missing,  \* the source that is pulled has no file: ENOENT
  offset,   \* offset of the pull or of the push
  tmp,      \* the bytes of the local file
  tmplen,   \* the length of the local file
  todo,     \* the replicas that have to be pushed to, with the current one
  buf,      \* _buf of __sdfs_chunk_push
  dst,      \* the files of the DIRTY replicas
  fds       \* number of local files that are open

vars == <<pc, chksize, srclen, tried, missing, offset, tmp, tmplen, todo, buf, dst, fds>>

(* _get_chunk_size, for a file of which md_getattr says that it has size   *)
(* bytes.  The subtraction is unsigned: a chunk beyond the size counts as  *)
(* a full one.                                                             *)
GetChunkSize(size, idx) ==
  LET diff == size - idx * MaxChunk
  IN  IF diff < 0 \/ diff > MaxChunk THEN MaxChunk ELSE diff

NoBuf == [i \in 0..Block-1 |-> Junk]
NoTmp == [i \in 0..TmpSize-1 |-> 0]

Init ==
  /\ pc = "pull"
  /\ \E size \in 0..3*MaxChunk, idx \in 0..1 : chksize = GetChunkSize(size, idx)
  /\ srclen \in 0..MaxChunk
  /\ tried = {}
  /\ missing = FALSE
  /\ offset = 0
  /\ tmp = NoTmp
  /\ tmplen = 0
  /\ todo = Dist
  /\ buf = NoBuf
  /\ dst = [d \in Dist |-> [i \in 0..MaxChunk-1 |-> Old]]
  /\ fds = 0

(* A replica is read in full blocks, whatever its length (cds_rpc_read).   *)
SrcByte(i) == IF i < srclen THEN i + 1 ELSE Junk

(* mbuffer_writefile: len bytes of data at position pos of the local file. *)
WriteFile(pos, len, data) ==
  /\ tmp' = [i \in 0..TmpSize-1 |-> IF i \in pos..(pos + len - 1) THEN data[i - pos] ELSE tmp[i]]
  /\ tmplen' = IF pos + len > tmplen THEN pos + len ELSE tmplen

-----------------------------------------------------------------------------
(* __sdfs_chunk_pull, entered for the next source, with a new local file.  *)
PullStart ==
  /\ pc = "pull" /\ offset = 0
  /\ \E s \in Src \ tried : tried' = tried \cup {s}
  /\ missing' \in BOOLEAN
  /\ pc' = "pulling" /\ tmp' = NoTmp /\ tmplen' = 0
  /\ fds' = fds + 1
  /\ UNCHANGED <<chksize, srclen, offset, todo, buf, dst>>

(* mkstemp fails: there is no local file, and the next source is tried.    *)
PullNoFile ==
  /\ pc = "pull"
  /\ \E s \in Src \ tried : tried' = tried \cup {s}
  /\ UNCHANGED <<pc, chksize, srclen, missing, offset, tmp, tmplen, todo, buf, dst, fds>>

(* One turn of its loop.  The third argument of mbuffer_writefile is the   *)
(* position in the file, and buf.len is 0 after mbuffer_free.              *)
PullBlock ==
  LET len      == IF missing THEN chksize ELSE Block
      data     == [i \in 0..len-1 |-> IF missing THEN 0 ELSE SrcByte(offset + i)]
      freedLen == 0
  IN  /\ pc = "pulling" /\ offset < chksize
      /\ WriteFile(len, len, data)
      /\ IF freedLen < Block THEN pc' = "push" /\ offset' = 0
         ELSE pc' = "pulling" /\ offset' = offset + len
      /\ UNCHANGED <<chksize, srclen, tried, missing, todo, buf, dst, fds>>

PullEnd ==
  /\ pc = "pulling" /\ offset >= chksize
  /\ pc' = "push" /\ offset' = 0
  /\ UNCHANGED <<chksize, srclen, tried, missing, tmp, tmplen, todo, buf, dst, fds>>

(* A read or a write fails, and the local file stays open: the next        *)
(* source, or ENONET after the last one.                                   *)
PullFail ==
  /\ \/ pc = "pulling" /\ pc' = "pull"
     \/ pc = "pull" /\ tried = Src /\ pc' = "error"
  /\ offset' = 0
  /\ UNCHANGED <<chksize, srclen, tried, missing, tmp, tmplen, todo, buf, dst, fds>>

-----------------------------------------------------------------------------
(* One turn of the loop of __sdfs_chunk_push to the replica d: pread may   *)
(* return less than size, and leaves the rest of _buf as it was.           *)
PushBlock(d) ==
  LET left == chksize - offset
      size == IF Block < left THEN Block ELSE left
      got  == [i \in 0..Block-1 |-> IF i < size /\ offset + i < tmplen
                                    THEN tmp[offset + i] ELSE buf[i]]
  IN  /\ pc = "push" /\ d \in todo /\ left > 0
      /\ buf' = got
      /\ dst' = [dst EXCEPT ![d] = [i \in 0..MaxChunk-1 |->
                   IF i \in offset..(offset + size - 1) THEN got[i - offset] ELSE @[i]]]
      /\ offset' = offset + size
      /\ UNCHANGED <<pc, chksize, srclen, tried, missing, tmp, tmplen, todo, fds>>

(* __sdfs_chunk_sync goes through dist in order; offset > 0 means that a   *)
(* replica is being pushed to.                                             *)
Current == CHOOSE d \in todo : TRUE

Push == todo # {} /\ PushBlock(Current)

(* Mutant of PushEnd: the loop ends with the first replica.                *)
PushEndFirst ==
  /\ pc = "push" /\ todo # {} /\ offset = chksize
  /\ todo' = {}
  /\ offset' = 0 /\ buf' = NoBuf
  /\ UNCHANGED <<pc, chksize, srclen, tried, missing, tmp, tmplen, dst, fds>>

(* Mutant of PushEnd: the same replica again.                              *)
PushEndSame ==
  /\ pc = "push" /\ todo # {} /\ offset = chksize
  /\ offset' = 0 /\ buf' = NoBuf
  /\ UNCHANGED <<pc, chksize, srclen, tried, missing, tmp, tmplen, todo, dst, fds>>

PushEnd ==
  /\ pc = "push" /\ todo # {} /\ offset = chksize
  /\ todo' = todo \ {Current}
  /\ offset' = 0 /\ buf' = NoBuf
  /\ UNCHANGED <<pc, chksize, srclen, tried, missing, tmp, tmplen, dst, fds>>

(* cds_rpc_write, _pread or mbuffer_copy fails: the recovery fails.        *)
PushFail ==
  /\ pc = "push" /\ todo # {} /\ pc' = "error"
  /\ fds' = fds - 1
  /\ UNCHANGED <<chksize, srclen, tried, missing, offset, tmp, tmplen, todo, buf, dst>>

(* Mutant of SyncEnd: the local file stays open.                           *)
SyncEndOpen ==
  /\ pc = "push" /\ todo = {} /\ pc' = "done"
  /\ UNCHANGED <<chksize, srclen, tried, missing, offset, tmp, tmplen, todo, buf, dst, fds>>

SyncEnd ==
  /\ pc = "push" /\ todo = {} /\ pc' = "done"
  /\ fds' = fds - 1
  /\ UNCHANGED <<chksize, srclen, tried, missing, offset, tmp, tmplen, todo, buf, dst>>

Next ==
  \/ PullStart \/ PullNoFile \/ PullBlock \/ PullEnd \/ PullFail
  \/ Push \/ PushEnd \/ PushFail \/ SyncEnd

Spec == Init /\ [][Next]_vars /\ WF_vars(Next)

-----------------------------------------------------------------------------
(* When the copy succeeds every DIRTY replica was written from 0 to        *)
(* chksize and not beyond, and all of them got the same bytes: whichever   *)
(* one serves the next read, the file is the same.                         *)
PushedAlike ==
  pc = "done" => \A d, e \in Dist : \A i \in 0..MaxChunk-1 :
                   /\ dst[d][i] = dst[e][i]
                   /\ dst[d][i] = Old <=> i >= chksize

(* __sdfs_chunk_pull does not close its file when it fails, and the next   *)
(* pull overwrites fd: a recovery that succeeds leaves at most one open    *)
(* file for each pull that failed before, and none otherwise.              *)
FilesLeft == pc = "done" => fds <= Cardinality(tried) - 1

(* The loops of pull and push come to an end for every size.               *)
SyncEnds == <>(pc \in {"done", "error"})

(* What recovery is for: when the size of the file is up to date, each     *)
(* rebuilt replica has the bytes of the source it was made from.           *)
ReplicaEqualsSource ==
  (pc = "done" /\ ~missing /\ srclen <= chksize) =>
    \A d \in Dist : \A i \in 0..srclen-1 : dst[d][i] = SrcByte(i)

=============================================================================
