----------------------------- MODULE ReplicaSet -----------------------------
(***************************************************************************)
(* What the metadata of a chunk goes through as its users see it, with no  *)
(* clients, locks, loads or lost replies: the chunk is created on RepNum   *)
(* disks, loses clean replicas but never the last one, and is made whole   *)
(* again, perhaps on other disks, from a replica that was clean.           *)
(* SdfsChunk implements it as long as its lock is exclusive: every chkinfo *)
(* is written back as a whole, and none that is written is out of date.    *)
(***************************************************************************)
EXTENDS FiniteSets

CONSTANTS Disk, RepNum, None

VARIABLE reps   \* the chkinfo, or None

Init == reps = None

(* md_chunk_create *)
Create ==
  /\ reps = None
  /\ \E D \in SUBSET Disk :
       Cardinality(D) = RepNum /\ reps' = [clean |-> D, dirty |-> {}]

(* __md_chunk_check and the update after it.                               *)
Degrade ==
  /\ reps # None
  /\ \E C \in SUBSET reps.clean :
       /\ C # {}
       /\ reps' = [clean |-> C, dirty |-> reps.dirty \cup (reps.clean \ C)]

(* sdfs_chunk_recovery: offline disks replaced, DIRTY replicas rebuilt.    *)
Rebuild ==
  /\ reps # None
  /\ \E D \in SUBSET Disk :
       /\ Cardinality(D) = RepNum /\ D \cap reps.clean # {}
       /\ reps' = [clean |-> D, dirty |-> {}]

Next == Create \/ Degrade \/ Rebuild

Spec == Init /\ [][Next]_reps
=============================================================================
