---------------------------- MODULE MCSdfsChunk ----------------------------
(* SdfsChunk for TLC.                                                      *)
EXTENDS SdfsChunk, TLC

(* The clients, the disks and the writes are interchangeable.              *)
Symm == Permutations(Client) \cup Permutations(Disk) \cup Permutations(Write)
=============================================================================
