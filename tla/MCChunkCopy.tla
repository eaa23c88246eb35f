---------------------------- MODULE MCChunkCopy ----------------------------
(* ChunkCopy for TLC: chunks of up to three and a half blocks.             *)
EXTENDS ChunkCopy
=============================================================================
