------------------------------ MODULE MCPlock ------------------------------
(* Plock for TLC: four tasks on one core, one of them with a priority.     *)
EXTENDS Plock
=============================================================================
