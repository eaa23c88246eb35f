-------------------------------- MODULE MCMdId --------------------------------
(* MdId for TLC: two daemons with ranges of 2 and a tool.                  *)
EXTENDS MdId

CONSTANTS d1, d2, t1

MCNode == {d1, d2, t1}
MCStep == [n \in MCNode |-> IF n = t1 THEN 1 ELSE 2]
=============================================================================
