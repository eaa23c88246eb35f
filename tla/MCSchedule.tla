----------------------------- MODULE MCSchedule -----------------------------
(* Schedule for TLC: three uses of a core.                                 *)
EXTENDS Schedule

CONSTANTS j1, j2, j3

MCUses ==
  { \* Two throttled jobs, one of which is held back, and one of another kind.
    [jobs |-> {j1, j2, j3}, waits |-> 1, shared |-> FALSE],
    \* Two jobs that wait three times.
    [jobs |-> {j1, j3}, waits |-> 3, shared |-> FALSE],
    \* One job that gives waits up which have been answered.
    [jobs |-> {j3}, waits |-> 5, shared |-> TRUE] }

=============================================================================
