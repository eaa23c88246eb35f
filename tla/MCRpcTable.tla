----------------------------- MODULE MCRpcTable -----------------------------
(* RpcTable for TLC: three uses of a table.                                *)
EXTENDS RpcTable

CONSTANTS k1, k2

MCUses ==
  { \* A core's table of two slots, with two connections.
    [shared |-> FALSE, slots |-> 2, socks |-> {k1, k2}, calls |-> 2, resets |-> 1],
    \* A core's table of one slot, which is used again and again.
    [shared |-> FALSE, slots |-> 1, socks |-> {k1}, calls |-> 3, resets |-> 1],
    \* The table of all threads, with one slot.
    [shared |-> TRUE, slots |-> 1, socks |-> {k1}, calls |-> 2, resets |-> 1] }

=============================================================================
