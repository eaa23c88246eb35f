---------------------------- MODULE MCAttrQueue ----------------------------
(* AttrQueue for TLC: three uses of a file.                                *)
EXTENDS AttrQueue

CONSTANTS n1, n2

MCTask == {<<n1, 1>>, <<n1, 2>>, <<n2, 1>>}

MCUses ==
  { \* Two tasks of one core.
    [ops |-> {"write", "truncate", "getattr", "setattr"}, calls |-> 3,
     tasks |-> {<<n1, 1>>, <<n1, 2>>}, sizes |-> 0..1, ac_timeout |-> TRUE, faults |-> {}],
    \* Two cores that keep no copies extend the file.
    [ops |-> {"write", "settime"}, calls |-> 3,
     tasks |-> {<<n1, 1>>, <<n2, 1>>}, sizes |-> 1..2, ac_timeout |-> FALSE, faults |-> {}],
    \* Two cores that may stop, and a file that goes away.
    [ops |-> {"write", "truncate", "unlink"}, calls |-> 2,
     tasks |-> {<<n1, 1>>, <<n2, 1>>}, sizes |-> 0..1, ac_timeout |-> TRUE,
     faults |-> {"flush", "crash"}] }

=============================================================================
