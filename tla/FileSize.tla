------------------------------ MODULE FileSize ------------------------------
(***************************************************************************)
(* What the clients of a file may rely on: its size is one number.  Every  *)
(* call takes effect at one moment between its start and its return: a     *)
(* write raises the size to where it ends, a truncation sets it, sdfs_     *)
(* getattr reads it and the other calls leave it alone.  AttrQueue         *)
(* implements this with a record in redis, a cache of that record and a    *)
(* queue of updates.                                                       *)
(***************************************************************************)
EXTENDS Integers

CONSTANTS
  Task,      \* the tasks that make calls
  MaxSize,   \* bound on the sizes
  Ops        \* the calls that are made

VARIABLES
  size,      \* the size of the file
  call       \* per task its last call: op, size, whether it is open, and ret

vars == <<size, call>>

Init ==
  /\ size = 0
  /\ call = [t \in Task |-> [op |-> "", size |-> 0, open |-> FALSE, ret |-> 0]]

Call(t) ==
  /\ ~call[t].open
  /\ \E op \in Ops, s \in 0..MaxSize :
       call' = [call EXCEPT ![t] = [op |-> op, size |-> s, open |-> TRUE, ret |-> 0]]
  /\ UNCHANGED size

(* The call of t takes effect, and the call returns r.                     *)
Closed(t, r) == call' = [call EXCEPT ![t].open = FALSE, ![t].ret = r]

Write(t) ==
  /\ call[t].open /\ call[t].op = "write"
  /\ size' = IF call[t].size > size THEN call[t].size ELSE size
  /\ Closed(t, 0)

Truncate(t) ==
  /\ call[t].open /\ call[t].op = "truncate"
  /\ size' = call[t].size
  /\ Closed(t, 0)

Getattr(t) ==
  /\ call[t].open /\ call[t].op = "getattr"
  /\ Closed(t, size)
  /\ UNCHANGED size

Other(t) ==
  /\ call[t].open /\ call[t].op \notin {"write", "truncate", "getattr"}
  /\ Closed(t, 0)
  /\ UNCHANGED size

Next == \E t \in Task : Call(t) \/ Write(t) \/ Truncate(t) \/ Getattr(t) \/ Other(t)

Spec == Init /\ [][Next]_vars

=============================================================================
