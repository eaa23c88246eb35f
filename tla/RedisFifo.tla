------------------------------ MODULE RedisFifo ------------------------------
(***************************************************************************)
(* What the coroutines of one core may rely on when they call redis: the   *)
(* commands for one shard are executed in the order of the calls, each one *)
(* once, and answered in that order, each call with the answer to its own  *)
(* command.  When the connection of a shard breaks, answers may be lost    *)
(* and nothing more is executed, but nobody gets another call's answer.    *)
(* AttrQueue is built on this; RedisCo implements it.                      *)
(***************************************************************************)
EXTENDS Integers, Sequences

CONSTANTS Caller, Shard, MaxCall

VARIABLES
  line,   \* per shard the calls that have no answer yet, in their order
  done,   \* per shard how many of them redis has executed
  got,    \* the last answer of each caller
  broken  \* the shards whose connection is broken

vars == <<line, done, got, broken>>

Init ==
  /\ line = [s \in Shard |-> <<>>] /\ done = [s \in Shard |-> 0]
  /\ got = [c \in Caller |-> <<>>] /\ broken = {}

Call(c, s) ==
  /\ \A t \in Shard : \A i \in 1..Len(line[t]) : line[t][i].c # c
  /\ \E n \in 0..MaxCall : line' = [line EXCEPT ![s] = Append(@, [c |-> c, s |-> s, n |-> n])]
  /\ UNCHANGED <<done, got, broken>>

Execute(s) ==
  /\ s \notin broken /\ done[s] < Len(line[s])
  /\ done' = [done EXCEPT ![s] = @ + 1]
  /\ UNCHANGED <<line, got, broken>>

Answer(s) ==
  /\ done[s] > 0
  /\ got' = [got EXCEPT ![Head(line[s]).c] = <<Head(line[s])>>]
  /\ line' = [line EXCEPT ![s] = Tail(@)]
  /\ done' = [done EXCEPT ![s] = @ - 1]
  /\ UNCHANGED broken

Break(s) ==
  /\ s \notin broken /\ broken' = broken \cup {s}
  /\ \E n \in 0..done[s] : done' = [done EXCEPT ![s] = n]
  /\ UNCHANGED <<line, got>>

Next ==
  \E s \in Shard : Execute(s) \/ Answer(s) \/ Break(s) \/ \E c \in Caller : Call(c, s)

Spec == Init /\ [][Next]_vars

=============================================================================
