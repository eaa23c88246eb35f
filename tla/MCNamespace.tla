----------------------------- MODULE MCNamespace -----------------------------
(* Namespace for TLC: four uses of a volume.                               *)
EXTENDS Namespace, TLC

MCUses ==
  { \* One call after the other.
    [ops |-> {"create", "mkdir", "unlink", "rmdir", "rename"}, calls |-> 5, clients |-> 1,
     crash |-> FALSE],
    \* One client at a time, which may stop anywhere.
    [ops |-> {"create", "mkdir", "unlink", "rmdir", "rename"}, calls |-> 4, clients |-> 1,
     crash |-> TRUE],
    \* Three clients create and unlink, and may stop.
    [ops |-> {"create", "unlink"}, calls |-> 5, clients |-> 3, crash |-> TRUE],
    \* Three clients add names, and may stop.
    [ops |-> {"create", "mkdir", "link"}, calls |-> 4, clients |-> 3, crash |-> TRUE] }

Symmetry == Permutations(Client) \cup Permutations(Name)

=============================================================================
