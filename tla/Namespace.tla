------------------------------ MODULE Namespace ------------------------------
(***************************************************************************)
(* Directories and inodes, metadata/md_dir.c, dir_redis.c, inode_redis.c:  *)
(* a directory is a hash in redis that holds its own record and one field  *)
(* per entry, a file is a hash that holds its record.  A call is a         *)
(* sequence of redis commands, one per step here, and no call locks a      *)
(* directory: the calls of several clients interleave, and one may stop    *)
(* half way.  The calls are those of the NFS server (nfs/nfs3.c), with     *)
(* mdsconf.ac_timeout = 0: records are read from redis.  AttrQueue has     *)
(* the copies of them, and MdId the new ids.                               *)
(***************************************************************************)
EXTENDS Integers, FiniteSets

CONSTANTS
  Client,   \* the threads that make calls
  Name,     \* names of entries
  MaxFid,   \* bound on the ids
  Uses,     \* the ways in which the volume is used: see Use
  None,
  Empty     \* a record of no bytes

(* One use: which calls are made, how many, by how many clients at a time, *)
(* and may a client stop half way.                                         *)
Op == {"create", "mkdir", "unlink", "rmdir", "link", "rename"}
Use == [ops : SUBSET Op, calls : Nat, clients : Nat, crash : BOOLEAN]

ASSUME NamespaceAssumption ==
  /\ MaxFid \in Nat /\ Uses \subseteq Use
  /\ IsFiniteSet(Client) /\ IsFiniteSet(Name)
  /\ None \notin Int \cup Client \cup {Empty} /\ Empty \notin Int

Fid == 0..MaxFid
Root == 0                                \* the volume

VARIABLES
  kind,    \* type of each id: "new", "file" or "dir"
  md,      \* the link count in the record of an id; None when there is none
  ents,    \* the entries in the hash of an id
  lock,    \* klock of each id
  cl,      \* the clients
  calls,   \* number of calls so far
  use      \* how the volume is used, which never changes

vars == <<kind, md, ents, lock, cl, calls, use>>

Idle == [pc |-> "idle", op |-> "", from |-> None, to |-> None, f |-> None,
         dist |-> None, m |-> None, proc |-> "", try |-> 1]

Init ==
  /\ kind = [f \in Fid |-> IF f = Root THEN "dir" ELSE "new"]
  /\ md = [f \in Fid |-> IF f = Root THEN 1 ELSE None]
  /\ ents = [f \in Fid |-> [n \in Name |-> None]]
  /\ lock = [f \in Fid |-> None]
  /\ cl = [c \in Client |-> Idle]
  /\ calls = 0
  /\ use \in Uses

Entry(e) == ents[e[1]][e[2]]
Place == {d \in Fid : kind[d] = "dir"} \X Name
Names(f) == {e \in Place : Entry(e) = f}
Hlen(f) == Cardinality({n \in Name : ents[f][n] # None})
           + (IF md[f] = None THEN 0 ELSE 1)
Ready == {"idle", "done", "failed", "abort"}
Busy == {c \in Client : cl[c].pc \notin Ready}

Goto(c, pc) ==
  cl' = [cl EXCEPT ![c] = IF pc \in Ready THEN [Idle EXCEPT !.pc = pc]
                          ELSE [@ EXCEPT !.pc = pc]]

(* kdel of an id: its hash goes, with every field.                         *)
Deleted(f) ==
  /\ md' = [md EXCEPT ![f] = None]
  /\ ents' = [ents EXCEPT ![f] = [n \in Name |-> None]]

-----------------------------------------------------------------------------
(* The files that a client can name.                                       *)
Linkable == {f \in Fid : kind[f] = "file" /\ Names(f) # {}}

(* A client makes a call.  from is the entry that rename moves, to the     *)
(* entry that a call makes or removes, f the file that link gives a name.  *)
(* The clients' kernels do not rename an entry to itself and do not unlink *)
(* what they know as a directory; the server would do both.                *)
Call(c, op, from, to, f) ==
  /\ op = "rename" => from # to
  /\ op = "unlink" /\ Entry(to) # None => kind[Entry(to)] = "file"
  /\ calls' = calls + 1
  /\ cl' = [cl EXCEPT ![c] =
       [Idle EXCEPT !.op = op, !.from = from, !.to = to, !.f = f,
          !.proc = IF op \in {"unlink", "rmdir"} THEN op ELSE "",
          !.pc = CASE op \in {"create", "mkdir"} -> "parent"
                   [] op = "link"                -> "lock"
                   [] op = "rename"              -> "src"
                   [] OTHER                      -> "lookup"]]
  /\ UNCHANGED <<kind, md, ents, lock, use>>

(* __inode_create reads the parent, and YASSERT(parent->repnum) fails when *)
(* there is none ...                                                       *)
Parent(c) ==
  /\ cl[c].pc = "parent"
  /\ Goto(c, IF md[cl[c].to[1]] = None THEN "abort" ELSE "inode")
  /\ UNCHANGED <<kind, md, ents, lock, calls, use>>

(* ... and makes the record of a new id.                                   *)
Inode(c) ==
  /\ cl[c].pc = "inode"
  /\ \E f \in Fid :
       /\ kind[f] = "new" /\ \A g \in Fid : kind[g] = "new" => f <= g
       /\ kind' = [kind EXCEPT ![f] = IF cl[c].op = "mkdir" THEN "dir" ELSE "file"]
       /\ md' = [md EXCEPT ![f] = 1]
       /\ cl' = [cl EXCEPT ![c].f = f, ![c].pc = "newrec"]
  /\ UNCHANGED <<ents, lock, calls, use>>

(* dir_newrec with O_EXCL, and what its callers do after EEXIST: __md_     *)
(* create takes the new inode back, rename of the NFS server removes the   *)
(* target and tries again.                                                 *)
Newrec(c) ==
  /\ cl[c].pc = "newrec"
  /\ \/ /\ Entry(cl[c].to) = None
        /\ ents' = [ents EXCEPT ![cl[c].to[1]][cl[c].to[2]] = cl[c].f]
        /\ Goto(c, IF cl[c].op = "rename" THEN "delsrc" ELSE "done")
     \/ /\ Entry(cl[c].to) # None
        /\ Goto(c, CASE cl[c].op = "create"                    -> "lock"
                     [] cl[c].op = "mkdir"                     -> "kdel"
                     [] cl[c].op = "rename" /\ cl[c].try = 1   -> "from"
                     [] OTHER                                  -> "failed")
        /\ UNCHANGED ents
  /\ UNCHANGED <<kind, md, lock, calls, use>>

-----------------------------------------------------------------------------
(* The end of unlink and rmdir, after which rename tries again.            *)
End(c) ==
  IF cl[c].op = "rename" /\ cl[c].proc # ""
  THEN cl' = [cl EXCEPT ![c].pc = "src", ![c].proc = "", ![c].try = 2]
  ELSE Goto(c, "done")

(* md_lookup in md_unlink, dirop->lookup in md_rmdir.                      *)
Lookup(c) ==
  /\ cl[c].pc = "lookup"
  /\ LET f == Entry(cl[c].to)
     IN  IF f = None THEN Goto(c, "failed")
         ELSE cl' = [cl EXCEPT ![c].f = f,
                ![c].pc = IF cl[c].proc = "rmdir" THEN "count"
                          ELSE IF kind[f] = "dir" THEN "get" ELSE "lock"]
  /\ UNCHANGED <<kind, md, ents, lock, calls, use>>

(* __inode_childcount: ENOTDIR, or the entries.  The count of a directory  *)
(* that is gone is 0 - 1 in 64 bits, which is ENOTEMPTY for md_rmdir.      *)
Count(c) ==
  /\ cl[c].pc = "count"
  /\ Goto(c, IF kind[cl[c].f] = "dir" /\ Hlen(cl[c].f) = 1 THEN "kdel" ELSE "failed")
  /\ UNCHANGED <<kind, md, ents, lock, calls, use>>

(* __inode_del of a directory, for rmdir, unlink, and mkdir after EEXIST.  *)
Kdel(c) ==
  /\ cl[c].pc = "kdel"
  /\ Deleted(cl[c].f)
  /\ Goto(c, IF cl[c].op = "mkdir" THEN "failed" ELSE "hdel")
  /\ UNCHANGED <<kind, lock, calls, use>>

(* Mutant of Lock: klock does not exclude.                                 *)
LockNot(c) ==
  /\ cl[c].pc = "lock"
  /\ lock' = [lock EXCEPT ![cl[c].f] = c]
  /\ Goto(c, "get")
  /\ UNCHANGED <<kind, md, ents, calls, use>>

(* __inode_link and __inode_unlink: klock, which waits for the lock, ...   *)
Lock(c) ==
  /\ cl[c].pc = "lock" /\ lock[cl[c].f] = None
  /\ lock' = [lock EXCEPT ![cl[c].f] = c]
  /\ Goto(c, "get")
  /\ UNCHANGED <<kind, md, ents, calls, use>>

(* ... hget of the record ...                                              *)
Get(c) ==
  /\ cl[c].pc = "get"
  /\ cl' = [cl EXCEPT ![c].m = md[cl[c].f],
                      ![c].pc = IF kind[cl[c].f] = "dir" THEN "kdel" ELSE "set"]
  /\ UNCHANGED <<kind, md, ents, lock, calls, use>>

(* Mutant of Set: __inode_unlink writes the count as it was.               *)
SetNoDec(c) ==
  /\ cl[c].pc = "set"
  /\ md' = [md EXCEPT ![cl[c].f] =
       IF cl[c].m \in {None, Empty} THEN Empty
       ELSE cl[c].m + (IF cl[c].op = "link" THEN 1 ELSE 0)]
  /\ Goto(c, "unlock")
  /\ UNCHANGED <<kind, ents, lock, calls, use>>

(* ... hset with another link count.  A record that was not there is all   *)
(* zero, md_size too: hset then makes one of no bytes.                     *)
Set(c) ==
  /\ cl[c].pc = "set"
  /\ md' = [md EXCEPT ![cl[c].f] =
       IF cl[c].m \in {None, Empty} THEN Empty
       ELSE cl[c].m + (IF cl[c].op = "link" THEN 1 ELSE -1)]
  /\ Goto(c, "unlock")
  /\ UNCHANGED <<kind, ents, lock, calls, use>>

(* Mutant of Unlock: the file is removed before its entry.                 *)
UnlockRemove(c) ==
  /\ cl[c].pc = "unlock"
  /\ lock' = [lock EXCEPT ![cl[c].f] = None]
  /\ Goto(c, CASE cl[c].op = "create" -> "failed"
               [] cl[c].op = "link"   -> "newrec"
               [] OTHER               -> "remove")
  /\ UNCHANGED <<kind, md, ents, calls, use>>

(* ... and kunlock.                                                        *)
Unlock(c) ==
  /\ cl[c].pc = "unlock"
  /\ lock' = [lock EXCEPT ![cl[c].f] = None]
  /\ Goto(c, CASE cl[c].op = "create" -> "failed"
               [] cl[c].op = "link"   -> "newrec"
               [] OTHER               -> "hdel")
  /\ UNCHANGED <<kind, md, ents, calls, use>>

(* dir_unlink, at the end of md_unlink and md_rmdir.  sdfs_unlink then     *)
(* removes a regular file; when there was no record, md is not set and it  *)
(* may or may not do so.                                                   *)
Hdel(c) ==
  /\ cl[c].pc = "hdel"
  /\ \/ Entry(cl[c].to) = None /\ Goto(c, "failed") /\ UNCHANGED ents
     \/ /\ Entry(cl[c].to) # None
        /\ ents' = [ents EXCEPT ![cl[c].to[1]][cl[c].to[2]] = None]
        /\ \/ kind[cl[c].f] = "file" /\ Goto(c, "remove")
           \/ (kind[cl[c].f] = "dir" \/ cl[c].m \in {None, Empty}) /\ End(c)
  /\ UNCHANGED <<kind, md, lock, calls, use>>

(* md_remove: kdel of the file, whatever its link count is.                *)
Remove(c) ==
  /\ cl[c].pc = "remove"
  /\ Deleted(cl[c].f)
  /\ End(c)
  /\ UNCHANGED <<kind, lock, calls, use>>

-----------------------------------------------------------------------------
(* sdfs_rename looks the source up ...                                     *)
Src(c) ==
  /\ cl[c].pc = "src"
  /\ Goto(c, IF Entry(cl[c].from) = None THEN "failed" ELSE "dst")
  /\ UNCHANGED <<kind, md, ents, lock, calls, use>>

(* ... and the target, which may be there ...                              *)
Dst(c) ==
  /\ cl[c].pc = "dst"
  /\ cl' = [cl EXCEPT ![c].dist = Entry(cl[c].to), ![c].pc = "again"]
  /\ UNCHANGED <<kind, md, ents, lock, calls, use>>

(* Mutant of Again: the old entry goes first.                              *)
AgainDelFirst(c) ==
  /\ cl[c].pc = "again" /\ Entry(cl[c].from) # None
  /\ cl' = [cl EXCEPT ![c].f = Entry(cl[c].from), ![c].pc = "newrec"]
  /\ ents' = [ents EXCEPT ![cl[c].from[1]][cl[c].from[2]] = None]
  /\ UNCHANGED <<kind, md, lock, calls, use>>

(* ... and md_rename the source again, before it makes the new entry ...   *)
Again(c) ==
  /\ cl[c].pc = "again"
  /\ IF Entry(cl[c].from) = None THEN Goto(c, "failed")
     ELSE cl' = [cl EXCEPT ![c].f = Entry(cl[c].from), ![c].pc = "newrec"]
  /\ UNCHANGED <<kind, md, ents, lock, calls, use>>

(* ... removes the old one, and then the file that the target was.         *)
DelSrc(c) ==
  /\ cl[c].pc = "delsrc"
  /\ \/ Entry(cl[c].from) = None /\ Goto(c, "failed") /\ UNCHANGED ents
     \/ /\ Entry(cl[c].from) # None
        /\ ents' = [ents EXCEPT ![cl[c].from[1]][cl[c].from[2]] = None]
        /\ IF cl[c].dist # None /\ kind[cl[c].dist] = "file"
           THEN cl' = [cl EXCEPT ![c].f = cl[c].dist, ![c].pc = "remove"]
           ELSE Goto(c, "done")
  /\ UNCHANGED <<kind, md, lock, calls, use>>

(* __rename_proc after EEXIST: what are source and target?                 *)
From(c) ==
  /\ cl[c].pc = "from"
  /\ IF Entry(cl[c].from) = None THEN Goto(c, "failed")
     ELSE cl' = [cl EXCEPT ![c].f = Entry(cl[c].from), ![c].pc = "fromattr"]
  /\ UNCHANGED <<kind, md, ents, lock, calls, use>>

IsDir(f) == kind[f] = "dir" /\ md[f] # None         \* S_ISDIR of sdfs_getattr

FromAttr(c) ==
  /\ cl[c].pc = "fromattr"
  /\ cl' = [cl EXCEPT ![c].proc = IF IsDir(cl[c].f) THEN "rmdir" ELSE "unlink",
                      ![c].pc = "to"]
  /\ UNCHANGED <<kind, md, ents, lock, calls, use>>

To(c) ==
  /\ cl[c].pc = "to"
  /\ IF Entry(cl[c].to) = None THEN Goto(c, "failed")
     ELSE cl' = [cl EXCEPT ![c].f = Entry(cl[c].to), ![c].pc = "toattr"]
  /\ UNCHANGED <<kind, md, ents, lock, calls, use>>

(* Two files, or two directories and the target is empty: the target is    *)
(* removed.                                                                *)
ToAttr(c) ==
  /\ cl[c].pc = "toattr"
  /\ Goto(c, CASE cl[c].proc = "rmdir" /\ IsDir(cl[c].f)   -> "childcount"
               [] cl[c].proc = "unlink" /\ ~IsDir(cl[c].f) -> "lookup"
               [] OTHER                                    -> "failed")
  /\ UNCHANGED <<kind, md, ents, lock, calls, use>>

ChildCount(c) ==
  /\ cl[c].pc = "childcount"
  /\ Goto(c, IF Hlen(cl[c].f) = 1 THEN "lookup" ELSE "failed")
  /\ UNCHANGED <<kind, md, ents, lock, calls, use>>

-----------------------------------------------------------------------------
(* The process of a client stops; its lock goes away with its ttl.         *)
Crash(c) ==
  /\ use.crash /\ c \in Busy
  /\ Goto(c, "failed")
  /\ UNCHANGED <<kind, md, ents, lock, calls, use>>

LockExpire(f) ==
  /\ lock[f] # None
  /\ ~(cl[lock[f]].f = f /\ cl[lock[f]].pc \in {"get", "set", "unlock"})
  /\ lock' = [lock EXCEPT ![f] = None]
  /\ UNCHANGED <<kind, md, ents, cl, calls, use>>

Step(c) ==
  \/ Parent(c) \/ Inode(c) \/ Newrec(c) \/ Lookup(c) \/ Count(c) \/ Kdel(c) \/ Lock(c)
  \/ Get(c) \/ Set(c) \/ Unlock(c) \/ Hdel(c) \/ Remove(c) \/ Src(c) \/ Dst(c) \/ Again(c)
  \/ DelSrc(c) \/ From(c) \/ FromAttr(c) \/ To(c) \/ ToAttr(c) \/ ChildCount(c)

Next ==
  \/ /\ calls < use.calls /\ Cardinality(Busy) < use.clients
     /\ \E c \in Client \ Busy, op \in use.ops, to \in Place :
          \E from \in IF op = "rename" THEN Place ELSE {to},
             f \in IF op = "link" THEN Linkable ELSE {None} : Call(c, op, from, to, f)
  \/ \E c \in Client : Step(c) \/ Crash(c)
  \/ \E f \in Fid : LockExpire(f)

Spec == Init /\ [][Next]_vars

-----------------------------------------------------------------------------
(* Where clients only create and unlink, no entry names a file that is not *)
(* there: an inode is made before its entry, and removed after it, whoever *)
(* else creates and unlinks the same name and wherever somebody stops.     *)
EntriesGood == \A e \in Place : Entry(e) # None => md[Entry(e)] \notin {None, Empty}

EntryHasInode == use.ops \subseteq {"create", "unlink"} => EntriesGood

(* Calls that follow each other (of everything but link) leave a tree:     *)
(* every file has as many names as its link count says, a directory has    *)
(* one, and nothing that is in the tree lacks its inode.  Files of         *)
(* creations that failed have none.                                        *)
Consistent ==
  use.clients = 1 /\ ~use.crash /\ "link" \notin use.ops /\ Busy = {} =>
    /\ EntriesGood
    /\ \A f \in Fid \ {Root} : md[f] # None =>
         Cardinality(Names(f)) = IF kind[f] = "dir" THEN 1 ELSE md[f]

(* One client at a time: the last name of a file or of a directory goes    *)
(* only in the call that was told to remove that name.  In particular,     *)
(* md_rename has the new entry before it removes the old one.  A client    *)
(* that stops after the kdel of a directory leaves an entry without        *)
(* record, which __rename_proc does not take for a directory: what was put *)
(* into it since goes with it, and nothing else does.                      *)
LastNameKept ==
  [][use.clients = 1 =>
       \A f \in Fid : Names(f) # {} /\ Names(f)' = {} =>
         \/ \E c \in Client : cl[c].pc = "hdel" /\ cl[c].f = f
         \/ use.crash /\ \E e \in Names(f) : md[e[1]] = None]_vars

(* Where names are only added, the link count of a file is never less than *)
(* the number of its names, whichever calls run together and wherever one  *)
(* stops: the count is read and written under the lock, and raised before  *)
(* the entry is made.                                                      *)
LinksCounted ==
  use.ops \cap {"unlink", "rmdir", "rename"} = {} =>
    \A f \in Linkable : md[f] \notin {None, Empty} /\ Cardinality(Names(f)) <= md[f]

=============================================================================
