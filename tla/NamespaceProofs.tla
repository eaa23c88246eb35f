--------------------------- MODULE NamespaceProofs ---------------------------
(***************************************************************************)
(* What is proved of directories and inodes (Namespace), for any number of *)
(* clients, names and ids: what holds between an entry and its inode while *)
(* calls interleave and stop half way, and what calls that follow each     *)
(* other leave behind.  And of the ids themselves (MdId): they are new.    *)
(***************************************************************************)
EXTENDS Namespace, MdId, FiniteSetTheorems, TLAPS

Pc == Ready \cup {"parent", "inode", "newrec", "lookup", "count", "kdel", "lock", "get",
                  "set", "unlock", "hdel", "remove", "src", "dst", "again", "delsrc",
                  "from", "fromattr", "to", "toattr", "childcount"}
Count0 == Int \cup {None, Empty}

ClType ==
  [pc : Pc, op : Op \cup {""}, from : (Fid \X Name) \cup {None},
   to : (Fid \X Name) \cup {None}, f : Fid \cup {None}, dist : Fid \cup {None},
   m : Count0, proc : {"", "unlink", "rmdir"}, try : {1, 2}]

TypeInv ==
  /\ kind \in [Fid -> {"new", "file", "dir"}]
  /\ md \in [Fid -> Count0]
  /\ ents \in [Fid -> [Name -> Fid \cup {None}]]
  /\ lock \in [Fid -> Client \cup {None}]
  /\ cl \in [Client -> ClType]
  /\ use \in Uses

(* What a client that is at pc has, and which call it can be in.           *)
WithFile == {"newrec", "count", "kdel", "lock", "get", "set", "unlock", "hdel", "remove",
             "fromattr", "toattr", "childcount", "delsrc"}

Flow(c) ==
  /\ cl[c].op \in use.ops
  /\ cl[c].to \in Fid \X Name /\ kind[cl[c].to[1]] = "dir"
  /\ cl[c].op = "rename" => cl[c].from \in Fid \X Name
  /\ cl[c].pc \in WithFile => cl[c].f \in Fid /\ kind[cl[c].f] # "new"
  /\ cl[c].pc \in {"lock", "set", "unlock", "remove"} => kind[cl[c].f] = "file"
  /\ cl[c].pc = "kdel" => kind[cl[c].f] = "dir"
  /\ cl[c].pc \in {"newrec", "get"} /\ cl[c].op \in {"create", "link"} => kind[cl[c].f] = "file"
  /\ cl[c].pc = "newrec" /\ cl[c].op = "mkdir" => kind[cl[c].f] = "dir"
  /\ cl[c].pc \in {"parent", "inode"} => cl[c].op \in {"create", "mkdir"}
  /\ cl[c].pc = "newrec" => cl[c].op \in {"create", "mkdir", "link", "rename"}
  /\ cl[c].pc \in {"lookup", "count", "hdel", "remove"} =>
       cl[c].op \in {"unlink", "rmdir", "rename"}
  /\ cl[c].pc = "kdel" => cl[c].op \in {"mkdir", "unlink", "rmdir", "rename"}
  /\ cl[c].pc \in {"lock", "get", "set", "unlock"} => cl[c].op # "mkdir"
  /\ cl[c].pc \in {"src", "dst", "again", "delsrc", "from", "fromattr", "to", "toattr",
                   "childcount"} => cl[c].op = "rename"
  /\ cl[c].op = "unlink" => cl[c].proc = "unlink"
  /\ cl[c].op = "create" => cl[c].pc \notin {"lookup", "count", "hdel", "remove", "kdel"}

FlowInv ==
  /\ kind[Root] = "dir"
  /\ \A d \in Fid, n \in Name : kind[d] = "new" => ents[d][n] = None
  /\ \A d \in Fid, n \in Name : ents[d][n] # None => kind[ents[d][n]] # "new"
  /\ \A c \in Client : cl[c].pc \notin Ready => Flow(c)

ShapeInv == TypeInv /\ FlowInv

-----------------------------------------------------------------------------
(* Nobody names f.                                                         *)
Nameless(f) == \A d \in Fid, n \in Name : ents[d][n] # f

(* Creations and removals: an entry names a file that is there, and a file *)
(* has one entry, made once.                                               *)
EntriesAre ==
  \A d \in Fid, n \in Name : ents[d][n] # None =>
    md[ents[d][n]] \notin {None, Empty} /\ kind[ents[d][n]] = "file"

OneEntry ==
  \A d, e \in Fid, n, k \in Name :
    ents[d][n] # None /\ ents[d][n] = ents[e][k] => d = e /\ n = k

(* Nobody else has the file that a client is about to give a name.         *)
Alone ==
  \A b, c \in Client : b # c /\ cl[b].pc = "newrec" /\ cl[c].pc \in WithFile => cl[b].f # cl[c].f

(* What a client may rely on between its commands: the file it takes back  *)
(* or removes has no name, or only the one it is about to remove.          *)
HoldsFile(c) ==
  /\ cl[c].pc \notin {"count", "kdel"}
  /\ cl[c].pc = "newrec" => md[cl[c].f] \notin {None, Empty} /\ Nameless(cl[c].f)
  /\ cl[c].op = "create" /\ cl[c].pc \in {"lock", "get", "set", "unlock"} => Nameless(cl[c].f)
  /\ cl[c].op = "unlink" /\ cl[c].pc \in {"lock", "get", "set", "unlock", "hdel"} =>
       /\ kind[cl[c].f] = "file"
       /\ \A d \in Fid, n \in Name : ents[d][n] = cl[c].f => <<d, n>> = cl[c].to
  /\ cl[c].pc = "remove" => Nameless(cl[c].f)
  /\ cl[c].pc = "set" /\ cl[c].m \in {None, Empty} => Nameless(cl[c].f)

EntryInv == EntriesAre /\ OneEntry /\ Alone /\ \A c \in Client : HoldsFile(c)

(* The clients that have raised the count of f for a name not made yet, or *)
(* have yet to lower it for one that will not be.                          *)
Owed(f) ==
  {c \in Client : /\ cl[c].f = f
                  /\ \/ cl[c].op = "link" /\ cl[c].pc \in {"unlock", "newrec"}
                     \/ cl[c].op = "create" /\ cl[c].pc \in {"newrec", "lock", "get", "set"}}

Counted(f) ==
  kind[f] = "file" => md[f] \in Nat /\ Cardinality(Names(f)) + Cardinality(Owed(f)) <= md[f]

Locked(c) ==
  /\ cl[c].pc \in {"get", "set", "unlock"} => lock[cl[c].f] = c
  /\ cl[c].pc = "set" => cl[c].m = md[cl[c].f]

LinkInv == (\A f \in Fid : Counted(f)) /\ \A c \in Client : Locked(c)

-----------------------------------------------------------------------------
(* What a step of a client does to the clients.                            *)
Goes(c, pc, f, m, proc) ==
  /\ cl' \in [Client -> ClType]
  /\ \A b \in Client : b # c => cl'[b] = cl[b]
  /\ cl'[c].pc = pc
  /\ pc \notin Ready =>
       /\ cl'[c].op = cl[c].op /\ cl'[c].to = cl[c].to /\ cl'[c].from = cl[c].from
       /\ cl'[c].f = f /\ cl'[c].m = m /\ cl'[c].proc = proc
       /\ pc # "again" => cl'[c].dist = cl[c].dist

LEMMA IdleType ==
  ASSUME NEW pc \in Ready
  PROVE  [Idle EXCEPT !.pc = pc] \in ClType /\ [Idle EXCEPT !.pc = pc].pc = pc
  BY DEF Idle, ClType, Pc, Count0

LEMMA GotoGoes ==
  ASSUME TypeInv, NEW c \in Client, NEW pc \in Pc, Goto(c, pc)
  PROVE  Goes(c, pc, cl[c].f, cl[c].m, cl[c].proc)
  <1>1. cl[c] \in ClType
    BY DEF TypeInv
  <1>2. CASE pc \in Ready
    <2>1. PICK v \in ClType : v = [Idle EXCEPT !.pc = pc] /\ v.pc = pc
      BY <1>2, IdleType
    <2>2. cl' = [cl EXCEPT ![c] = v]
      BY <1>2, <2>1 DEF Goto
    <2> QED BY <1>2, <2>1, <2>2 DEF Goes, TypeInv
  <1>3. CASE pc \notin Ready
    <2>1. PICK v \in ClType : v = [cl[c] EXCEPT !.pc = pc]
      BY <1>1 DEF ClType
    <2>2. cl' = [cl EXCEPT ![c] = v]
      BY <1>3, <2>1 DEF Goto
    <2>3. /\ v.pc = pc /\ v.op = cl[c].op /\ v.to = cl[c].to /\ v.from = cl[c].from
          /\ v.f = cl[c].f /\ v.m = cl[c].m /\ v.proc = cl[c].proc /\ v.dist = cl[c].dist
      BY <1>1, <2>1 DEF ClType
    <2> QED BY <2>2, <2>3 DEF Goes, TypeInv
  <1> QED BY <1>2, <1>3

LEMMA TakeGoes ==
  ASSUME TypeInv, NEW c \in Client, NEW pc \in Pc, NEW f \in Fid,
         cl' = [cl EXCEPT ![c].f = f, ![c].pc = pc]
  PROVE  Goes(c, pc, f, cl[c].m, cl[c].proc)
  <1>1. cl[c] \in ClType
    BY DEF TypeInv
  <1>2. PICK v \in ClType : v = [cl[c] EXCEPT !.f = f, !.pc = pc]
    BY <1>1, ZenonT(60) DEF ClType
  <1>3. cl' = [cl EXCEPT ![c] = v]
    BY <1>1, <1>2 DEF TypeInv, ClType
  <1>4. /\ v.pc = pc /\ v.op = cl[c].op /\ v.to = cl[c].to /\ v.from = cl[c].from
        /\ v.f = f /\ v.m = cl[c].m /\ v.proc = cl[c].proc /\ v.dist = cl[c].dist
    BY <1>1, <1>2 DEF ClType
  <1> QED BY <1>3, <1>4, ZenonT(60) DEF Goes, TypeInv

LEMMA GetGoes ==
  ASSUME TypeInv, NEW c \in Client, NEW pc \in Pc, NEW m \in Count0,
         cl' = [cl EXCEPT ![c].m = m, ![c].pc = pc]
  PROVE  Goes(c, pc, cl[c].f, m, cl[c].proc)
  <1>1. cl[c] \in ClType
    BY DEF TypeInv
  <1>2. PICK v \in ClType : v = [cl[c] EXCEPT !.m = m, !.pc = pc]
    BY <1>1, ZenonT(60) DEF ClType
  <1>3. cl' = [cl EXCEPT ![c] = v]
    BY <1>1, <1>2 DEF TypeInv, ClType
  <1>4. /\ v.pc = pc /\ v.op = cl[c].op /\ v.to = cl[c].to /\ v.from = cl[c].from
        /\ v.f = cl[c].f /\ v.m = m /\ v.proc = cl[c].proc /\ v.dist = cl[c].dist
    BY <1>1, <1>2 DEF ClType
  <1> QED BY <1>3, <1>4, ZenonT(60) DEF Goes, TypeInv

LEMMA DstGoes ==
  ASSUME TypeInv, NEW c \in Client, NEW f \in Fid \cup {None},
         cl' = [cl EXCEPT ![c].dist = f, ![c].pc = "again"]
  PROVE  Goes(c, "again", cl[c].f, cl[c].m, cl[c].proc) /\ cl'[c].dist = f
  <1>1. cl[c] \in ClType
    BY DEF TypeInv
  <1>p. "again" \in Pc
    BY DEF Pc
  <1>2. PICK v \in ClType : v = [cl[c] EXCEPT !.dist = f, !.pc = "again"]
    BY <1>1, <1>p, ZenonT(60) DEF ClType
  <1>3. cl' = [cl EXCEPT ![c] = v]
    BY <1>1, <1>2 DEF TypeInv, ClType
  <1>4. /\ v.pc = "again" /\ v.op = cl[c].op /\ v.to = cl[c].to /\ v.from = cl[c].from
        /\ v.f = cl[c].f /\ v.m = cl[c].m /\ v.proc = cl[c].proc /\ v.dist = f
    BY <1>1, <1>2 DEF ClType
  <1> QED BY <1>3, <1>4, ZenonT(60) DEF Goes, TypeInv

LEMMA ProcGoes ==
  ASSUME TypeInv, NEW c \in Client, NEW pc \in Pc, NEW p \in {"unlink", "rmdir"},
         cl' = [cl EXCEPT ![c].proc = p, ![c].pc = pc]
  PROVE  Goes(c, pc, cl[c].f, cl[c].m, p)
  <1>1. cl[c] \in ClType
    BY DEF TypeInv
  <1>2. PICK v \in ClType : v = [cl[c] EXCEPT !.proc = p, !.pc = pc]
    BY <1>1, ZenonT(60) DEF ClType
  <1>3. cl' = [cl EXCEPT ![c] = v]
    BY <1>1, <1>2 DEF TypeInv, ClType
  <1>4. /\ v.pc = pc /\ v.op = cl[c].op /\ v.to = cl[c].to /\ v.from = cl[c].from
        /\ v.f = cl[c].f /\ v.m = cl[c].m /\ v.proc = p /\ v.dist = cl[c].dist
    BY <1>1, <1>2 DEF ClType
  <1> QED BY <1>3, <1>4, ZenonT(60) DEF Goes, TypeInv

LEMMA EndGoes ==
  ASSUME TypeInv, NEW c \in Client, End(c)
  PROVE  \/ Goes(c, "done", cl[c].f, cl[c].m, cl[c].proc)
         \/ cl[c].op = "rename" /\ Goes(c, "src", cl[c].f, cl[c].m, "")
  <1>1. cl[c] \in ClType
    BY DEF TypeInv
  <1>2. CASE cl[c].op = "rename" /\ cl[c].proc # ""
    <2>0. "src" \in Pc
      BY DEF Pc
    <2>1. PICK v \in ClType : v = [cl[c] EXCEPT !.pc = "src", !.proc = "", !.try = 2]
      BY <1>1, <2>0, ZenonT(60) DEF ClType
    <2>2. cl' = [cl EXCEPT ![c] = v]
      BY <1>1, <1>2, <2>1 DEF TypeInv, ClType, End
    <2>3. /\ v.pc = "src" /\ v.op = cl[c].op /\ v.to = cl[c].to /\ v.from = cl[c].from
          /\ v.f = cl[c].f /\ v.m = cl[c].m /\ v.proc = "" /\ v.dist = cl[c].dist
      BY <1>1, <2>1 DEF ClType
    <2> QED BY <1>2, <2>2, <2>3 DEF Goes, TypeInv
  <1>3. CASE ~(cl[c].op = "rename" /\ cl[c].proc # "")
    <2>1. "done" \in Pc
      BY DEF Pc, Ready
    <2> QED BY <1>3, <2>1, GotoGoes DEF End
  <1> QED BY <1>2, <1>3

(* A call begins.                                                          *)
Begins(c, op, from, to, f) ==
  /\ cl' \in [Client -> ClType]
  /\ \A b \in Client : b # c => cl'[b] = cl[b]
  /\ cl'[c].op = op /\ cl'[c].from = from /\ cl'[c].to = to /\ cl'[c].f = f
  /\ cl'[c].proc = IF op \in {"unlink", "rmdir"} THEN op ELSE ""
  /\ cl'[c].pc = IF op \in {"create", "mkdir"} THEN "parent"
                 ELSE IF op = "link" THEN "lock" ELSE IF op = "rename" THEN "src" ELSE "lookup"
  /\ UNCHANGED <<kind, md, ents, lock, use>>

LEMMA CallEffect ==
  ASSUME TypeInv, NEW c \in Client, NEW op \in Op, NEW from \in Fid \X Name,
         NEW to \in Fid \X Name, NEW f \in Fid \cup {None}, Call(c, op, from, to, f)
  PROVE  Begins(c, op, from, to, f)
  <1>1. PICK pc \in Pc : pc = CASE op \in {"create", "mkdir"} -> "parent"
                   [] op = "link"                -> "lock"
                   [] op = "rename"              -> "src"
                   [] OTHER                      -> "lookup"
    BY DEF Pc
  <1>2. PICK proc \in {"", "unlink", "rmdir"} :
           proc = IF op \in {"unlink", "rmdir"} THEN op ELSE ""
    OBVIOUS
  <1>3. PICK i \in ClType : i = Idle
    BY DEF Idle, ClType, Pc, Ready, Count0
  <1>a. PICK v \in ClType : v = [i EXCEPT !.op = op, !.from = from, !.to = to, !.f = f,
                                          !.proc = proc, !.pc = pc]
    BY DEF ClType
  <1>4. cl' = [cl EXCEPT ![c] = v]
    BY <1>1, <1>2, <1>3, <1>a DEF Call
  <1>5. /\ v.op = op /\ v.from = from /\ v.to = to /\ v.f = f /\ v.proc = proc /\ v.pc = pc
    BY <1>a DEF ClType
  <1>b. cl' \in [Client -> ClType] /\ cl'[c] = v /\ \A b \in Client : b # c => cl'[b] = cl[b]
    BY <1>a, <1>4 DEF TypeInv
  <1>6. pc = IF op \in {"create", "mkdir"} THEN "parent"
             ELSE IF op = "link" THEN "lock" ELSE IF op = "rename" THEN "src" ELSE "lookup"
    BY <1>1 DEF Op
  <1> QED BY <1>2, <1>5, <1>6, <1>b DEF Begins, Call

(* One entry is written, or all of a hash.                                 *)
Puts(d, n, f) ==
  /\ ents' \in [Fid -> [Name -> Fid \cup {None}]]
  /\ ents'[d][n] = f
  /\ \A e \in Fid, k \in Name : <<e, k>> # <<d, n>> => ents'[e][k] = ents[e][k]

Clears(f) ==
  /\ md' \in [Fid -> Count0] /\ md'[f] = None /\ \A g \in Fid : g # f => md'[g] = md[g]
  /\ ents' \in [Fid -> [Name -> Fid \cup {None}]]
  /\ \A n \in Name : ents'[f][n] = None
  /\ \A d \in Fid, n \in Name : d # f => ents'[d][n] = ents[d][n]

LEMMA PutEffect ==
  ASSUME TypeInv, NEW d \in Fid, NEW n \in Name, NEW f \in Fid \cup {None},
         ents' = [ents EXCEPT ![d][n] = f]
  PROVE  Puts(d, n, f)
  <1>1. PICK r \in [Name -> Fid \cup {None}] : r = [ents[d] EXCEPT ![n] = f]
    BY DEF TypeInv
  <1>2. r[n] = f /\ \A k \in Name : k # n => r[k] = ents[d][k]
    BY <1>1 DEF TypeInv
  <1>3. ents' = [ents EXCEPT ![d] = r]
    BY <1>1 DEF TypeInv
  <1>4. /\ ents' \in [Fid -> [Name -> Fid \cup {None}]] /\ ents'[d] = r
        /\ \A e \in Fid : e # d => ents'[e] = ents[e]
    BY <1>3 DEF TypeInv
  <1>5. ASSUME NEW e \in Fid, NEW k \in Name, <<e, k>> # <<d, n>>
        PROVE  ents'[e][k] = ents[e][k]
    <2>1. e # d \/ k # n
      BY <1>5
    <2> QED BY <1>2, <1>4, <2>1
  <1> QED BY <1>2, <1>4, <1>5 DEF Puts

LEMMA ClearEffect ==
  ASSUME TypeInv, NEW f \in Fid, Deleted(f)
  PROVE  Clears(f)
  <1>1. PICK r \in [Name -> Fid \cup {None}] : r = [n \in Name |-> None]
    OBVIOUS
  <1>2. None \in Count0
    BY DEF Count0
  <1> QED BY <1>1, <1>2 DEF Deleted, Clears, TypeInv

KindKept == \A x \in Fid : kind[x] # "new" => kind'[x] = kind[x]

LEMMA FlowOther ==
  ASSUME TypeInv, NEW b \in Client, Flow(b), cl'[b] = cl[b], use' = use, KindKept
  PROVE  Flow(b)'
  <1>1. cl[b].to \in Fid \X Name /\ kind[cl[b].to[1]] = "dir" /\ cl[b].to[1] \in Fid
    BY DEF Flow
  <1>2. kind'[cl[b].to[1]] = "dir"
    BY <1>1 DEF KindKept
  <1>3. CASE cl[b].pc \in WithFile
    <2>1. cl[b].f \in Fid /\ kind'[cl[b].f] = kind[cl[b].f]
      BY <1>3 DEF Flow, KindKept
    <2> QED BY <1>1, <1>2, <2>1 DEF Flow
  <1>4. CASE cl[b].pc \notin WithFile
    BY <1>1, <1>2, <1>4 DEF Flow, WithFile
  <1> QED BY <1>3, <1>4

LEMMA ShapeStep ==
  ASSUME ShapeInv, NEW c \in Client, cl' \in [Client -> ClType],
         \A b \in Client : b # c => cl'[b] = cl[b], use' = use,
         KindKept, kind' \in [Fid -> {"new", "file", "dir"}],
         md' \in [Fid -> Count0], lock' \in [Fid -> Client \cup {None}],
         ents' \in [Fid -> [Name -> Fid \cup {None}]],
         \A d \in Fid, n \in Name : kind'[d] = "new" => ents'[d][n] = None,
         \A d \in Fid, n \in Name : ents'[d][n] # None => kind'[ents'[d][n]] # "new",
         cl'[c].pc \notin Ready => Flow(c)'
  PROVE  ShapeInv'
  <1>1. TypeInv'
    BY DEF ShapeInv, TypeInv
  <1>2. kind'[Root] = "dir"
    BY NamespaceAssumption DEF ShapeInv, FlowInv, KindKept, Root, Fid
  <1>3. \A b \in Client : cl'[b].pc \notin Ready => Flow(b)'
    BY FlowOther DEF ShapeInv, FlowInv
  <1> QED BY <1>1, <1>2, <1>3 DEF ShapeInv, FlowInv

(* The same where no type of an id and no entry changes.                   *)
LEMMA ShapeGoes ==
  ASSUME ShapeInv, NEW c \in Client, NEW pc, NEW f, NEW m, NEW proc, Goes(c, pc, f, m, proc),
         use' = use, UNCHANGED <<kind, ents>>,
         md' \in [Fid -> Count0], lock' \in [Fid -> Client \cup {None}],
         pc \notin Ready => Flow(c)'
  PROVE  ShapeInv'
  <1>1. KindKept
    BY DEF KindKept
  <1>2. /\ \A d \in Fid, n \in Name : kind'[d] = "new" => ents'[d][n] = None
        /\ \A d \in Fid, n \in Name : ents'[d][n] # None => kind'[ents'[d][n]] # "new"
    BY DEF ShapeInv, FlowInv
  <1> QED BY <1>1, <1>2, ShapeStep DEF Goes, ShapeInv, TypeInv

(* The same where one entry is written.                                    *)
LEMMA ShapePuts ==
  ASSUME ShapeInv, NEW c \in Client, NEW pc, NEW f, NEW m, NEW proc, Goes(c, pc, f, m, proc),
         NEW d \in Fid, NEW n \in Name, NEW g \in Fid \cup {None}, Puts(d, n, g),
         kind[d] = "dir", g # None => kind[g] # "new",
         UNCHANGED <<kind, md, lock, use>>,
         pc \notin Ready => Flow(c)'
  PROVE  ShapeInv'
  <1>1. KindKept
    BY DEF KindKept
  <1>2. ASSUME NEW e \in Fid, NEW k \in Name
        PROVE  /\ kind'[e] = "new" => ents'[e][k] = None
               /\ ents'[e][k] # None => kind'[ents'[e][k]] # "new"
    <2>1. CASE e = d /\ k = n
      BY <2>1 DEF Puts
    <2>2. CASE ~(e = d /\ k = n)
      BY <2>2 DEF Puts, ShapeInv, FlowInv
    <2> QED BY <2>1, <2>2
  <1> QED BY <1>1, <1>2, ShapeStep DEF Goes, ShapeInv, TypeInv, Puts

(* The entry that a client looks at.                                       *)
LEMMA EntryOf ==
  ASSUME ShapeInv, NEW e \in Fid \X Name
  PROVE  /\ Entry(e) \in Fid \cup {None}
         /\ Entry(e) # None => Entry(e) \in Fid /\ kind[Entry(e)] # "new"
         /\ e[1] \in Fid /\ e[2] \in Name
  BY DEF ShapeInv, TypeInv, FlowInv, Entry

(* The count that is written under the lock.                               *)
LEMMA SetEffect ==
  ASSUME TypeInv, NEW c \in Client, Set(c), cl[c].f \in Fid
  PROVE  /\ md' \in [Fid -> Count0] /\ \A g \in Fid : g # cl[c].f => md'[g] = md[g]
         /\ cl[c].m \in {None, Empty} => md'[cl[c].f] = Empty
         /\ cl[c].m \notin {None, Empty} =>
              /\ cl[c].m \in Int
              /\ md'[cl[c].f] = cl[c].m + (IF cl[c].op = "link" THEN 1 ELSE -1)
  <1>1. cl[c].m \in Count0
    BY DEF TypeInv, ClType
  <1>2. PICK k \in Count0 : k = IF cl[c].m \in {None, Empty} THEN Empty
                                ELSE cl[c].m + (IF cl[c].op = "link" THEN 1 ELSE -1)
    <2>1. CASE cl[c].m \in {None, Empty}
      BY <2>1 DEF Count0
    <2>2. CASE cl[c].m \notin {None, Empty}
      <3>1. cl[c].m \in Int
        BY <1>1, <2>2 DEF Count0
      <3>2. cl[c].m + 1 \in Count0 /\ cl[c].m + (-1) \in Count0
        BY <3>1 DEF Count0
      <3> QED BY <2>2, <3>2
    <2> QED BY <2>1, <2>2
  <1>3. md' = [md EXCEPT ![cl[c].f] = k]
    BY <1>2 DEF Set
  <1>4. cl[c].m \notin {None, Empty} => cl[c].m \in Int
    BY <1>1 DEF Count0
  <1> QED BY <1>2, <1>3, <1>4 DEF TypeInv

LEMMA FlowOf ==
  ASSUME ShapeInv, NEW c \in Client, cl[c].pc \notin Ready
  PROVE  /\ Flow(c) /\ cl[c].to \in Fid \X Name /\ cl[c].to[1] \in Fid /\ cl[c].to[2] \in Name
         /\ cl[c].f \in Fid \cup {None} /\ TypeInv
  BY DEF ShapeInv, FlowInv, Flow, TypeInv, ClType

LEMMA ShapeClient ==
  ASSUME ShapeInv, NEW c \in Client, Step(c)
  PROVE  ShapeInv'
  <1>a. TypeInv
    BY DEF ShapeInv
  <1>1. CASE Parent(c)
    <2>1. cl[c].pc = "parent" /\ cl[c].pc \notin Ready
      BY <1>1 DEF Parent, Ready
    <2>2. Flow(c)
      BY <2>1, FlowOf
    <2>3. PICK pc \in Pc : pc \in {"abort", "inode"} /\ Goto(c, pc)
      BY <1>1 DEF Parent, Pc, Ready
    <2>4. Goes(c, pc, cl[c].f, cl[c].m, cl[c].proc)
      BY <1>a, <2>3, GotoGoes
    <2>5. pc \notin Ready => Flow(c)'
      BY <1>1, <2>1, <2>2, <2>3, <2>4 DEF Parent, Flow, Goes, WithFile, Ready
    <2> QED BY <1>1, <2>4, <2>5, ShapeGoes DEF Parent, ShapeInv, TypeInv
  <1>2. CASE Count(c)
    <2>1. cl[c].pc = "count" /\ cl[c].pc \notin Ready
      BY <1>2 DEF Count, Ready
    <2>2. Flow(c)
      BY <2>1, FlowOf
    <2>3. PICK pc \in Pc : pc \in {"kdel", "failed"} /\ Goto(c, pc) /\ (pc = "kdel" => kind[cl[c].f] = "dir")
      BY <1>2 DEF Count, Pc, Ready
    <2>4. Goes(c, pc, cl[c].f, cl[c].m, cl[c].proc)
      BY <1>a, <2>3, GotoGoes
    <2>5. pc \notin Ready => Flow(c)'
      BY <1>2, <2>1, <2>2, <2>3, <2>4 DEF Count, Flow, Goes, WithFile, Ready
    <2> QED BY <1>2, <2>4, <2>5, ShapeGoes DEF Count, ShapeInv, TypeInv
  <1>3. CASE Src(c)
    <2>1. cl[c].pc = "src" /\ cl[c].pc \notin Ready
      BY <1>3 DEF Src, Ready
    <2>2. Flow(c)
      BY <2>1, FlowOf
    <2>3. PICK pc \in Pc : pc \in {"failed", "dst"} /\ Goto(c, pc)
      BY <1>3 DEF Src, Pc, Ready
    <2>4. Goes(c, pc, cl[c].f, cl[c].m, cl[c].proc)
      BY <1>a, <2>3, GotoGoes
    <2>5. pc \notin Ready => Flow(c)'
      BY <1>3, <2>1, <2>2, <2>3, <2>4 DEF Src, Flow, Goes, WithFile, Ready
    <2> QED BY <1>3, <2>4, <2>5, ShapeGoes DEF Src, ShapeInv, TypeInv
  <1>4. CASE ToAttr(c)
    <2>1. cl[c].pc = "toattr" /\ cl[c].pc \notin Ready
      BY <1>4 DEF ToAttr, Ready
    <2>2. Flow(c)
      BY <2>1, FlowOf
    <2>3. PICK pc \in Pc : pc \in {"childcount", "lookup", "failed"} /\ Goto(c, pc)
      BY <1>4 DEF ToAttr, Pc, Ready
    <2>4. Goes(c, pc, cl[c].f, cl[c].m, cl[c].proc)
      BY <1>a, <2>3, GotoGoes
    <2>5. pc \notin Ready => Flow(c)'
      BY <1>4, <2>1, <2>2, <2>3, <2>4 DEF ToAttr, Flow, Goes, WithFile, Ready
    <2> QED BY <1>4, <2>4, <2>5, ShapeGoes DEF ToAttr, ShapeInv, TypeInv
  <1>5. CASE ChildCount(c)
    <2>1. cl[c].pc = "childcount" /\ cl[c].pc \notin Ready
      BY <1>5 DEF ChildCount, Ready
    <2>2. Flow(c)
      BY <2>1, FlowOf
    <2>3. PICK pc \in Pc : pc \in {"lookup", "failed"} /\ Goto(c, pc)
      BY <1>5 DEF ChildCount, Pc, Ready
    <2>4. Goes(c, pc, cl[c].f, cl[c].m, cl[c].proc)
      BY <1>a, <2>3, GotoGoes
    <2>5. pc \notin Ready => Flow(c)'
      BY <1>5, <2>1, <2>2, <2>3, <2>4 DEF ChildCount, Flow, Goes, WithFile, Ready
    <2> QED BY <1>5, <2>4, <2>5, ShapeGoes DEF ChildCount, ShapeInv, TypeInv
  <1>6. CASE Again(c)
    <2>1. cl[c].pc = "again" /\ cl[c].pc \notin Ready
      BY <1>6 DEF Again, Ready
    <2>2. Flow(c) /\ cl[c].from \in Fid \X Name
      BY <2>1, FlowOf DEF Flow
    <2>3. "failed" \in Pc /\ "failed" \in Ready /\ "newrec" \in Pc
      BY DEF Pc, Ready
    <2>4. CASE Entry(cl[c].from) = None
      <3>1. Goes(c, "failed", cl[c].f, cl[c].m, cl[c].proc)
        BY <1>a, <1>6, <2>3, <2>4, GotoGoes DEF Again
      <3> QED BY <1>6, <2>3, <3>1, ShapeGoes DEF Again, ShapeInv, TypeInv
    <2>5. CASE Entry(cl[c].from) # None
      <3>1. PICK f \in Fid : f = Entry(cl[c].from) /\ kind[f] # "new"
        BY <2>2, <2>5, EntryOf
      <3>2. cl' = [cl EXCEPT ![c].f = f, ![c].pc = "newrec"]
        BY <1>6, <2>5, <3>1 DEF Again
      <3>3. Goes(c, "newrec", f, cl[c].m, cl[c].proc)
        BY <1>a, <2>3, <3>2, TakeGoes
      <3>4. Flow(c)'
        BY <1>6, <2>1, <2>2, <3>1, <3>3 DEF Again, Flow, Goes, WithFile, Ready
      <3> QED BY <1>6, <3>3, <3>4, ShapeGoes DEF Again, ShapeInv, TypeInv
    <2> QED BY <2>4, <2>5
  <1>7. CASE From(c)
    <2>1. cl[c].pc = "from" /\ cl[c].pc \notin Ready
      BY <1>7 DEF From, Ready
    <2>2. Flow(c) /\ cl[c].from \in Fid \X Name
      BY <2>1, FlowOf DEF Flow
    <2>3. "failed" \in Pc /\ "failed" \in Ready /\ "fromattr" \in Pc
      BY DEF Pc, Ready
    <2>4. CASE Entry(cl[c].from) = None
      <3>1. Goes(c, "failed", cl[c].f, cl[c].m, cl[c].proc)
        BY <1>a, <1>7, <2>3, <2>4, GotoGoes DEF From
      <3> QED BY <1>7, <2>3, <3>1, ShapeGoes DEF From, ShapeInv, TypeInv
    <2>5. CASE Entry(cl[c].from) # None
      <3>1. PICK f \in Fid : f = Entry(cl[c].from) /\ kind[f] # "new"
        BY <2>2, <2>5, EntryOf
      <3>2. cl' = [cl EXCEPT ![c].f = f, ![c].pc = "fromattr"]
        BY <1>7, <2>5, <3>1 DEF From
      <3>3. Goes(c, "fromattr", f, cl[c].m, cl[c].proc)
        BY <1>a, <2>3, <3>2, TakeGoes
      <3>4. Flow(c)'
        BY <1>7, <2>1, <2>2, <3>1, <3>3 DEF From, Flow, Goes, WithFile, Ready
      <3> QED BY <1>7, <3>3, <3>4, ShapeGoes DEF From, ShapeInv, TypeInv
    <2> QED BY <2>4, <2>5
  <1>8. CASE To(c)
    <2>1. cl[c].pc = "to" /\ cl[c].pc \notin Ready
      BY <1>8 DEF To, Ready
    <2>2. Flow(c) /\ cl[c].to \in Fid \X Name
      BY <2>1, FlowOf DEF Flow
    <2>3. "failed" \in Pc /\ "failed" \in Ready /\ "toattr" \in Pc
      BY DEF Pc, Ready
    <2>4. CASE Entry(cl[c].to) = None
      <3>1. Goes(c, "failed", cl[c].f, cl[c].m, cl[c].proc)
        BY <1>a, <1>8, <2>3, <2>4, GotoGoes DEF To
      <3> QED BY <1>8, <2>3, <3>1, ShapeGoes DEF To, ShapeInv, TypeInv
    <2>5. CASE Entry(cl[c].to) # None
      <3>1. PICK f \in Fid : f = Entry(cl[c].to) /\ kind[f] # "new"
        BY <2>2, <2>5, EntryOf
      <3>2. cl' = [cl EXCEPT ![c].f = f, ![c].pc = "toattr"]
        BY <1>8, <2>5, <3>1 DEF To
      <3>3. Goes(c, "toattr", f, cl[c].m, cl[c].proc)
        BY <1>a, <2>3, <3>2, TakeGoes
      <3>4. Flow(c)'
        BY <1>8, <2>1, <2>2, <3>1, <3>3 DEF To, Flow, Goes, WithFile, Ready
      <3> QED BY <1>8, <3>3, <3>4, ShapeGoes DEF To, ShapeInv, TypeInv
    <2> QED BY <2>4, <2>5
  <1>9. CASE Lookup(c)
    <2>1. cl[c].pc = "lookup" /\ cl[c].pc \notin Ready
      BY <1>9 DEF Lookup, Ready
    <2>2. Flow(c) /\ cl[c].to \in Fid \X Name
      BY <2>1, FlowOf DEF Flow
    <2>3. "failed" \in Pc /\ "failed" \in Ready
      BY DEF Pc, Ready
    <2>4. CASE Entry(cl[c].to) = None
      <3>1. Goes(c, "failed", cl[c].f, cl[c].m, cl[c].proc)
        BY <1>a, <1>9, <2>3, <2>4, GotoGoes DEF Lookup
      <3> QED BY <1>9, <2>3, <3>1, ShapeGoes DEF Lookup, ShapeInv, TypeInv
    <2>5. CASE Entry(cl[c].to) # None
      <3>1. PICK f \in Fid : f = Entry(cl[c].to) /\ kind[f] # "new"
        BY <2>2, <2>5, EntryOf
      <3>2. PICK pc \in Pc : pc = IF cl[c].proc = "rmdir" THEN "count"
                                  ELSE IF kind[f] = "dir" THEN "get" ELSE "lock"
        BY DEF Pc
      <3>3. cl' = [cl EXCEPT ![c].f = f, ![c].pc = pc]
        BY <1>9, <2>5, <3>1, <3>2 DEF Lookup
      <3>4. Goes(c, pc, f, cl[c].m, cl[c].proc)
        BY <1>a, <3>3, TakeGoes
      <3>5. kind[f] \in {"file", "dir"}
        BY <3>1 DEF ShapeInv, TypeInv
      <3>6. Flow(c)'
        BY <1>9, <2>1, <2>2, <3>1, <3>2, <3>4, <3>5 DEF Lookup, Flow, Goes, WithFile, Ready
      <3> QED BY <1>9, <3>4, <3>6, ShapeGoes DEF Lookup, ShapeInv, TypeInv
    <2> QED BY <2>4, <2>5
  <1>10. CASE Inode(c)
    <2>1. cl[c].pc = "inode" /\ cl[c].pc \notin Ready
      BY <1>10 DEF Inode, Ready
    <2>2. Flow(c)
      BY <2>1, FlowOf
    <2>3. PICK f \in Fid :
            /\ kind[f] = "new"
            /\ kind' = [kind EXCEPT ![f] = IF cl[c].op = "mkdir" THEN "dir" ELSE "file"]
            /\ md' = [md EXCEPT ![f] = 1]
            /\ cl' = [cl EXCEPT ![c].f = f, ![c].pc = "newrec"]
      BY <1>10 DEF Inode
    <2>4. "newrec" \in Pc /\ 1 \in Count0
      BY DEF Pc, Count0
    <2>5. Goes(c, "newrec", f, cl[c].m, cl[c].proc)
      BY <1>a, <2>3, <2>4, TakeGoes
    <2>6. /\ kind' \in [Fid -> {"new", "file", "dir"}]
          /\ kind'[f] = IF cl[c].op = "mkdir" THEN "dir" ELSE "file"
          /\ \A g \in Fid : g # f => kind'[g] = kind[g]
          /\ md' \in [Fid -> Count0]
      BY <1>a, <2>3, <2>4 DEF TypeInv
    <2>7. KindKept
      BY <2>3, <2>6 DEF KindKept
    <2>8. cl[c].to[1] \in Fid
      BY <2>1, FlowOf
    <2>9. Flow(c)'
      BY <1>10, <2>1, <2>2, <2>5, <2>6, <2>7, <2>8
         DEF Inode, Flow, Goes, WithFile, Ready, KindKept
    <2>10. /\ \A d \in Fid, n \in Name : kind'[d] = "new" => ents'[d][n] = None
           /\ \A d \in Fid, n \in Name : ents'[d][n] # None => kind'[ents'[d][n]] # "new"
      BY <1>10, <2>6 DEF Inode, ShapeInv, FlowInv, TypeInv
    <2> QED BY <1>10, <2>5, <2>6, <2>7, <2>9, <2>10, ShapeStep DEF Inode, Goes, ShapeInv, TypeInv
  <1>11. CASE Newrec(c)
    <2>1. cl[c].pc = "newrec" /\ cl[c].pc \notin Ready
      BY <1>11 DEF Newrec, Ready
    <2>2. /\ Flow(c) /\ cl[c].to[1] \in Fid /\ cl[c].to[2] \in Name /\ cl[c].f \in Fid
          /\ kind[cl[c].f] # "new" /\ kind[cl[c].to[1]] = "dir"
      BY <2>1, FlowOf DEF Flow, WithFile
    <2>3. CASE Entry(cl[c].to) = None
      <3>1. Puts(cl[c].to[1], cl[c].to[2], cl[c].f)
        BY <1>a, <1>11, <2>2, <2>3, PutEffect DEF Newrec
      <3>2. PICK pc \in Pc : pc = (IF cl[c].op = "rename" THEN "delsrc" ELSE "done")
        BY DEF Pc, Ready
      <3>3. Goes(c, pc, cl[c].f, cl[c].m, cl[c].proc)
        BY <1>a, <1>11, <2>3, <3>2, GotoGoes DEF Newrec
      <3>4. pc \notin Ready => Flow(c)'
        BY <1>11, <2>1, <2>2, <3>2, <3>3 DEF Newrec, Flow, Goes, WithFile, Ready
      <3> QED BY <1>11, <2>2, <3>1, <3>3, <3>4, ShapePuts DEF Newrec
    <2>4. CASE Entry(cl[c].to) # None
      <3>1. PICK pc \in Pc :
              /\ Goto(c, pc)
              /\ \/ pc = "lock" /\ cl[c].op = "create"
                 \/ pc = "kdel" /\ cl[c].op = "mkdir"
                 \/ pc = "from" /\ cl[c].op = "rename"
                 \/ pc = "failed"
        BY <1>11, <2>4 DEF Newrec, Pc, Ready
      <3>2. Goes(c, pc, cl[c].f, cl[c].m, cl[c].proc)
        BY <1>a, <3>1, GotoGoes
      <3>3. pc \notin Ready => Flow(c)'
        BY <1>11, <2>1, <2>2, <3>1, <3>2 DEF Newrec, Flow, Goes, WithFile, Ready
      <3> QED BY <1>11, <2>4, <3>2, <3>3, ShapeGoes DEF Newrec, ShapeInv, TypeInv
    <2> QED BY <2>3, <2>4
  <1>12. CASE Kdel(c)
    <2>1. cl[c].pc = "kdel" /\ cl[c].pc \notin Ready
      BY <1>12 DEF Kdel, Ready
    <2>2. Flow(c) /\ cl[c].f \in Fid /\ kind[cl[c].f] = "dir"
      BY <2>1, FlowOf DEF Flow, WithFile
    <2>3. Clears(cl[c].f)
      BY <1>a, <1>12, <2>2, ClearEffect DEF Kdel
    <2>4. PICK pc \in Pc : pc = (IF cl[c].op = "mkdir" THEN "failed" ELSE "hdel")
      BY DEF Pc, Ready
    <2>5. Goes(c, pc, cl[c].f, cl[c].m, cl[c].proc)
      BY <1>a, <1>12, <2>4, GotoGoes DEF Kdel
    <2>6. pc \notin Ready => Flow(c)'
      BY <1>12, <2>1, <2>2, <2>4, <2>5 DEF Kdel, Flow, Goes, WithFile, Ready
    <2>7. KindKept
      BY <1>12 DEF Kdel, KindKept
    <2>8. \A d \in Fid, n \in Name : ents'[d][n] = None \/ ents'[d][n] = ents[d][n]
      BY <2>2, <2>3 DEF Clears
    <2>9. /\ \A d \in Fid, n \in Name : kind'[d] = "new" => ents'[d][n] = None
          /\ \A d \in Fid, n \in Name : ents'[d][n] # None => kind'[ents'[d][n]] # "new"
      BY <1>12, <2>8 DEF Kdel, ShapeInv, FlowInv
    <2> QED BY <1>12, <2>3, <2>5, <2>6, <2>7, <2>9, ShapeStep
            DEF Kdel, Goes, Clears, ShapeInv, TypeInv
  <1>13. CASE Lock(c)
    <2>1. cl[c].pc = "lock" /\ cl[c].pc \notin Ready
      BY <1>13 DEF Lock, Ready
    <2>2. Flow(c) /\ cl[c].f \in Fid
      BY <2>1, FlowOf DEF Flow, WithFile
    <2>3. "get" \in Pc
      BY DEF Pc
    <2>4. Goes(c, "get", cl[c].f, cl[c].m, cl[c].proc)
      BY <1>a, <1>13, <2>3, GotoGoes DEF Lock
    <2>5. Flow(c)'
      BY <1>13, <2>1, <2>2, <2>4 DEF Lock, Flow, Goes, WithFile, Ready
    <2>6. lock' \in [Fid -> Client \cup {None}]
      BY <1>a, <1>13, <2>2 DEF Lock, TypeInv
    <2> QED BY <1>13, <2>4, <2>5, <2>6, ShapeGoes DEF Lock, ShapeInv, TypeInv
  <1>14. CASE Get(c)
    <2>1. cl[c].pc = "get" /\ cl[c].pc \notin Ready
      BY <1>14 DEF Get, Ready
    <2>2. Flow(c) /\ cl[c].f \in Fid /\ kind[cl[c].f] \in {"file", "dir"}
      BY <2>1, FlowOf DEF Flow, WithFile, TypeInv
    <2>3. PICK m \in Count0 : m = md[cl[c].f]
      BY <1>a, <2>2 DEF TypeInv
    <2>4. PICK pc \in Pc : pc = IF kind[cl[c].f] = "dir" THEN "kdel" ELSE "set"
      BY DEF Pc
    <2>5. Goes(c, pc, cl[c].f, m, cl[c].proc)
      BY <1>a, <1>14, <2>3, <2>4, GetGoes DEF Get
    <2>6. cl[c].op \in Op
      BY <1>a, <2>2, NamespaceAssumption DEF Flow, TypeInv, Use
    <2>7. Flow(c)'
      BY <1>14, <2>1, <2>2, <2>4, <2>5, <2>6 DEF Get, Flow, Goes, WithFile, Ready, Op
    <2> QED BY <1>14, <2>5, <2>7, ShapeGoes DEF Get, ShapeInv, TypeInv
  <1>15. CASE Set(c)
    <2>1. cl[c].pc = "set" /\ cl[c].pc \notin Ready
      BY <1>15 DEF Set, Ready
    <2>2. Flow(c) /\ cl[c].f \in Fid
      BY <2>1, FlowOf DEF Flow, WithFile
    <2>3. "unlock" \in Pc
      BY DEF Pc
    <2>4. Goes(c, "unlock", cl[c].f, cl[c].m, cl[c].proc)
      BY <1>a, <1>15, <2>3, GotoGoes DEF Set
    <2>5. Flow(c)'
      BY <1>15, <2>1, <2>2, <2>4 DEF Set, Flow, Goes, WithFile, Ready
    <2>6. md' \in [Fid -> Count0]
      BY <1>15, <2>2, SetEffect DEF ShapeInv
    <2> QED BY <1>15, <2>4, <2>5, <2>6, ShapeGoes DEF Set, ShapeInv, TypeInv
  <1>16. CASE Unlock(c)
    <2>1. cl[c].pc = "unlock" /\ cl[c].pc \notin Ready
      BY <1>16 DEF Unlock, Ready
    <2>2. Flow(c) /\ cl[c].f \in Fid
      BY <2>1, FlowOf DEF Flow, WithFile
    <2>3. PICK pc \in Pc :
            /\ Goto(c, pc)
            /\ \/ pc = "failed"
               \/ pc = "newrec" /\ cl[c].op = "link"
               \/ pc = "hdel" /\ cl[c].op \notin {"create", "link"}
      BY <1>16 DEF Unlock, Pc, Ready
    <2>4. Goes(c, pc, cl[c].f, cl[c].m, cl[c].proc)
      BY <1>a, <2>3, GotoGoes
    <2>5. cl[c].op \in Op
      BY <1>a, <2>2, NamespaceAssumption DEF Flow, TypeInv, Use
    <2>6. pc \notin Ready => Flow(c)'
      BY <1>16, <2>1, <2>2, <2>3, <2>4, <2>5 DEF Unlock, Flow, Goes, WithFile, Ready, Op
    <2>7. lock' \in [Fid -> Client \cup {None}]
      BY <1>a, <1>16, <2>2 DEF Unlock, TypeInv
    <2> QED BY <1>16, <2>4, <2>6, <2>7, ShapeGoes DEF Unlock, ShapeInv, TypeInv
  <1>17. CASE Hdel(c)
    <2>1. cl[c].pc = "hdel" /\ cl[c].pc \notin Ready
      BY <1>17 DEF Hdel, Ready
    <2>2. /\ Flow(c) /\ cl[c].f \in Fid /\ cl[c].to[1] \in Fid /\ cl[c].to[2] \in Name
          /\ kind[cl[c].to[1]] = "dir"
      BY <2>1, FlowOf DEF Flow, WithFile
    <2>3. {"failed", "remove", "done", "src"} \subseteq Pc /\ "failed" \in Ready /\ "done" \in Ready
      BY DEF Pc, Ready
    <2>4. CASE Entry(cl[c].to) = None
      <3>1. Goes(c, "failed", cl[c].f, cl[c].m, cl[c].proc)
        BY <1>a, <1>17, <2>3, <2>4, GotoGoes DEF Hdel
      <3> QED BY <1>17, <2>3, <2>4, <3>1, ShapeGoes DEF Hdel, ShapeInv, TypeInv
    <2>5. CASE Entry(cl[c].to) # None
      <3>1. None \in Fid \cup {None}
        OBVIOUS
      <3>2. Puts(cl[c].to[1], cl[c].to[2], None)
        BY <1>a, <1>17, <2>2, <2>5, <3>1, PutEffect DEF Hdel
      <3>3. CASE kind[cl[c].f] = "file" /\ Goto(c, "remove")
        <4>1. Goes(c, "remove", cl[c].f, cl[c].m, cl[c].proc)
          BY <1>a, <2>3, <3>3, GotoGoes
        <4>2. Flow(c)'
          BY <1>17, <2>1, <2>2, <3>3, <4>1 DEF Hdel, Flow, Goes, WithFile, Ready
        <4> QED BY <1>17, <2>2, <3>1, <3>2, <4>1, <4>2, ShapePuts DEF Hdel
      <3>4. CASE End(c)
        <4>1. CASE Goes(c, "done", cl[c].f, cl[c].m, cl[c].proc)
          BY <1>17, <2>2, <2>3, <3>1, <3>2, <4>1, ShapePuts DEF Hdel
        <4>2. CASE cl[c].op = "rename" /\ Goes(c, "src", cl[c].f, cl[c].m, "")
          <5>1. Flow(c)'
            BY <1>17, <2>1, <2>2, <4>2 DEF Hdel, Flow, Goes, WithFile, Ready
          <5> QED BY <1>17, <2>2, <3>1, <3>2, <4>2, <5>1, ShapePuts DEF Hdel
        <4> QED BY <1>a, <3>4, <4>1, <4>2, EndGoes
      <3> QED BY <1>17, <2>5, <3>3, <3>4 DEF Hdel
    <2> QED BY <2>4, <2>5
  <1>18. CASE Remove(c)
    <2>1. cl[c].pc = "remove" /\ cl[c].pc \notin Ready
      BY <1>18 DEF Remove, Ready
    <2>2. Flow(c) /\ cl[c].f \in Fid /\ kind[cl[c].f] = "file"
      BY <2>1, FlowOf DEF Flow, WithFile
    <2>3. Clears(cl[c].f)
      BY <1>a, <1>18, <2>2, ClearEffect DEF Remove
    <2>4. KindKept
      BY <1>18 DEF Remove, KindKept
    <2>5. \A d \in Fid, n \in Name : ents'[d][n] = None \/ ents'[d][n] = ents[d][n]
      BY <2>2, <2>3 DEF Clears
    <2>6. /\ \A d \in Fid, n \in Name : kind'[d] = "new" => ents'[d][n] = None
          /\ \A d \in Fid, n \in Name : ents'[d][n] # None => kind'[ents'[d][n]] # "new"
      BY <1>18, <2>5 DEF Remove, ShapeInv, FlowInv
    <2>7. CASE Goes(c, "done", cl[c].f, cl[c].m, cl[c].proc)
      <3>1. cl'[c].pc \in Ready
        BY <2>7 DEF Goes, Ready
      <3> QED BY <1>18, <2>3, <2>4, <2>6, <2>7, <3>1, ShapeStep
              DEF Remove, Goes, Clears, ShapeInv, TypeInv
    <2>8. CASE cl[c].op = "rename" /\ Goes(c, "src", cl[c].f, cl[c].m, "")
      <3>1. Flow(c)'
        BY <1>18, <2>1, <2>2, <2>8 DEF Remove, Flow, Goes, WithFile, Ready
      <3> QED BY <1>18, <2>3, <2>4, <2>6, <2>8, <3>1, ShapeStep
              DEF Remove, Goes, Clears, ShapeInv, TypeInv
    <2> QED BY <1>a, <1>18, <2>7, <2>8, EndGoes DEF Remove
  <1>19. CASE Dst(c)
    <2>1. cl[c].pc = "dst" /\ cl[c].pc \notin Ready
      BY <1>19 DEF Dst, Ready
    <2>2. Flow(c) /\ cl[c].to \in Fid \X Name
      BY <2>1, FlowOf
    <2>3. "again" \in Pc
      BY DEF Pc
    <2>4. PICK f \in Fid \cup {None} : f = Entry(cl[c].to)
      BY <2>2, EntryOf
    <2>5. Goes(c, "again", cl[c].f, cl[c].m, cl[c].proc)
      BY <1>a, <1>19, <2>4, DstGoes DEF Dst
    <2>6. Flow(c)'
      BY <1>19, <2>1, <2>2, <2>5 DEF Dst, Flow, Goes, WithFile, Ready
    <2> QED BY <1>19, <2>5, <2>6, ShapeGoes DEF Dst, ShapeInv, TypeInv
  <1>20. CASE FromAttr(c)
    <2>1. cl[c].pc = "fromattr" /\ cl[c].pc \notin Ready
      BY <1>20 DEF FromAttr, Ready
    <2>2. Flow(c)
      BY <2>1, FlowOf
    <2>3. "to" \in Pc
      BY DEF Pc
    <2>4. PICK p \in {"unlink", "rmdir"} : p = IF IsDir(cl[c].f) THEN "rmdir" ELSE "unlink"
      OBVIOUS
    <2>5. Goes(c, "to", cl[c].f, cl[c].m, p)
      BY <1>a, <1>20, <2>3, <2>4, ProcGoes DEF FromAttr
    <2>6. Flow(c)'
      BY <1>20, <2>1, <2>2, <2>5 DEF FromAttr, Flow, Goes, WithFile, Ready
    <2> QED BY <1>20, <2>5, <2>6, ShapeGoes DEF FromAttr, ShapeInv, TypeInv
  <1>21. CASE DelSrc(c)
    <2>1. cl[c].pc = "delsrc" /\ cl[c].pc \notin Ready
      BY <1>21 DEF DelSrc, Ready
    <2>2. /\ Flow(c) /\ cl[c].from \in Fid \X Name
          /\ cl[c].from[1] \in Fid /\ cl[c].from[2] \in Name
      BY <2>1, FlowOf DEF Flow
    <2>3. {"failed", "remove", "done"} \subseteq Pc /\ "failed" \in Ready /\ "done" \in Ready
      BY DEF Pc, Ready
    <2>4. CASE Entry(cl[c].from) = None
      <3>1. Goes(c, "failed", cl[c].f, cl[c].m, cl[c].proc)
        BY <1>a, <1>21, <2>3, <2>4, GotoGoes DEF DelSrc
      <3> QED BY <1>21, <2>3, <2>4, <3>1, ShapeGoes DEF DelSrc, ShapeInv, TypeInv
    <2>5. CASE Entry(cl[c].from) # None
      <3>1. None \in Fid \cup {None}
        OBVIOUS
      <3>2. Puts(cl[c].from[1], cl[c].from[2], None)
        BY <1>a, <1>21, <2>2, <2>5, <3>1, PutEffect DEF DelSrc
      <3>3. KindKept
        BY <1>21 DEF DelSrc, KindKept
      <3>4. \A d \in Fid, n \in Name : ents'[d][n] = None \/ ents'[d][n] = ents[d][n]
        BY <2>2, <3>2 DEF Puts
      <3>5. /\ \A d \in Fid, n \in Name : kind'[d] = "new" => ents'[d][n] = None
            /\ \A d \in Fid, n \in Name : ents'[d][n] # None => kind'[ents'[d][n]] # "new"
        BY <1>21, <3>4 DEF DelSrc, ShapeInv, FlowInv
      <3>6. CASE cl[c].dist # None /\ kind[cl[c].dist] = "file"
        <4>1. PICK f \in Fid : f = cl[c].dist
          BY <1>a, <3>6 DEF TypeInv, ClType
        <4>2. cl' = [cl EXCEPT ![c].f = f, ![c].pc = "remove"]
          BY <1>21, <2>5, <3>6, <4>1 DEF DelSrc
        <4>3. Goes(c, "remove", f, cl[c].m, cl[c].proc)
          BY <1>a, <2>3, <4>2, TakeGoes
        <4>4. Flow(c)'
          BY <1>21, <2>1, <2>2, <3>6, <4>1, <4>3 DEF DelSrc, Flow, Goes, WithFile, Ready
        <4> QED BY <1>21, <3>2, <3>3, <3>5, <4>3, <4>4, ShapeStep
                DEF DelSrc, Goes, Puts, ShapeInv, TypeInv
      <3>7. CASE ~(cl[c].dist # None /\ kind[cl[c].dist] = "file")
        <4>1. Goes(c, "done", cl[c].f, cl[c].m, cl[c].proc)
          BY <1>a, <1>21, <2>3, <2>5, <3>7, GotoGoes DEF DelSrc
        <4>2. cl'[c].pc \in Ready
          BY <4>1 DEF Goes, Ready
        <4> QED BY <1>21, <3>2, <3>3, <3>5, <4>1, <4>2, ShapeStep
                DEF DelSrc, Goes, Puts, ShapeInv, TypeInv
      <3> QED BY <3>6, <3>7
    <2> QED BY <2>4, <2>5
  <1> QED
    BY <1>1, <1>2, <1>3, <1>4, <1>5, <1>6, <1>7, <1>8, <1>9, <1>10, <1>11, <1>12, <1>13,
       <1>14, <1>15, <1>16, <1>17, <1>18, <1>19, <1>20, <1>21 DEF Step

LEMMA ShapeCall ==
  ASSUME ShapeInv, NEW c \in Client, NEW op \in use.ops, NEW to \in Place,
         NEW from \in Place, NEW f \in Fid \cup {None}, op = "link" => f \in Linkable,
         Call(c, op, from, to, f)
  PROVE  ShapeInv' /\ Begins(c, op, from, to, f)
  <1>1. op \in Op /\ to \in Fid \X Name /\ from \in Fid \X Name /\ kind[to[1]] = "dir"
    BY NamespaceAssumption DEF ShapeInv, TypeInv, Use, Place
  <1>2. Begins(c, op, from, to, f)
    BY <1>1, CallEffect DEF ShapeInv
  <1>3. op = "link" => f \in Fid /\ kind[f] = "file"
    BY DEF Linkable
  <1>4. Flow(c)'
    BY <1>1, <1>2, <1>3 DEF Flow, Begins, WithFile, Op
  <1>5. KindKept
    BY <1>2 DEF Begins, KindKept
  <1>6. /\ \A d \in Fid, n \in Name : kind'[d] = "new" => ents'[d][n] = None
        /\ \A d \in Fid, n \in Name : ents'[d][n] # None => kind'[ents'[d][n]] # "new"
    BY <1>2 DEF Begins, ShapeInv, FlowInv
  <1>7. ShapeInv'
    BY <1>2, <1>4, <1>5, <1>6, ShapeStep DEF Begins, ShapeInv, TypeInv
  <1> QED BY <1>2, <1>7

LEMMA ShapeCrash ==
  ASSUME ShapeInv, NEW c \in Client, Crash(c)
  PROVE  ShapeInv' /\ Goes(c, "failed", cl[c].f, cl[c].m, cl[c].proc)
  <1>1. "failed" \in Pc /\ "failed" \in Ready
    BY DEF Pc, Ready
  <1>2. Goes(c, "failed", cl[c].f, cl[c].m, cl[c].proc)
    BY <1>1, GotoGoes DEF Crash, ShapeInv
  <1> QED BY <1>1, <1>2, ShapeGoes DEF Crash, ShapeInv, TypeInv

LEMMA ShapeExpire ==
  ASSUME ShapeInv, NEW f \in Fid, LockExpire(f)
  PROVE  ShapeInv'
  <1>1. UNCHANGED <<kind, md, ents, cl, use>> /\ lock' \in [Fid -> Client \cup {None}]
    BY DEF LockExpire, ShapeInv, TypeInv
  <1> QED BY <1>1 DEF ShapeInv, TypeInv, FlowInv, Flow

(* The calls that Next makes.                                              *)
LEMMA NextSteps ==
  ASSUME ShapeInv, Next
  PROVE  \/ \E c \in Client, op \in use.ops, to \in Place, from \in Place, f \in Fid \cup {None} :
              (op = "link" => f \in Linkable) /\ Call(c, op, from, to, f)
         \/ \E c \in Client : Step(c)
         \/ \E c \in Client : Crash(c)
         \/ \E f \in Fid : LockExpire(f)
  <1>1. CASE \E c \in Client : Step(c) \/ Crash(c)
    BY <1>1
  <1>2. CASE \E f \in Fid : LockExpire(f)
    BY <1>2
  <1>3. CASE \E c \in Client \ Busy, op \in use.ops, to \in Place :
               \E from \in IF op = "rename" THEN Place ELSE {to},
                  f \in IF op = "link" THEN Linkable ELSE {None} : Call(c, op, from, to, f)
    <2>1. PICK c \in Client \ Busy, op \in use.ops, to \in Place :
            \E from \in IF op = "rename" THEN Place ELSE {to},
               f \in IF op = "link" THEN Linkable ELSE {None} : Call(c, op, from, to, f)
      BY <1>3
    <2>2. PICK from \in IF op = "rename" THEN Place ELSE {to},
               f \in IF op = "link" THEN Linkable ELSE {None} : Call(c, op, from, to, f)
      BY <2>1
    <2>3. from \in Place /\ f \in Fid \cup {None} /\ (op = "link" => f \in Linkable)
      BY <2>2 DEF Linkable
    <2> QED BY <2>2, <2>3
  <1> QED BY <1>1, <1>2, <1>3 DEF Next

LEMMA ShapeNext ==
  ASSUME ShapeInv, [Next]_vars
  PROVE  ShapeInv'
  <1>1. CASE UNCHANGED vars
    BY <1>1 DEF vars, ShapeInv, TypeInv, FlowInv, Flow
  <1>2. CASE \E c \in Client, op \in use.ops, to \in Place, from \in Place, f \in Fid \cup {None} :
               (op = "link" => f \in Linkable) /\ Call(c, op, from, to, f)
    BY <1>2, ShapeCall
  <1>3. CASE \E c \in Client : Step(c)
    BY <1>3, ShapeClient
  <1>4. CASE \E c \in Client : Crash(c)
    BY <1>4, ShapeCrash
  <1>5. CASE \E f \in Fid : LockExpire(f)
    BY <1>5, ShapeExpire
  <1> QED BY <1>1, <1>2, <1>3, <1>4, <1>5, NextSteps

LEMMA InitShape ==
  ASSUME Init
  PROVE  ShapeInv
  <1>1. 0 \in Fid /\ 1 \in Count0 /\ None \in Count0
    BY NamespaceAssumption DEF Fid, Count0
  <1>2. Idle \in ClType /\ Idle.pc \in Ready
    BY <1>1 DEF Idle, ClType, Pc, Ready
  <1>3. kind \in [Fid -> {"new", "file", "dir"}]
    BY DEF Init
  <1>4. md \in [Fid -> Count0]
    BY <1>1 DEF Init
  <1>5. ents \in [Fid -> [Name -> Fid \cup {None}]] /\ lock \in [Fid -> Client \cup {None}]
    BY DEF Init
  <1>6. cl \in [Client -> ClType] /\ use \in Uses /\ \A c \in Client : cl[c].pc \in Ready
    BY <1>2 DEF Init
  <1>7. TypeInv
    BY <1>3, <1>4, <1>5, <1>6 DEF TypeInv
  <1>8. kind[Root] = "dir" /\ \A d \in Fid, n \in Name : ents[d][n] = None
    BY <1>1 DEF Init, Root
  <1> QED BY <1>6, <1>7, <1>8 DEF ShapeInv, FlowInv

-----------------------------------------------------------------------------
(* The effects of the actions of a creation and of a removal, pointwise.   *)
LEMMA ParentEffect ==
  ASSUME ShapeInv, NEW c \in Client, Parent(c)
  PROVE  \/ Goes(c, "abort", cl[c].f, cl[c].m, cl[c].proc)
         \/ Goes(c, "inode", cl[c].f, cl[c].m, cl[c].proc)
  <1>1. {"abort", "inode"} \subseteq Pc
    BY DEF Pc, Ready
  <1> QED BY <1>1, GotoGoes DEF Parent, ShapeInv

LEMMA InodeEffect ==
  ASSUME ShapeInv, NEW c \in Client, Inode(c)
  PROVE  \E f \in Fid :
           /\ kind[f] = "new" /\ Goes(c, "newrec", f, cl[c].m, cl[c].proc)
           /\ kind'[f] = IF cl[c].op = "mkdir" THEN "dir" ELSE "file"
           /\ \A g \in Fid : g # f => kind'[g] = kind[g] /\ md'[g] = md[g]
           /\ md'[f] = 1 /\ KindKept /\ UNCHANGED <<ents, lock, use>>
  <1>a. TypeInv
    BY DEF ShapeInv
  <1>1. PICK f \in Fid :
          /\ kind[f] = "new"
          /\ kind' = [kind EXCEPT ![f] = IF cl[c].op = "mkdir" THEN "dir" ELSE "file"]
          /\ md' = [md EXCEPT ![f] = 1]
          /\ cl' = [cl EXCEPT ![c].f = f, ![c].pc = "newrec"]
    BY DEF Inode
  <1>2. "newrec" \in Pc
    BY DEF Pc
  <1>3. Goes(c, "newrec", f, cl[c].m, cl[c].proc)
    BY <1>a, <1>1, <1>2, TakeGoes
  <1>4. /\ kind'[f] = IF cl[c].op = "mkdir" THEN "dir" ELSE "file"
        /\ \A g \in Fid : g # f => kind'[g] = kind[g] /\ md'[g] = md[g]
        /\ md'[f] = 1
    BY <1>a, <1>1 DEF TypeInv
  <1>5. KindKept
    BY <1>1, <1>4 DEF KindKept
  <1> QED BY <1>1, <1>3, <1>4, <1>5 DEF Inode

LEMMA NewrecEffect ==
  ASSUME ShapeInv, NEW c \in Client, Newrec(c)
  PROVE  /\ UNCHANGED <<kind, md, lock, use>>
         /\ \/ /\ Entry(cl[c].to) = None /\ Puts(cl[c].to[1], cl[c].to[2], cl[c].f)
               /\ \/ cl[c].op # "rename" /\ Goes(c, "done", cl[c].f, cl[c].m, cl[c].proc)
                  \/ cl[c].op = "rename" /\ Goes(c, "delsrc", cl[c].f, cl[c].m, cl[c].proc)
            \/ /\ Entry(cl[c].to) # None /\ ents' = ents
               /\ \/ cl[c].op = "create" /\ Goes(c, "lock", cl[c].f, cl[c].m, cl[c].proc)
                  \/ cl[c].op = "mkdir" /\ Goes(c, "kdel", cl[c].f, cl[c].m, cl[c].proc)
                  \/ cl[c].op = "rename" /\ Goes(c, "from", cl[c].f, cl[c].m, cl[c].proc)
                  \/ /\ cl[c].op \notin {"create", "mkdir"}
                     /\ Goes(c, "failed", cl[c].f, cl[c].m, cl[c].proc)
  <1>1. {"done", "delsrc", "lock", "kdel", "from", "failed"} \subseteq Pc
    BY DEF Pc, Ready
  <1>2. cl[c].pc = "newrec" /\ cl[c].pc \notin Ready
    BY DEF Newrec, Ready
  <1>3. cl[c].to[1] \in Fid /\ cl[c].to[2] \in Name /\ cl[c].f \in Fid /\ TypeInv
    BY <1>2, FlowOf DEF Flow, WithFile
  <1>4. CASE Entry(cl[c].to) = None
    <2>1. Puts(cl[c].to[1], cl[c].to[2], cl[c].f)
      BY <1>3, <1>4, PutEffect DEF Newrec
    <2>2. \/ cl[c].op # "rename" /\ Goto(c, "done")
          \/ cl[c].op = "rename" /\ Goto(c, "delsrc")
      BY <1>4 DEF Newrec
    <2>3. \/ cl[c].op # "rename" /\ Goes(c, "done", cl[c].f, cl[c].m, cl[c].proc)
          \/ cl[c].op = "rename" /\ Goes(c, "delsrc", cl[c].f, cl[c].m, cl[c].proc)
      BY <1>1, <1>3, <2>2, GotoGoes
    <2> QED BY <1>4, <2>1, <2>3 DEF Newrec
  <1>5. CASE Entry(cl[c].to) # None
    <2>1. \/ cl[c].op = "create" /\ Goto(c, "lock")
          \/ cl[c].op = "mkdir" /\ Goto(c, "kdel")
          \/ cl[c].op = "rename" /\ Goto(c, "from")
          \/ cl[c].op \notin {"create", "mkdir"} /\ Goto(c, "failed")
      BY <1>5 DEF Newrec
    <2>2. \/ cl[c].op = "create" /\ Goes(c, "lock", cl[c].f, cl[c].m, cl[c].proc)
          \/ cl[c].op = "mkdir" /\ Goes(c, "kdel", cl[c].f, cl[c].m, cl[c].proc)
          \/ cl[c].op = "rename" /\ Goes(c, "from", cl[c].f, cl[c].m, cl[c].proc)
          \/ /\ cl[c].op \notin {"create", "mkdir"}
             /\ Goes(c, "failed", cl[c].f, cl[c].m, cl[c].proc)
      BY <1>1, <1>3, <2>1, GotoGoes
    <2> QED BY <1>5, <2>2 DEF Newrec
  <1> QED BY <1>4, <1>5

LEMMA LockEffect ==
  ASSUME ShapeInv, NEW c \in Client, Lock(c)
  PROVE  /\ Goes(c, "get", cl[c].f, cl[c].m, cl[c].proc)
         /\ cl[c].f \in Fid /\ lock[cl[c].f] = None /\ lock'[cl[c].f] = c
         /\ \A g \in Fid : g # cl[c].f => lock'[g] = lock[g]
         /\ UNCHANGED <<kind, md, ents, use>>
  <1>1. "get" \in Pc
    BY DEF Pc
  <1>2. cl[c].pc = "lock" /\ cl[c].pc \notin Ready
    BY DEF Lock, Ready
  <1>3. cl[c].f \in Fid /\ TypeInv
    BY <1>2, FlowOf DEF Flow, WithFile
  <1>4. Goes(c, "get", cl[c].f, cl[c].m, cl[c].proc)
    BY <1>1, <1>3, GotoGoes DEF Lock
  <1>5. lock'[cl[c].f] = c /\ \A g \in Fid : g # cl[c].f => lock'[g] = lock[g]
    BY <1>3 DEF Lock, TypeInv
  <1> QED BY <1>3, <1>4, <1>5 DEF Lock

LEMMA GetEffect ==
  ASSUME ShapeInv, NEW c \in Client, Get(c)
  PROVE  /\ \/ kind[cl[c].f] = "dir" /\ Goes(c, "kdel", cl[c].f, md[cl[c].f], cl[c].proc)
            \/ kind[cl[c].f] = "file" /\ Goes(c, "set", cl[c].f, md[cl[c].f], cl[c].proc)
         /\ cl[c].f \in Fid
         /\ UNCHANGED <<kind, md, ents, lock, use>>
  <1>1. {"kdel", "set"} \subseteq Pc
    BY DEF Pc
  <1>2. cl[c].pc = "get" /\ cl[c].pc \notin Ready
    BY DEF Get, Ready
  <1>3. cl[c].f \in Fid /\ TypeInv /\ kind[cl[c].f] \in {"file", "dir"}
    BY <1>2, FlowOf DEF Flow, WithFile, TypeInv
  <1>4. PICK m \in Count0 : m = md[cl[c].f]
    BY <1>3 DEF TypeInv
  <1>5. CASE kind[cl[c].f] = "dir"
    <2>1. cl' = [cl EXCEPT ![c].m = m, ![c].pc = "kdel"]
      BY <1>4, <1>5 DEF Get
    <2>2. Goes(c, "kdel", cl[c].f, m, cl[c].proc)
      BY <1>1, <1>3, <2>1, GetGoes
    <2> QED BY <1>3, <1>4, <1>5, <2>2 DEF Get
  <1>6. CASE kind[cl[c].f] = "file"
    <2>1. cl' = [cl EXCEPT ![c].m = m, ![c].pc = "set"]
      BY <1>4, <1>6 DEF Get
    <2>2. Goes(c, "set", cl[c].f, m, cl[c].proc)
      BY <1>1, <1>3, <2>1, GetGoes
    <2> QED BY <1>3, <1>4, <1>6, <2>2 DEF Get
  <1> QED BY <1>3, <1>5, <1>6

LEMMA SetGoes ==
  ASSUME ShapeInv, NEW c \in Client, Set(c)
  PROVE  /\ Goes(c, "unlock", cl[c].f, cl[c].m, cl[c].proc)
         /\ cl[c].pc = "set" /\ cl[c].f \in Fid /\ kind[cl[c].f] = "file"
         /\ UNCHANGED <<kind, ents, lock, use>>
         /\ \A g \in Fid : g # cl[c].f => md'[g] = md[g]
         /\ cl[c].m \in {None, Empty} => md'[cl[c].f] = Empty
         /\ cl[c].m \notin {None, Empty} =>
              /\ cl[c].m \in Int
              /\ md'[cl[c].f] = cl[c].m + (IF cl[c].op = "link" THEN 1 ELSE -1)
  <1>1. "unlock" \in Pc
    BY DEF Pc
  <1>2. cl[c].pc = "set" /\ cl[c].pc \notin Ready
    BY DEF Set, Ready
  <1>3. cl[c].f \in Fid /\ TypeInv /\ kind[cl[c].f] = "file"
    BY <1>2, FlowOf DEF Flow, WithFile
  <1>4. Goes(c, "unlock", cl[c].f, cl[c].m, cl[c].proc)
    BY <1>1, <1>3, GotoGoes DEF Set
  <1> QED BY <1>2, <1>3, <1>4, SetEffect DEF Set

LEMMA UnlockEffect ==
  ASSUME ShapeInv, NEW c \in Client, Unlock(c)
  PROVE  /\ \/ cl[c].op = "create" /\ Goes(c, "failed", cl[c].f, cl[c].m, cl[c].proc)
            \/ cl[c].op = "link" /\ Goes(c, "newrec", cl[c].f, cl[c].m, cl[c].proc)
            \/ /\ cl[c].op \notin {"create", "link"}
               /\ Goes(c, "hdel", cl[c].f, cl[c].m, cl[c].proc)
         /\ cl[c].pc = "unlock" /\ cl[c].f \in Fid /\ lock'[cl[c].f] = None
         /\ \A g \in Fid : g # cl[c].f => lock'[g] = lock[g]
         /\ UNCHANGED <<kind, md, ents, use>>
  <1>1. {"failed", "newrec", "hdel"} \subseteq Pc
    BY DEF Pc, Ready
  <1>2. cl[c].pc = "unlock" /\ cl[c].pc \notin Ready
    BY DEF Unlock, Ready
  <1>3. cl[c].f \in Fid /\ TypeInv
    BY <1>2, FlowOf DEF Flow, WithFile
  <1>4. \/ cl[c].op = "create" /\ Goto(c, "failed")
        \/ cl[c].op = "link" /\ Goto(c, "newrec")
        \/ cl[c].op \notin {"create", "link"} /\ Goto(c, "hdel")
    BY DEF Unlock
  <1>5. \/ cl[c].op = "create" /\ Goes(c, "failed", cl[c].f, cl[c].m, cl[c].proc)
        \/ cl[c].op = "link" /\ Goes(c, "newrec", cl[c].f, cl[c].m, cl[c].proc)
        \/ /\ cl[c].op \notin {"create", "link"}
           /\ Goes(c, "hdel", cl[c].f, cl[c].m, cl[c].proc)
    BY <1>1, <1>3, <1>4, GotoGoes
  <1>6. lock'[cl[c].f] = None /\ \A g \in Fid : g # cl[c].f => lock'[g] = lock[g]
    BY <1>3 DEF Unlock, TypeInv
  <1> QED BY <1>2, <1>3, <1>5, <1>6 DEF Unlock

LEMMA LookupEffect ==
  ASSUME ShapeInv, NEW c \in Client, Lookup(c)
  PROVE  /\ UNCHANGED <<kind, md, ents, lock, use>>
         /\ \/ Goes(c, "failed", cl[c].f, cl[c].m, cl[c].proc)
            \/ \E f \in Fid, pc \in {"count", "get", "lock"} :
                 /\ f = Entry(cl[c].to) /\ Goes(c, pc, f, cl[c].m, cl[c].proc)
                 /\ pc = IF cl[c].proc = "rmdir" THEN "count"
                         ELSE IF kind[f] = "dir" THEN "get" ELSE "lock"
  <1>1. {"failed", "count", "get", "lock"} \subseteq Pc
    BY DEF Pc, Ready
  <1>2. cl[c].pc = "lookup" /\ cl[c].pc \notin Ready
    BY DEF Lookup, Ready
  <1>3. cl[c].to \in Fid \X Name /\ TypeInv
    BY <1>2, FlowOf
  <1>4. CASE Entry(cl[c].to) = None
    <2>1. Goes(c, "failed", cl[c].f, cl[c].m, cl[c].proc)
      BY <1>1, <1>3, <1>4, GotoGoes DEF Lookup
    <2> QED BY <2>1 DEF Lookup
  <1>5. CASE Entry(cl[c].to) # None
    <2>1. PICK f \in Fid : f = Entry(cl[c].to)
      BY <1>3, <1>5, EntryOf
    <2>2. PICK pc \in {"count", "get", "lock"} :
            pc = IF cl[c].proc = "rmdir" THEN "count" ELSE IF kind[f] = "dir" THEN "get" ELSE "lock"
      OBVIOUS
    <2>3. cl' = [cl EXCEPT ![c].f = f, ![c].pc = pc]
      BY <1>5, <2>1, <2>2 DEF Lookup
    <2>4. pc \in Pc
      BY <1>1
    <2>5. Goes(c, pc, f, cl[c].m, cl[c].proc)
      BY <1>3, <2>3, <2>4, TakeGoes
    <2> QED BY <2>1, <2>2, <2>5 DEF Lookup
  <1> QED BY <1>4, <1>5

LEMMA HdelEffect ==
  ASSUME ShapeInv, NEW c \in Client, Hdel(c)
  PROVE  /\ UNCHANGED <<kind, md, lock, use>>
         /\ \/ /\ Entry(cl[c].to) = None /\ ents' = ents
               /\ Goes(c, "failed", cl[c].f, cl[c].m, cl[c].proc)
            \/ /\ Entry(cl[c].to) # None /\ Puts(cl[c].to[1], cl[c].to[2], None)
               /\ \/ kind[cl[c].f] = "file" /\ Goes(c, "remove", cl[c].f, cl[c].m, cl[c].proc)
                  \/ Goes(c, "done", cl[c].f, cl[c].m, cl[c].proc)
                  \/ cl[c].op = "rename" /\ Goes(c, "src", cl[c].f, cl[c].m, "")
  <1>1. {"failed", "remove", "done"} \subseteq Pc
    BY DEF Pc, Ready
  <1>2. cl[c].pc = "hdel" /\ cl[c].pc \notin Ready
    BY DEF Hdel, Ready
  <1>3. cl[c].to[1] \in Fid /\ cl[c].to[2] \in Name /\ TypeInv
    BY <1>2, FlowOf
  <1>4. CASE Entry(cl[c].to) = None
    <2>1. Goes(c, "failed", cl[c].f, cl[c].m, cl[c].proc)
      BY <1>1, <1>3, <1>4, GotoGoes DEF Hdel
    <2> QED BY <1>4, <2>1 DEF Hdel
  <1>5. CASE Entry(cl[c].to) # None
    <2>1. None \in Fid \cup {None}
      OBVIOUS
    <2>2. Puts(cl[c].to[1], cl[c].to[2], None)
      BY <1>3, <1>5, <2>1, PutEffect DEF Hdel
    <2>3. (kind[cl[c].f] = "file" /\ Goto(c, "remove")) \/ End(c)
      BY <1>5 DEF Hdel
    <2>4. \/ kind[cl[c].f] = "file" /\ Goes(c, "remove", cl[c].f, cl[c].m, cl[c].proc)
          \/ Goes(c, "done", cl[c].f, cl[c].m, cl[c].proc)
          \/ cl[c].op = "rename" /\ Goes(c, "src", cl[c].f, cl[c].m, "")
      BY <1>1, <1>3, <2>3, GotoGoes, EndGoes
    <2> QED BY <1>5, <2>2, <2>4 DEF Hdel
  <1> QED BY <1>4, <1>5

LEMMA RemoveEffect ==
  ASSUME ShapeInv, NEW c \in Client, Remove(c)
  PROVE  /\ Clears(cl[c].f) /\ cl[c].f \in Fid /\ kind[cl[c].f] = "file" /\ UNCHANGED <<kind, lock, use>>
         /\ \/ Goes(c, "done", cl[c].f, cl[c].m, cl[c].proc)
            \/ cl[c].op = "rename" /\ Goes(c, "src", cl[c].f, cl[c].m, "")
  <1>1. cl[c].pc = "remove" /\ cl[c].pc \notin Ready
    BY DEF Remove, Ready
  <1>2. cl[c].f \in Fid /\ kind[cl[c].f] = "file" /\ TypeInv
    BY <1>1, FlowOf DEF Flow, WithFile
  <1> QED BY <1>2, ClearEffect, EndGoes DEF Remove

LEMMA KdelEffect ==
  ASSUME ShapeInv, NEW c \in Client, Kdel(c)
  PROVE  /\ Clears(cl[c].f) /\ cl[c].f \in Fid /\ kind[cl[c].f] = "dir" /\ UNCHANGED <<kind, lock, use>>
         /\ \/ cl[c].op = "mkdir" /\ Goes(c, "failed", cl[c].f, cl[c].m, cl[c].proc)
            \/ cl[c].op # "mkdir" /\ Goes(c, "hdel", cl[c].f, cl[c].m, cl[c].proc)
  <1>1. {"failed", "hdel"} \subseteq Pc
    BY DEF Pc, Ready
  <1>2. cl[c].pc = "kdel" /\ cl[c].pc \notin Ready
    BY DEF Kdel, Ready
  <1>3. cl[c].f \in Fid /\ kind[cl[c].f] = "dir" /\ TypeInv
    BY <1>2, FlowOf DEF Flow, WithFile
  <1>4. \/ cl[c].op = "mkdir" /\ Goto(c, "failed")
        \/ cl[c].op # "mkdir" /\ Goto(c, "hdel")
    BY DEF Kdel
  <1>5. \/ cl[c].op = "mkdir" /\ Goes(c, "failed", cl[c].f, cl[c].m, cl[c].proc)
        \/ cl[c].op # "mkdir" /\ Goes(c, "hdel", cl[c].f, cl[c].m, cl[c].proc)
    BY <1>1, <1>3, <1>4, GotoGoes
  <1> QED BY <1>3, <1>5, ClearEffect DEF Kdel

LEMMA CountEffect ==
  ASSUME ShapeInv, NEW c \in Client, Count(c)
  PROVE  \/ /\ kind[cl[c].f] = "dir" /\ Hlen(cl[c].f) = 1
            /\ Goes(c, "kdel", cl[c].f, cl[c].m, cl[c].proc)
         \/ Goes(c, "failed", cl[c].f, cl[c].m, cl[c].proc)
  <1>1. {"failed", "kdel"} \subseteq Pc
    BY DEF Pc, Ready
  <1> QED BY <1>1, GotoGoes DEF Count, ShapeInv

LEMMA SrcEffect ==
  ASSUME ShapeInv, NEW c \in Client, Src(c)
  PROVE  \/ Goes(c, "dst", cl[c].f, cl[c].m, cl[c].proc)
         \/ Goes(c, "failed", cl[c].f, cl[c].m, cl[c].proc)
  <1>1. {"failed", "dst"} \subseteq Pc
    BY DEF Pc, Ready
  <1> QED BY <1>1, GotoGoes DEF Src, ShapeInv

LEMMA DstEffect ==
  ASSUME ShapeInv, NEW c \in Client, Dst(c)
  PROVE  /\ Goes(c, "again", cl[c].f, cl[c].m, cl[c].proc)
         /\ cl'[c].dist = Entry(cl[c].to)
  <1>1. cl[c].to \in Fid \X Name
    BY FlowOf DEF Dst, Ready
  <1>2. PICK f \in Fid \cup {None} : f = Entry(cl[c].to)
    BY <1>1, EntryOf
  <1> QED BY <1>2, DstGoes DEF Dst, ShapeInv

(* Rename takes the entry that it looks up.                                *)
Takes(c, e, pc) ==
  \/ Goes(c, "failed", cl[c].f, cl[c].m, cl[c].proc)
  \/ \E f \in Fid : f = Entry(e) /\ Goes(c, pc, f, cl[c].m, cl[c].proc)

LEMMA TakeEffect ==
  ASSUME ShapeInv, NEW c \in Client, NEW e \in Fid \X Name, NEW pc \in Pc,
         IF Entry(e) = None THEN Goto(c, "failed")
         ELSE cl' = [cl EXCEPT ![c].f = Entry(e), ![c].pc = pc]
  PROVE  Takes(c, e, pc)
  <1>1. "failed" \in Pc
    BY DEF Pc, Ready
  <1>2. CASE Entry(e) = None
    BY <1>1, <1>2, GotoGoes DEF Takes, ShapeInv
  <1>3. CASE Entry(e) # None
    <2>1. PICK f \in Fid : f = Entry(e)
      BY <1>3, EntryOf
    <2>2. cl' = [cl EXCEPT ![c].f = f, ![c].pc = pc]
      BY <1>3, <2>1
    <2>3. Goes(c, pc, f, cl[c].m, cl[c].proc)
      BY <2>2, TakeGoes DEF ShapeInv
    <2> QED BY <2>1, <2>3 DEF Takes
  <1> QED BY <1>2, <1>3

LEMMA RenameTakes ==
  ASSUME ShapeInv, NEW c \in Client
  PROVE  /\ Again(c) => Takes(c, cl[c].from, "newrec")
         /\ From(c) => Takes(c, cl[c].from, "fromattr")
         /\ To(c) => Takes(c, cl[c].to, "toattr")
  <1>1. {"newrec", "fromattr", "toattr"} \subseteq Pc
    BY DEF Pc
  <1>2. cl[c].pc \in {"again", "from", "to"} => cl[c].from \in Fid \X Name /\ cl[c].to \in Fid \X Name
    BY FlowOf DEF Flow, Ready
  <1>3. Again(c) => Takes(c, cl[c].from, "newrec")
    BY <1>1, <1>2, TakeEffect DEF Again
  <1>4. From(c) => Takes(c, cl[c].from, "fromattr")
    BY <1>1, <1>2, TakeEffect DEF From
  <1>5. To(c) => Takes(c, cl[c].to, "toattr")
    BY <1>1, <1>2, TakeEffect DEF To
  <1> QED BY <1>3, <1>4, <1>5

LEMMA FromAttrEffect ==
  ASSUME ShapeInv, NEW c \in Client, FromAttr(c)
  PROVE  \E p \in {"unlink", "rmdir"} : Goes(c, "to", cl[c].f, cl[c].m, p)
  <1>1. "to" \in Pc
    BY DEF Pc
  <1>2. PICK p \in {"unlink", "rmdir"} : p = IF IsDir(cl[c].f) THEN "rmdir" ELSE "unlink"
    OBVIOUS
  <1>3. Goes(c, "to", cl[c].f, cl[c].m, p)
    BY <1>1, <1>2, ProcGoes DEF FromAttr, ShapeInv
  <1> QED BY <1>3

LEMMA ToAttrEffect ==
  ASSUME ShapeInv, NEW c \in Client, ToAttr(c)
  PROVE  \/ cl[c].proc = "rmdir" /\ Goes(c, "childcount", cl[c].f, cl[c].m, cl[c].proc)
         \/ ~IsDir(cl[c].f) /\ Goes(c, "lookup", cl[c].f, cl[c].m, cl[c].proc)
         \/ Goes(c, "failed", cl[c].f, cl[c].m, cl[c].proc)
  <1>1. {"childcount", "lookup", "failed"} \subseteq Pc
    BY DEF Pc, Ready
  <1>2. \/ cl[c].proc = "rmdir" /\ Goto(c, "childcount")
        \/ ~IsDir(cl[c].f) /\ Goto(c, "lookup")
        \/ Goto(c, "failed")
    BY DEF ToAttr
  <1> QED BY <1>1, <1>2, GotoGoes DEF ShapeInv

LEMMA ChildCountEffect ==
  ASSUME ShapeInv, NEW c \in Client, ChildCount(c)
  PROVE  \/ Goes(c, "lookup", cl[c].f, cl[c].m, cl[c].proc)
         \/ Goes(c, "failed", cl[c].f, cl[c].m, cl[c].proc)
  <1>1. {"lookup", "failed"} \subseteq Pc
    BY DEF Pc, Ready
  <1> QED BY <1>1, GotoGoes DEF ChildCount, ShapeInv

LEMMA DelSrcEffect ==
  ASSUME ShapeInv, NEW c \in Client, DelSrc(c)
  PROVE  \/ /\ Entry(cl[c].from) = None /\ ents' = ents
            /\ Goes(c, "failed", cl[c].f, cl[c].m, cl[c].proc)
         \/ /\ Entry(cl[c].from) # None /\ Puts(cl[c].from[1], cl[c].from[2], None)
            /\ \/ Goes(c, "done", cl[c].f, cl[c].m, cl[c].proc)
               \/ cl[c].dist # None /\ cl[c].dist \in Fid /\ Goes(c, "remove", cl[c].dist, cl[c].m, cl[c].proc)
  <1>1. {"failed", "remove", "done"} \subseteq Pc
    BY DEF Pc, Ready
  <1>2. /\ cl[c].from \in Fid \X Name /\ cl[c].from[1] \in Fid /\ cl[c].from[2] \in Name /\ TypeInv
    BY FlowOf DEF Flow, DelSrc, Ready
  <1>3. CASE Entry(cl[c].from) = None
    <2>1. Goes(c, "failed", cl[c].f, cl[c].m, cl[c].proc)
      BY <1>1, <1>2, <1>3, GotoGoes DEF DelSrc
    <2> QED BY <1>3, <2>1 DEF DelSrc
  <1>4. CASE Entry(cl[c].from) # None
    <2>1. None \in Fid \cup {None}
      OBVIOUS
    <2>2. Puts(cl[c].from[1], cl[c].from[2], None)
      BY <1>2, <1>4, <2>1, PutEffect DEF DelSrc
    <2>3. CASE cl[c].dist # None /\ kind[cl[c].dist] = "file"
      <3>1. PICK f \in Fid : f = cl[c].dist
        BY <1>2, <2>3 DEF TypeInv, ClType
      <3>2. cl' = [cl EXCEPT ![c].f = f, ![c].pc = "remove"]
        BY <1>4, <2>3, <3>1 DEF DelSrc
      <3>3. Goes(c, "remove", f, cl[c].m, cl[c].proc)
        BY <1>1, <1>2, <3>2, TakeGoes
      <3> QED BY <1>4, <2>2, <2>3, <3>1, <3>3
    <2>4. CASE ~(cl[c].dist # None /\ kind[cl[c].dist] = "file")
      <3>1. Goes(c, "done", cl[c].f, cl[c].m, cl[c].proc)
        BY <1>1, <1>2, <1>4, <2>4, GotoGoes DEF DelSrc
      <3> QED BY <1>4, <2>2, <3>1
    <2> QED BY <2>3, <2>4
  <1> QED BY <1>3, <1>4

-----------------------------------------------------------------------------
(* Clients create and unlink.                                              *)
CreateUnlink == use.ops \subseteq {"create", "unlink"}

(* A step of c, and what it must leave to the others.                      *)
LEMMA EntryStep ==
  ASSUME ShapeInv, EntryInv, NEW c \in Client, KindKept,
         \A b \in Client : b # c => cl'[b] = cl[b],
         EntriesAre', OneEntry', HoldsFile(c)',
         \A b \in Client : b # c /\ cl[b].pc \in WithFile =>
           \A d \in Fid, n \in Name : ents'[d][n] = cl[b].f => ents[d][n] = cl[b].f,
         \A b \in Client : b # c /\ cl[b].pc = "newrec" =>
           /\ md'[cl[b].f] = md[cl[b].f]
           /\ cl'[c].pc \in WithFile => cl[b].f # cl'[c].f,
         \A b \in Client : b # c /\ cl'[c].pc = "newrec" /\ cl[b].pc \in WithFile =>
           cl[b].f # cl'[c].f
  PROVE  EntryInv'
  <1>1. ASSUME NEW b \in Client, b # c
        PROVE  HoldsFile(b)'
    <2>1. cl'[b] = cl[b] /\ HoldsFile(b)
      BY <1>1 DEF EntryInv
    <2>2. CASE cl[b].pc \in WithFile
      <3>1. cl[b].f \in Fid /\ kind'[cl[b].f] = kind[cl[b].f]
        <4>1. cl[b].pc \notin Ready
          BY <2>2 DEF WithFile, Ready
        <4>2. cl[b].f \in Fid /\ kind[cl[b].f] # "new"
          BY <2>2, <4>1, FlowOf DEF Flow
        <4> QED BY <4>2 DEF KindKept
      <3>2. \A d \in Fid, n \in Name : ents'[d][n] = cl[b].f => ents[d][n] = cl[b].f
        BY <1>1, <2>2
      <3>3. Nameless(cl[b].f) => Nameless(cl[b].f)'
        BY <2>1, <3>2 DEF Nameless
      <3>4. cl[b].pc = "newrec" => md'[cl[b].f] = md[cl[b].f]
        BY <1>1
      <3> QED BY <2>1, <3>1, <3>2, <3>3, <3>4 DEF HoldsFile
    <2>3. CASE cl[b].pc \notin WithFile
      BY <2>1, <2>3 DEF HoldsFile, WithFile
    <2> QED BY <2>2, <2>3
  <1>2. Alone'
    <2>1. ASSUME NEW a \in Client, NEW b \in Client, a # b, cl'[a].pc = "newrec",
                 cl'[b].pc \in WithFile
          PROVE  cl'[a].f # cl'[b].f
      <3>1. CASE a # c /\ b # c
        BY <2>1, <3>1 DEF EntryInv, Alone
      <3>2. CASE a = c
        BY <2>1, <3>2
      <3>3. CASE b = c
        BY <2>1, <3>3
      <3> QED BY <3>1, <3>2, <3>3
    <2> QED BY <2>1 DEF Alone
  <1>3. \A b \in Client : HoldsFile(b)'
    BY <1>1
  <1> QED BY <1>2, <1>3 DEF EntryInv

(* The same where nothing but c changes.                                   *)
LEMMA EntryGoes ==
  ASSUME ShapeInv, EntryInv, NEW c \in Client, NEW pc, NEW f, NEW m, NEW proc,
         Goes(c, pc, f, m, proc), UNCHANGED <<kind, md, ents>>, HoldsFile(c)',
         pc = "newrec" => FALSE,
         pc \in WithFile => \A b \in Client : b # c /\ cl[b].pc = "newrec" => cl[b].f # f
  PROVE  EntryInv'
  <1>1. KindKept /\ EntriesAre' /\ OneEntry'
    BY DEF KindKept, EntryInv, EntriesAre, OneEntry
  <1>2. cl'[c].pc = pc /\ (pc \in WithFile => cl'[c].f = f)
    BY DEF Goes, Ready, WithFile
  <1> QED BY <1>1, <1>2, EntryStep DEF Goes

(* The same where c stops or gives up.                                     *)
LEMMA EntryStops ==
  ASSUME ShapeInv, EntryInv, NEW c \in Client, NEW pc \in {"done", "failed", "abort", "inode", "parent"},
         NEW f, NEW m, NEW proc, Goes(c, pc, f, m, proc), UNCHANGED <<kind, md, ents>>
  PROVE  EntryInv'
  <1>1. HoldsFile(c)'
    BY DEF HoldsFile, Goes
  <1> QED BY <1>1, EntryGoes DEF WithFile

LEMMA EntryClient ==
  ASSUME ShapeInv, EntryInv, CreateUnlink, NEW c \in Client, Step(c)
  PROVE  EntryInv'
  <1>a. TypeInv /\ HoldsFile(c) /\ cl[c].pc \notin Ready
    BY DEF ShapeInv, EntryInv, Step, Ready, Parent, Inode, Newrec, Lookup, Count, Kdel, Lock,
       Get, Set, Unlock, Hdel, Remove, Src, Dst, Again, DelSrc, From, FromAttr, To, ToAttr,
       ChildCount
  <1>b. Flow(c) /\ cl[c].op \in {"create", "unlink"} /\ cl[c].to \in Fid \X Name
    BY <1>a, FlowOf DEF Flow, CreateUnlink
  <1>c. cl[c].op # "rename" /\ cl[c].op # "mkdir" /\ cl[c].op # "link"
    BY <1>b
  <1>1. CASE Parent(c)
    BY <1>1, ParentEffect, EntryStops DEF Parent
  <1>2. CASE Inode(c)
    <2>1. PICK f \in Fid :
            /\ kind[f] = "new" /\ Goes(c, "newrec", f, cl[c].m, cl[c].proc)
            /\ kind'[f] = IF cl[c].op = "mkdir" THEN "dir" ELSE "file"
            /\ \A g \in Fid : g # f => kind'[g] = kind[g] /\ md'[g] = md[g]
            /\ md'[f] = 1 /\ KindKept /\ UNCHANGED <<ents, lock, use>>
      BY <1>2, InodeEffect
    <2>2. ASSUME NEW d \in Fid, NEW n \in Name
          PROVE  ents[d][n] # f
      BY <2>1, NamespaceAssumption DEF ShapeInv, FlowInv, Fid
    <2>3. EntriesAre'
      <3>1. ASSUME NEW d \in Fid, NEW n \in Name, ents'[d][n] # None
            PROVE  md'[ents'[d][n]] \notin {None, Empty} /\ kind'[ents'[d][n]] = "file"
        <4>1. ents'[d][n] = ents[d][n] /\ ents[d][n] \in Fid /\ ents[d][n] # f
          BY <1>a, <2>1, <2>2, <3>1 DEF TypeInv
        <4>2. md[ents[d][n]] \notin {None, Empty} /\ kind[ents[d][n]] = "file"
          BY <3>1, <4>1 DEF EntryInv, EntriesAre
        <4> QED BY <2>1, <4>1, <4>2
      <3> QED BY <3>1 DEF EntriesAre
    <2>4. OneEntry'
      BY <2>1 DEF EntryInv, OneEntry
    <2>5. cl'[c].pc = "newrec" /\ cl'[c].f = f /\ \A b \in Client : b # c => cl'[b] = cl[b]
      BY <2>1 DEF Goes, Ready
    <2>6. Nameless(f)'
      BY <2>1, <2>2 DEF Nameless
    <2>7. HoldsFile(c)'
      <3>1. md'[f] \notin {None, Empty}
        BY <2>1, NamespaceAssumption
      <3>2. Nameless(cl[c].f)'
        BY <2>5, <2>6 DEF Nameless
      <3> QED BY <2>5, <3>1, <3>2 DEF HoldsFile
    <2>8. ASSUME NEW b \in Client, b # c, cl[b].pc \in WithFile
          PROVE  cl[b].f \in Fid /\ cl[b].f # f
      <3>1. cl[b].pc \notin Ready
        BY <2>8 DEF WithFile, Ready
      <3> QED BY <2>1, <2>8, <3>1, FlowOf DEF Flow
    <2>9. "newrec" \in WithFile
      BY DEF WithFile
    <2> QED BY <2>1, <2>3, <2>4, <2>5, <2>7, <2>8, <2>9, EntryStep
  <1>3. CASE Newrec(c)
    <2>1. cl[c].pc = "newrec" /\ "newrec" \in WithFile
      BY <1>3 DEF Newrec, WithFile
    <2>2. /\ cl[c].f \in Fid /\ kind[cl[c].f] = "file" /\ Nameless(cl[c].f) /\ cl[c].op = "create"
          /\ md[cl[c].f] \notin {None, Empty}
      BY <1>a, <1>b, <2>1 DEF Flow, HoldsFile, WithFile
    <2>3. cl[c].to[1] \in Fid /\ cl[c].to[2] \in Name
      BY <1>b
    <2>4. UNCHANGED <<kind, md, lock, use>> /\ KindKept
      BY <1>3 DEF Newrec, KindKept
    <2>5. CASE /\ Entry(cl[c].to) = None /\ Puts(cl[c].to[1], cl[c].to[2], cl[c].f)
               /\ Goes(c, "done", cl[c].f, cl[c].m, cl[c].proc)
      <3>1. PICK d0 \in Fid, n0 \in Name, f \in Fid : d0 = cl[c].to[1] /\ n0 = cl[c].to[2] /\ f = cl[c].f
        BY <2>2, <2>3
      <3>2. /\ ents'[d0][n0] = f
            /\ \A e \in Fid, k \in Name : (e # d0 \/ k # n0) => ents'[e][k] = ents[e][k]
        BY <2>5, <3>1 DEF Puts
      <3>3. EntriesAre'
        <4>1. ASSUME NEW d \in Fid, NEW n \in Name, ents'[d][n] # None
              PROVE  md'[ents'[d][n]] \notin {None, Empty} /\ kind'[ents'[d][n]] = "file"
          <5>1. CASE d = d0 /\ n = n0
            BY <2>2, <2>4, <3>1, <3>2, <5>1
          <5>2. CASE d # d0 \/ n # n0
            BY <2>4, <3>2, <4>1, <5>2 DEF EntryInv, EntriesAre
          <5> QED BY <5>1, <5>2
        <4> QED BY <4>1 DEF EntriesAre
      <3>4. \A d \in Fid, n \in Name : ents[d][n] # f
        BY <2>2, <3>1 DEF Nameless
      <3>5. OneEntry'
        <4>1. ASSUME NEW d \in Fid, NEW e \in Fid, NEW n \in Name, NEW k \in Name,
                     ents'[d][n] # None, ents'[d][n] = ents'[e][k]
              PROVE  d = e /\ n = k
          <5>1. CASE d = d0 /\ n = n0
            BY <3>2, <3>4, <4>1, <5>1
          <5>2. CASE e = d0 /\ k = n0
            BY <3>2, <3>4, <4>1, <5>2
          <5>3. CASE (d # d0 \/ n # n0) /\ (e # d0 \/ k # n0)
            BY <3>2, <4>1, <5>3 DEF EntryInv, OneEntry
          <5> QED BY <5>1, <5>2, <5>3
        <4> QED BY <4>1 DEF OneEntry
      <3>6. cl'[c].pc = "done" /\ \A b \in Client : b # c => cl'[b] = cl[b]
        BY <2>5 DEF Goes
      <3>7. HoldsFile(c)'
        BY <3>6 DEF HoldsFile
      <3>8. "done" \notin WithFile
        BY DEF WithFile
      <3>9. ASSUME NEW b \in Client, b # c, cl[b].pc \in WithFile
            PROVE  \A d \in Fid, n \in Name : ents'[d][n] = cl[b].f => ents[d][n] = cl[b].f
        <4>1. cl[b].f # f
          BY <2>1, <3>1, <3>9 DEF EntryInv, Alone
        <4> QED BY <3>2, <4>1
      <3> QED BY <2>4, <3>3, <3>5, <3>6, <3>7, <3>8, <3>9, EntryStep
    <2>6. CASE ents' = ents /\ Goes(c, "failed", cl[c].f, cl[c].m, cl[c].proc)
      BY <2>4, <2>6, EntryStops
    <2>7. CASE ents' = ents /\ Goes(c, "lock", cl[c].f, cl[c].m, cl[c].proc)
      <3>1. cl'[c].pc = "lock" /\ cl'[c].f = cl[c].f /\ cl'[c].op = "create"
        BY <2>2, <2>7 DEF Goes, Ready
      <3>2. Nameless(cl[c].f)'
        BY <2>2, <2>7, <3>1 DEF Nameless
      <3>3. HoldsFile(c)'
        BY <3>1, <3>2 DEF HoldsFile
      <3>4. \A b \in Client : b # c /\ cl[b].pc = "newrec" => cl[b].f # cl[c].f
        BY <2>1 DEF EntryInv, Alone
      <3> QED BY <2>4, <2>7, <3>3, <3>4, EntryGoes
    <2> QED BY <1>3, <1>c, <2>5, <2>6, <2>7, NewrecEffect
  <1>4. CASE Lookup(c)
    <2>1. cl[c].pc = "lookup" /\ cl[c].op = "unlink" /\ cl[c].proc = "unlink"
      BY <1>4, <1>b DEF Lookup, Flow
    <2>2. UNCHANGED <<kind, md, ents, lock, use>>
      BY <1>4 DEF Lookup
    <2>3. CASE Goes(c, "failed", cl[c].f, cl[c].m, cl[c].proc)
      BY <2>2, <2>3, EntryStops
    <2>4. ASSUME NEW f \in Fid, NEW pc \in {"count", "get", "lock"},
                 f = Entry(cl[c].to), Goes(c, pc, f, cl[c].m, cl[c].proc),
                 pc = IF cl[c].proc = "rmdir" THEN "count" ELSE IF kind[f] = "dir" THEN "get" ELSE "lock"
          PROVE  EntryInv'
      <3>1. PICK d0 \in Fid, n0 \in Name : d0 = cl[c].to[1] /\ n0 = cl[c].to[2] /\ cl[c].to = <<d0, n0>>
        BY <1>b
      <3>2. f = ents[d0][n0] /\ f # None
        <4>1. f = ents[d0][n0]
          BY <2>4, <3>1 DEF Entry
        <4>2. f # None
          BY NamespaceAssumption DEF Fid
        <4> QED BY <4>1, <4>2
      <3>3. kind[f] = "file" /\ pc = "lock"
        BY <2>1, <2>4, <3>2 DEF EntryInv, EntriesAre
      <3>4. cl'[c].pc = "lock" /\ cl'[c].f = f /\ cl'[c].op = "unlink" /\ cl'[c].to = cl[c].to
        BY <2>1, <2>4, <3>3 DEF Goes, Ready
      <3>5. \A d \in Fid, n \in Name : ents[d][n] = f => <<d, n>> = cl[c].to
        BY <3>1, <3>2 DEF EntryInv, OneEntry
      <3>6. HoldsFile(c)'
        BY <2>2, <3>3, <3>4, <3>5 DEF HoldsFile
      <3>7. ASSUME NEW b \in Client, b # c, cl[b].pc = "newrec"
            PROVE  cl[b].f # f
        BY <3>2, <3>7 DEF EntryInv, HoldsFile, Nameless
      <3> QED BY <2>2, <2>4, <3>3, <3>6, <3>7, EntryGoes
    <2> QED BY <1>4, <2>3, <2>4, LookupEffect
  <1>5. CASE Lock(c)
    <2>1. cl[c].pc = "lock" /\ "lock" \in WithFile
      BY <1>5 DEF Lock, WithFile
    <2>2. Goes(c, "get", cl[c].f, cl[c].m, cl[c].proc) /\ UNCHANGED <<kind, md, ents, use>>
      BY <1>5, LockEffect
    <2>3. cl'[c].pc = "get" /\ cl'[c].f = cl[c].f /\ cl'[c].op = cl[c].op /\ cl'[c].to = cl[c].to
      BY <2>2 DEF Goes, Ready
    <2>4. Nameless(cl[c].f) => Nameless(cl[c].f)'
      BY <2>2, <2>3 DEF Nameless
    <2>5. HoldsFile(c)'
      BY <1>a, <2>1, <2>2, <2>3, <2>4 DEF HoldsFile
    <2>6. \A b \in Client : b # c /\ cl[b].pc = "newrec" => cl[b].f # cl[c].f
      BY <2>1 DEF EntryInv, Alone
    <2> QED BY <2>2, <2>5, <2>6, EntryGoes
  <1>6. CASE Get(c)
    <2>1. cl[c].pc = "get" /\ "get" \in WithFile
      BY <1>6 DEF Get, WithFile
    <2>2. kind[cl[c].f] = "file" /\ cl[c].f \in Fid
      BY <1>a, <1>b, <2>1 DEF HoldsFile, Flow
    <2>3. Goes(c, "set", cl[c].f, md[cl[c].f], cl[c].proc) /\ UNCHANGED <<kind, md, ents, use>>
      BY <1>6, <2>2, GetEffect
    <2>4. /\ cl'[c].pc = "set" /\ cl'[c].f = cl[c].f /\ cl'[c].op = cl[c].op /\ cl'[c].to = cl[c].to
          /\ cl'[c].m = md[cl[c].f]
      BY <2>3 DEF Goes, Ready
    <2>5. Nameless(cl[c].f) => Nameless(cl[c].f)'
      BY <2>3, <2>4 DEF Nameless
    <2>6. md[cl[c].f] \in {None, Empty} => Nameless(cl[c].f)
      <3>1. cl[c].f # None
        BY <2>2, NamespaceAssumption DEF Fid
      <3> QED BY <3>1 DEF EntryInv, EntriesAre, Nameless
    <2>7. HoldsFile(c)'
      BY <1>a, <2>1, <2>2, <2>3, <2>4, <2>5, <2>6 DEF HoldsFile
    <2>8. \A b \in Client : b # c /\ cl[b].pc = "newrec" => cl[b].f # cl[c].f
      BY <2>1 DEF EntryInv, Alone
    <2> QED BY <2>3, <2>7, <2>8, EntryGoes
  <1>7. CASE Set(c)
    <2>1. /\ Goes(c, "unlock", cl[c].f, cl[c].m, cl[c].proc)
          /\ cl[c].pc = "set" /\ cl[c].f \in Fid /\ UNCHANGED <<kind, ents, lock, use>>
          /\ \A g \in Fid : g # cl[c].f => md'[g] = md[g]
      BY <1>7, SetGoes
    <2>2. cl[c].m \notin {None, Empty} => md'[cl[c].f] \in Int
      <3>1. cl[c].m \notin {None, Empty} =>
              /\ cl[c].m \in Int
              /\ md'[cl[c].f] = cl[c].m + (IF cl[c].op = "link" THEN 1 ELSE -1)
        BY <1>7, SetGoes
      <3> QED BY <3>1
    <2>3. EntriesAre'
      <3>1. ASSUME NEW d \in Fid, NEW n \in Name, ents'[d][n] # None
            PROVE  md'[ents'[d][n]] \notin {None, Empty} /\ kind'[ents'[d][n]] = "file"
        <4>1. ents'[d][n] = ents[d][n] /\ ents[d][n] \in Fid /\ kind'[ents[d][n]] = "file"
          BY <1>a, <2>1, <3>1 DEF TypeInv, EntryInv, EntriesAre
        <4>2. CASE ents[d][n] = cl[c].f
          <5>1. cl[c].m \notin {None, Empty}
            BY <1>a, <2>1, <4>2 DEF HoldsFile, Nameless
          <5> QED BY <2>2, <4>1, <4>2, <5>1, NamespaceAssumption
        <4>3. CASE ents[d][n] # cl[c].f
          BY <2>1, <3>1, <4>1, <4>3 DEF EntryInv, EntriesAre
        <4> QED BY <4>1, <4>2, <4>3
      <3> QED BY <3>1 DEF EntriesAre
    <2>4. OneEntry' /\ KindKept
      BY <2>1 DEF EntryInv, OneEntry, KindKept
    <2>5. /\ cl'[c].pc = "unlock" /\ cl'[c].f = cl[c].f /\ cl'[c].op = cl[c].op /\ cl'[c].to = cl[c].to
          /\ \A b \in Client : b # c => cl'[b] = cl[b]
      BY <2>1 DEF Goes, Ready
    <2>6. Nameless(cl[c].f) => Nameless(cl[c].f)'
      BY <2>1, <2>5 DEF Nameless
    <2>7. HoldsFile(c)'
      BY <1>a, <2>1, <2>5, <2>6 DEF HoldsFile
    <2>8. ASSUME NEW b \in Client, b # c, cl[b].pc = "newrec"
          PROVE  cl[b].f # cl[c].f /\ md'[cl[b].f] = md[cl[b].f]
      <3>1. cl[b].f # cl[c].f
        BY <2>1, <2>8 DEF EntryInv, Alone, WithFile
      <3>2. cl[b].f \in Fid
        BY <2>8, FlowOf DEF Flow, WithFile, Ready
      <3> QED BY <2>1, <3>1, <3>2
    <2> QED BY <2>1, <2>3, <2>4, <2>5, <2>7, <2>8, EntryStep
  <1>8. CASE Unlock(c)
    <2>1. cl[c].pc = "unlock" /\ UNCHANGED <<kind, md, ents, use>>
      BY <1>8, UnlockEffect
    <2>2. CASE Goes(c, "failed", cl[c].f, cl[c].m, cl[c].proc)
      BY <2>1, <2>2, EntryStops
    <2>3. CASE cl[c].op \notin {"create", "link"} /\ Goes(c, "hdel", cl[c].f, cl[c].m, cl[c].proc)
      <3>1. cl'[c].pc = "hdel" /\ cl'[c].f = cl[c].f /\ cl'[c].op = "unlink" /\ cl'[c].to = cl[c].to
        BY <1>b, <2>3 DEF Goes, Ready
      <3>2. HoldsFile(c)'
        BY <1>a, <1>b, <2>1, <2>3, <3>1 DEF HoldsFile
      <3>3. \A b \in Client : b # c /\ cl[b].pc = "newrec" => cl[b].f # cl[c].f
        BY <2>1 DEF EntryInv, Alone, WithFile
      <3> QED BY <2>1, <2>3, <3>2, <3>3, EntryGoes
    <2> QED BY <1>8, <1>c, <2>2, <2>3, UnlockEffect
  <1>9. CASE Hdel(c)
    <2>1. cl[c].pc = "hdel" /\ cl[c].op = "unlink" /\ "hdel" \in WithFile
      BY <1>9, <1>b DEF Hdel, Flow, WithFile
    <2>2. UNCHANGED <<kind, md, lock, use>> /\ KindKept
      BY <1>9 DEF Hdel, KindKept
    <2>3. CASE ents' = ents /\ Goes(c, "failed", cl[c].f, cl[c].m, cl[c].proc)
      BY <2>2, <2>3, EntryStops
    <2>4. ASSUME NEW pc \in {"remove", "done"}, Puts(cl[c].to[1], cl[c].to[2], None),
                 Goes(c, pc, cl[c].f, cl[c].m, cl[c].proc)
          PROVE  EntryInv'
      <3>1. PICK d0 \in Fid, n0 \in Name : d0 = cl[c].to[1] /\ n0 = cl[c].to[2] /\ cl[c].to = <<d0, n0>>
        BY <1>b
      <3>2. /\ ents'[d0][n0] = None
            /\ \A e \in Fid, k \in Name : (e # d0 \/ k # n0) => ents'[e][k] = ents[e][k]
        BY <2>4, <3>1 DEF Puts
      <3>3. EntriesAre'
        BY <2>2, <3>2 DEF EntryInv, EntriesAre
      <3>4. OneEntry'
        BY <3>2 DEF EntryInv, OneEntry
      <3>5. cl'[c].pc = pc /\ (pc \in WithFile => cl'[c].f = cl[c].f) /\ \A b \in Client : b # c => cl'[b] = cl[b]
        BY <2>4 DEF Goes, Ready, WithFile
      <3>6. cl[c].f \in Fid /\ cl[c].f # None
        BY <1>b, <2>1, NamespaceAssumption DEF Flow, Fid
      <3>7. HoldsFile(c)'
        <4>1. CASE pc = "done"
          BY <3>5, <4>1 DEF HoldsFile
        <4>2. CASE pc = "remove"
          <5>1. \A d \in Fid, n \in Name : ents[d][n] = cl[c].f => d = d0 /\ n = n0
            BY <1>a, <2>1, <3>1 DEF HoldsFile
          <5>2. cl'[c].f = cl[c].f
            BY <3>5, <4>2 DEF WithFile
          <5>3. \A d \in Fid, n \in Name : ents'[d][n] # cl'[c].f
            BY <3>2, <3>6, <5>1, <5>2
          <5>4. Nameless(cl[c].f)'
            BY <5>3 DEF Nameless
          <5> QED BY <3>5, <4>2, <5>4 DEF HoldsFile
        <4> QED BY <4>1, <4>2
      <3>8. ASSUME NEW b \in Client, b # c, cl[b].pc \in WithFile
            PROVE  \A d \in Fid, n \in Name : ents'[d][n] = cl[b].f => ents[d][n] = cl[b].f
        <4>1. cl[b].f # None
          BY <3>8, FlowOf, NamespaceAssumption DEF Flow, WithFile, Ready, Fid
        <4> QED BY <3>2, <4>1
      <3>9. ASSUME NEW b \in Client, b # c, cl[b].pc = "newrec"
            PROVE  cl[b].f # cl[c].f
        BY <2>1, <3>9 DEF EntryInv, Alone
      <3>10. pc # "newrec"
        OBVIOUS
      <3> QED BY <2>2, <3>3, <3>4, <3>5, <3>7, <3>8, <3>9, <3>10, EntryStep
    <2> QED BY <1>9, <1>c, <2>3, <2>4, HdelEffect
  <1>10. CASE Remove(c)
    <2>1. cl[c].pc = "remove" /\ "remove" \in WithFile
      BY <1>10 DEF Remove, WithFile
    <2>2. /\ Clears(cl[c].f) /\ cl[c].f \in Fid /\ UNCHANGED <<kind, lock, use>>
          /\ Goes(c, "done", cl[c].f, cl[c].m, cl[c].proc)
      BY <1>10, <1>c, RemoveEffect
    <2>3. Nameless(cl[c].f)
      BY <1>a, <2>1 DEF HoldsFile
    <2>4. /\ \A d \in Fid, n \in Name : ents'[d][n] = None \/ ents'[d][n] = ents[d][n]
          /\ \A g \in Fid : g # cl[c].f => md'[g] = md[g]
      BY <2>2 DEF Clears
    <2>5. EntriesAre'
      <3>1. ASSUME NEW d \in Fid, NEW n \in Name, ents'[d][n] # None
            PROVE  md'[ents'[d][n]] \notin {None, Empty} /\ kind'[ents'[d][n]] = "file"
        <4>1. ents'[d][n] = ents[d][n] /\ ents[d][n] \in Fid /\ ents[d][n] # cl[c].f
          BY <1>a, <2>3, <2>4, <3>1 DEF TypeInv, Nameless
        <4> QED BY <2>2, <2>4, <3>1, <4>1 DEF EntryInv, EntriesAre
      <3> QED BY <3>1 DEF EntriesAre
    <2>6. OneEntry'
      BY <2>4 DEF EntryInv, OneEntry
    <2>7. cl'[c].pc = "done" /\ \A b \in Client : b # c => cl'[b] = cl[b]
      BY <2>2 DEF Goes
    <2>8. HoldsFile(c)' /\ KindKept /\ "done" \notin WithFile
      BY <2>2, <2>7 DEF HoldsFile, KindKept, WithFile
    <2>9. ASSUME NEW b \in Client, b # c, cl[b].pc \in WithFile
          PROVE  \A d \in Fid, n \in Name : ents'[d][n] = cl[b].f => ents[d][n] = cl[b].f
      <3>1. cl[b].f # None
        BY <2>9, FlowOf, NamespaceAssumption DEF Flow, WithFile, Ready, Fid
      <3> QED BY <2>4, <3>1
    <2>10. ASSUME NEW b \in Client, b # c, cl[b].pc = "newrec"
           PROVE  md'[cl[b].f] = md[cl[b].f]
      <3>1. cl[b].f # cl[c].f
        BY <2>1, <2>10 DEF EntryInv, Alone
      <3>2. cl[b].f \in Fid
        BY <2>10, FlowOf DEF Flow, WithFile, Ready
      <3> QED BY <2>4, <3>1, <3>2
    <2> QED BY <2>5, <2>6, <2>7, <2>8, <2>9, <2>10, EntryStep
  <1>11. CASE \/ Count(c) \/ Kdel(c) \/ Src(c) \/ Dst(c) \/ Again(c) \/ DelSrc(c) \/ From(c)
              \/ FromAttr(c) \/ To(c) \/ ToAttr(c) \/ ChildCount(c)
    <2>1. cl[c].pc \in {"count", "kdel", "src", "dst", "again", "delsrc", "from", "fromattr", "to",
                        "toattr", "childcount"}
      BY <1>11 DEF Count, Kdel, Src, Dst, Again, DelSrc, From, FromAttr, To, ToAttr, ChildCount
    <2> QED BY <1>a, <1>b, <1>c, <2>1 DEF Flow, HoldsFile
  <1> QED
    BY <1>1, <1>2, <1>3, <1>4, <1>5, <1>6, <1>7, <1>8, <1>9, <1>10, <1>11 DEF Step

LEMMA EntryNext ==
  ASSUME ShapeInv, EntryInv, CreateUnlink, [Next]_vars
  PROVE  EntryInv'
  <1>1. CASE UNCHANGED vars
    BY <1>1 DEF vars, EntryInv, EntriesAre, OneEntry, Alone, HoldsFile, Nameless
  <1>2. ASSUME NEW c \in Client, NEW op \in use.ops, NEW to \in Place, NEW from \in Place,
               NEW f \in Fid \cup {None}, op = "link" => f \in Linkable, Call(c, op, from, to, f)
        PROVE  EntryInv'
    <2>1. Begins(c, op, from, to, f)
      BY <1>2, ShapeCall
    <2>2. op \in {"create", "unlink"}
      BY DEF CreateUnlink
    <2>3. cl'[c].pc \in {"parent", "lookup"} /\ \A b \in Client : b # c => cl'[b] = cl[b]
      BY <2>1, <2>2 DEF Begins
    <2>4. UNCHANGED <<kind, md, ents>>
      BY <2>1 DEF Begins
    <2>a. KindKept /\ EntriesAre' /\ OneEntry'
      BY <2>4 DEF KindKept, EntryInv, EntriesAre, OneEntry
    <2>5. HoldsFile(c)' /\ cl'[c].pc \notin WithFile /\ cl'[c].pc # "newrec"
      BY <2>3 DEF HoldsFile, WithFile
    <2> QED BY <2>3, <2>4, <2>a, <2>5, EntryStep
  <1>3. CASE \E c \in Client : Step(c)
    BY <1>3, EntryClient
  <1>4. ASSUME NEW c \in Client, Crash(c)
        PROVE  EntryInv'
    BY <1>4, ShapeCrash, EntryStops DEF Crash
  <1>5. ASSUME NEW f \in Fid, LockExpire(f)
        PROVE  EntryInv'
    <2>1. UNCHANGED <<kind, md, ents, cl>>
      BY <1>5 DEF LockExpire
    <2> QED BY <2>1 DEF EntryInv, EntriesAre, OneEntry, Alone, HoldsFile, Nameless
  <1> QED BY <1>1, <1>2, <1>3, <1>4, <1>5, NextSteps

-----------------------------------------------------------------------------
(* Clients only add names.                                                 *)
AddNames == use.ops \cap {"unlink", "rmdir", "rename"} = {}

LEMMA FiniteCounts ==
  ASSUME ShapeInv, NEW f \in Fid
  PROVE  IsFiniteSet(Names(f)) /\ IsFiniteSet(Owed(f))
  <1>1. IsFiniteSet(Fid)
    BY FS_Interval, NamespaceAssumption DEF Fid
  <1>2. IsFiniteSet(Fid \X Name)
    BY <1>1, FS_Product, NamespaceAssumption
  <1>3. Names(f) \subseteq Fid \X Name
    BY DEF Names, Place
  <1>4. Owed(f) \subseteq Client
    BY DEF Owed
  <1> QED BY <1>2, <1>3, <1>4, FS_Subset, NamespaceAssumption

LEMMA NamesKept ==
  ASSUME ShapeInv, KindKept, NEW f \in Fid,
         \A d \in Fid, n \in Name : ents'[d][n] = f => ents[d][n] = f
  PROVE  Names(f)' \subseteq Names(f)
  <1>1. ASSUME NEW e \in Names(f)'
        PROVE  e \in Names(f)
    <2>1. e \in Fid \X Name /\ e[1] \in Fid /\ e[2] \in Name /\ kind'[e[1]] = "dir"
      BY DEF Names, Place
    <2>2. ents'[e[1]][e[2]] = f
      BY DEF Names, Entry
    <2>3. ents[e[1]][e[2]] = f /\ f # None
      BY <2>1, <2>2, NamespaceAssumption DEF Fid
    <2>4. kind[e[1]] # "new"
      BY <2>1, <2>3 DEF ShapeInv, FlowInv
    <2>5. kind[e[1]] = "dir"
      BY <2>1, <2>4 DEF KindKept
    <2> QED BY <2>1, <2>3, <2>5 DEF Names, Place, Entry
  <1> QED BY <1>1

LEMMA OwedKept ==
  ASSUME NEW c \in Client, NEW f \in Fid, \A b \in Client : b # c => cl'[b] = cl[b],
         c \in Owed(f)' => c \in Owed(f)
  PROVE  Owed(f)' \subseteq Owed(f)
  BY DEF Owed

(* A step that makes no name of f and raises no claim to one.              *)
LEMMA CountedKept ==
  ASSUME ShapeInv, LinkInv, NEW c \in Client, NEW f \in Fid, KindKept,
         \A b \in Client : b # c => cl'[b] = cl[b],
         kind'[f] = "file" => kind[f] = "file" /\ md'[f] = md[f],
         \A d \in Fid, n \in Name : ents'[d][n] = f => ents[d][n] = f,
         c \in Owed(f)' => c \in Owed(f)
  PROVE  Counted(f)'
  <1>1. SUFFICES ASSUME kind'[f] = "file"
                 PROVE  md'[f] \in Nat /\ Cardinality(Names(f)') + Cardinality(Owed(f)') <= md'[f]
    BY DEF Counted
  <1>2. /\ md[f] \in Nat /\ Cardinality(Names(f)) + Cardinality(Owed(f)) <= md[f]
        /\ md'[f] = md[f]
    BY <1>1 DEF LinkInv, Counted
  <1>3. Names(f)' \subseteq Names(f)
    BY NamesKept
  <1>4. Owed(f)' \subseteq Owed(f)
    BY OwedKept
  <1>5. IsFiniteSet(Names(f)) /\ IsFiniteSet(Owed(f))
    BY FiniteCounts
  <1>6. /\ Cardinality(Names(f)') \in Nat /\ Cardinality(Names(f)') <= Cardinality(Names(f))
        /\ Cardinality(Owed(f)') \in Nat /\ Cardinality(Owed(f)') <= Cardinality(Owed(f))
    BY <1>3, <1>4, <1>5, FS_Subset, FS_CardinalityType
  <1>7. Cardinality(Names(f)) \in Nat /\ Cardinality(Owed(f)) \in Nat
    BY <1>5, FS_CardinalityType
  <1> QED BY <1>2, <1>6, <1>7

LEMMA LinkStep ==
  ASSUME ShapeInv, LinkInv, NEW c \in Client, \A b \in Client : b # c => cl'[b] = cl[b],
         \A f \in Fid : Counted(f)', Locked(c)',
         \A b \in Client : b # c /\ cl[b].pc \in {"get", "set", "unlock"} =>
           lock'[cl[b].f] = lock[cl[b].f],
         \A b \in Client : b # c /\ cl[b].pc = "set" => md'[cl[b].f] = md[cl[b].f]
  PROVE  LinkInv'
  <1>1. ASSUME NEW b \in Client, b # c
        PROVE  Locked(b)'
    <2>1. Locked(b) /\ cl'[b] = cl[b]
      BY <1>1 DEF LinkInv
    <2>2. cl[b].pc \in {"get", "set", "unlock"} => lock'[cl[b].f] = lock[cl[b].f]
      BY <1>1
    <2>3. cl[b].pc = "set" => md'[cl[b].f] = md[cl[b].f]
      BY <1>1
    <2> QED BY <2>1, <2>2, <2>3 DEF Locked
  <1>2. \A b \in Client : Locked(b)'
    BY <1>1
  <1> QED BY <1>2 DEF LinkInv

(* The same where nothing but c changes.                                   *)
LEMMA LinkGoes ==
  ASSUME ShapeInv, LinkInv, NEW c \in Client, NEW pc, NEW f, NEW m, NEW proc,
         Goes(c, pc, f, m, proc), UNCHANGED <<kind, md, ents, lock>>, Locked(c)',
         \A g \in Fid : c \in Owed(g)' => c \in Owed(g)
  PROVE  LinkInv'
  <1>1. KindKept /\ \A b \in Client : b # c => cl'[b] = cl[b]
    BY DEF KindKept, Goes
  <1>2. \A g \in Fid : Counted(g)'
    BY <1>1, CountedKept
  <1> QED BY <1>1, <1>2, LinkStep

LEMMA LinkStops ==
  ASSUME ShapeInv, LinkInv, NEW c \in Client, NEW pc \in {"done", "failed", "abort", "inode", "parent", "kdel"},
         NEW f, NEW m, NEW proc, Goes(c, pc, f, m, proc), UNCHANGED <<kind, md, ents, lock>>
  PROVE  LinkInv'
  <1>1. cl'[c].pc = pc
    BY DEF Goes
  <1>2. Locked(c)' /\ \A g \in Fid : c \notin Owed(g)'
    BY <1>1 DEF Locked, Owed
  <1> QED BY <1>2, LinkGoes

LEMMA LinkClient ==
  ASSUME ShapeInv, LinkInv, AddNames, NEW c \in Client, Step(c)
  PROVE  LinkInv'
  <1>a. TypeInv /\ Locked(c) /\ cl[c].pc \notin Ready
    BY DEF ShapeInv, LinkInv, Step, Ready, Parent, Inode, Newrec, Lookup, Count, Kdel, Lock,
       Get, Set, Unlock, Hdel, Remove, Src, Dst, Again, DelSrc, From, FromAttr, To, ToAttr,
       ChildCount
  <1>b. Flow(c) /\ cl[c].op \in {"create", "mkdir", "link"} /\ cl[c].to \in Fid \X Name
    <2>1. Flow(c) /\ cl[c].to \in Fid \X Name
      BY <1>a, FlowOf
    <2>2. cl[c].op \in Op
      BY <1>a, <2>1, NamespaceAssumption DEF Flow, TypeInv, Use
    <2>3. cl[c].op \notin {"unlink", "rmdir", "rename"}
      BY <2>1 DEF Flow, AddNames
    <2> QED BY <2>1, <2>2, <2>3 DEF Op
  <1>c. cl[c].op # "rename"
    BY <1>b
  <1>d. ASSUME NEW b \in Client, cl[b].pc \in WithFile
        PROVE  cl[b].f \in Fid /\ kind[cl[b].f] # "new"
    BY <1>d, FlowOf DEF Flow, WithFile, Ready
  <1>e. \A b \in Client : cl[b].pc \in {"get", "set", "unlock"} => lock[cl[b].f] = b
    BY DEF LinkInv, Locked
  <1>1. CASE Parent(c)
    BY <1>1, ParentEffect, LinkStops DEF Parent
  <1>2. CASE Inode(c)
    <2>1. PICK f \in Fid :
            /\ kind[f] = "new" /\ Goes(c, "newrec", f, cl[c].m, cl[c].proc)
            /\ kind'[f] = IF cl[c].op = "mkdir" THEN "dir" ELSE "file"
            /\ \A g \in Fid : g # f => kind'[g] = kind[g] /\ md'[g] = md[g]
            /\ md'[f] = 1 /\ KindKept /\ UNCHANGED <<ents, lock, use>>
      BY <1>2, InodeEffect
    <2>2. cl'[c].pc = "newrec" /\ cl'[c].f = f /\ \A b \in Client : b # c => cl'[b] = cl[b]
      BY <2>1 DEF Goes, Ready
    <2>3. ASSUME NEW d \in Fid, NEW n \in Name
          PROVE  ents[d][n] # f
      BY <2>1, NamespaceAssumption DEF ShapeInv, FlowInv, Fid
    <2>4. Counted(f)'
      <3>1. Names(f)' = {}
        BY <2>1, <2>3 DEF Names, Entry, Place
      <3>2. Owed(f)' \subseteq {c}
        <4>1. ASSUME NEW b \in Client, b # c, b \in Owed(f)'
              PROVE  FALSE
          <5>1. cl[b].f = f /\ cl[b].pc \in WithFile
            BY <2>2, <4>1 DEF Owed, WithFile
          <5> QED BY <1>d, <2>1, <5>1
        <4> QED BY <4>1 DEF Owed
      <3>3. Cardinality(Names(f)') = 0
        BY <3>1, FS_EmptySet, Zenon
      <3>4. Cardinality(Owed(f)') \in Nat /\ Cardinality(Owed(f)') <= 1
        <4>1. IsFiniteSet({c}) /\ Cardinality({c}) = 1
          BY FS_Singleton
        <4> QED BY <3>2, <4>1, FS_Subset, FS_CardinalityType
      <3> QED BY <2>1, <3>3, <3>4 DEF Counted
    <2>5. ASSUME NEW g \in Fid, g # f
          PROVE  Counted(g)'
      <3>1. c \in Owed(g)' => c \in Owed(g)
        BY <2>2, <2>5 DEF Owed
      <3> QED BY <2>1, <2>2, <2>5, <3>1, CountedKept
    <2>6. \A g \in Fid : Counted(g)'
      BY <2>4, <2>5
    <2>7. Locked(c)'
      BY <2>2 DEF Locked
    <2>8. ASSUME NEW b \in Client, b # c, cl[b].pc = "set"
          PROVE  md'[cl[b].f] = md[cl[b].f]
      <3>1. cl[b].pc \in WithFile
        BY <2>8 DEF WithFile
      <3>2. cl[b].f \in Fid /\ cl[b].f # f
        BY <1>d, <2>1, <3>1
      <3> QED BY <2>1, <3>2
    <2> QED BY <2>1, <2>2, <2>6, <2>7, <2>8, LinkStep
  <1>3. CASE Newrec(c)
    <2>1. cl[c].pc = "newrec"
      BY <1>3 DEF Newrec
    <2>2. cl[c].f \in Fid /\ cl[c].to[1] \in Fid /\ cl[c].to[2] \in Name
      BY <1>b, <1>d, <2>1 DEF WithFile
    <2>3. UNCHANGED <<kind, md, lock, use>> /\ KindKept
      BY <1>3 DEF Newrec, KindKept
    <2>4. CASE /\ Entry(cl[c].to) = None /\ Puts(cl[c].to[1], cl[c].to[2], cl[c].f)
               /\ Goes(c, "done", cl[c].f, cl[c].m, cl[c].proc)
      <3>1. PICK d0 \in Fid, n0 \in Name, f \in Fid :
              d0 = cl[c].to[1] /\ n0 = cl[c].to[2] /\ f = cl[c].f
        BY <2>2
      <3>2. /\ ents'[d0][n0] = f
            /\ \A e \in Fid, k \in Name : (e # d0 \/ k # n0) => ents'[e][k] = ents[e][k]
        BY <2>4, <3>1 DEF Puts
      <3>3. cl'[c].pc = "done" /\ \A b \in Client : b # c => cl'[b] = cl[b]
        BY <2>4 DEF Goes
      <3>4. \A g \in Fid : c \notin Owed(g)'
        BY <3>3 DEF Owed
      <3>5. ASSUME NEW g \in Fid, g # f
            PROVE  Counted(g)'
        BY <2>3, <3>2, <3>3, <3>4, <3>5, CountedKept
      <3>6. Counted(f)'
        <4>1. SUFFICES ASSUME kind'[f] = "file"
                       PROVE  md'[f] \in Nat /\ Cardinality(Names(f)') + Cardinality(Owed(f)') <= md'[f]
          BY DEF Counted
        <4>2. /\ md[f] \in Nat /\ Cardinality(Names(f)) + Cardinality(Owed(f)) <= md[f]
              /\ md'[f] = md[f] /\ kind[f] = "file"
          BY <2>3, <4>1 DEF LinkInv, Counted
        <4>3. c \in Owed(f)
          BY <1>b, <2>1, <3>1, <4>2 DEF Owed, Flow
        <4>4. Owed(f)' \subseteq Owed(f) \ {c}
          BY <3>3, <3>4 DEF Owed
        <4>5. Names(f)' \subseteq Names(f) \cup {<<d0, n0>>}
          <5>1. ASSUME NEW e \in Names(f)', e # <<d0, n0>>
                PROVE  e \in Names(f)
            <6>1. e \in Fid \X Name /\ e[1] \in Fid /\ e[2] \in Name /\ kind'[e[1]] = "dir"
              BY DEF Names, Place
            <6>2. ents'[e[1]][e[2]] = f
              BY DEF Names, Entry
            <6>3. e[1] # d0 \/ e[2] # n0
              BY <5>1, <6>1
            <6>4. ents[e[1]][e[2]] = f
              BY <3>2, <6>1, <6>2, <6>3
            <6> QED BY <2>3, <6>1, <6>4 DEF Names, Place, Entry
          <5> QED BY <5>1
        <4>6. IsFiniteSet(Names(f)) /\ IsFiniteSet(Owed(f))
          BY FiniteCounts
        <4>7. /\ IsFiniteSet(Owed(f) \ {c})
              /\ Cardinality(Owed(f) \ {c}) = Cardinality(Owed(f)) - 1
          BY <4>3, <4>6, FS_RemoveElement
        <4>8. /\ IsFiniteSet(Names(f) \cup {<<d0, n0>>})
              /\ Cardinality(Names(f) \cup {<<d0, n0>>}) <= Cardinality(Names(f)) + 1
          <5>1. /\ IsFiniteSet(Names(f) \cup {<<d0, n0>>})
                /\ Cardinality(Names(f) \cup {<<d0, n0>>}) =
                     IF <<d0, n0>> \in Names(f) THEN Cardinality(Names(f)) ELSE Cardinality(Names(f)) + 1
            BY <4>6, FS_AddElement
          <5>2. Cardinality(Names(f)) \in Nat
            BY <4>6, FS_CardinalityType
          <5> QED BY <5>1, <5>2
        <4>9. /\ Cardinality(Names(f)') \in Nat /\ Cardinality(Owed(f)') \in Nat
              /\ Cardinality(Names(f)') <= Cardinality(Names(f) \cup {<<d0, n0>>})
              /\ Cardinality(Owed(f)') <= Cardinality(Owed(f) \ {c})
          BY <4>4, <4>5, <4>7, <4>8, FS_Subset, FS_CardinalityType
        <4>10. /\ Cardinality(Names(f)) \in Nat /\ Cardinality(Owed(f)) \in Nat
               /\ Cardinality(Names(f) \cup {<<d0, n0>>}) \in Nat
          BY <4>6, <4>8, FS_CardinalityType
        <4> QED BY <4>2, <4>7, <4>8, <4>9, <4>10
      <3>7. \A g \in Fid : Counted(g)'
        BY <3>5, <3>6
      <3>8. Locked(c)'
        BY <3>3 DEF Locked
      <3> QED BY <2>3, <3>3, <3>7, <3>8, LinkStep
    <2>5. CASE /\ ents' = ents
               /\ \/ Goes(c, "kdel", cl[c].f, cl[c].m, cl[c].proc)
                  \/ Goes(c, "failed", cl[c].f, cl[c].m, cl[c].proc)
      BY <2>3, <2>5, LinkStops
    <2>6. CASE ents' = ents /\ cl[c].op = "create" /\ Goes(c, "lock", cl[c].f, cl[c].m, cl[c].proc)
      <3>1. cl'[c].pc = "lock" /\ cl'[c].f = cl[c].f /\ cl'[c].op = cl[c].op
        BY <2>6 DEF Goes, Ready
      <3>2. Locked(c)' /\ \A g \in Fid : c \in Owed(g)' => c \in Owed(g)
        BY <2>1, <2>6, <3>1 DEF Locked, Owed
      <3> QED BY <2>3, <2>6, <3>2, LinkGoes
    <2> QED BY <1>3, <1>c, <2>4, <2>5, <2>6, NewrecEffect
  <1>4. CASE Kdel(c)
    <2>1. cl[c].pc = "kdel" /\ cl[c].op = "mkdir" /\ kind[cl[c].f] = "dir" /\ cl[c].f \in Fid
      BY <1>4, <1>b DEF Kdel, Flow, WithFile
    <2>2. Clears(cl[c].f) /\ UNCHANGED <<kind, lock, use>> /\ KindKept
      BY <1>4, <1>a, <2>1, ClearEffect DEF Kdel, KindKept
    <2>3. "failed" \in Pc
      BY DEF Pc, Ready
    <2>4. Goes(c, "failed", cl[c].f, cl[c].m, cl[c].proc)
      BY <1>4, <1>a, <2>1, <2>3, GotoGoes DEF Kdel
    <2>5. cl'[c].pc = "failed" /\ \A b \in Client : b # c => cl'[b] = cl[b]
      BY <2>4 DEF Goes
    <2>6. Locked(c)' /\ \A g \in Fid : c \notin Owed(g)'
      BY <2>5 DEF Locked, Owed
    <2>7. /\ \A d \in Fid, n \in Name : ents'[d][n] = None \/ ents'[d][n] = ents[d][n]
          /\ \A g \in Fid : g # cl[c].f => md'[g] = md[g]
      BY <2>2 DEF Clears
    <2>8. ASSUME NEW g \in Fid
          PROVE  Counted(g)'
      <3>1. g # None
        BY NamespaceAssumption DEF Fid
      <3>2. \A d \in Fid, n \in Name : ents'[d][n] = g => ents[d][n] = g
        BY <2>7, <3>1
      <3>3. kind'[g] = "file" => kind[g] = "file" /\ md'[g] = md[g]
        BY <2>1, <2>2, <2>7
      <3> QED BY <2>2, <2>5, <2>6, <3>2, <3>3, CountedKept
    <2>9. ASSUME NEW b \in Client, b # c, cl[b].pc = "set"
          PROVE  md'[cl[b].f] = md[cl[b].f]
      <3>1. cl[b].f \in Fid /\ kind[cl[b].f] = "file"
        BY <2>9, FlowOf DEF Flow, WithFile, Ready
      <3> QED BY <2>1, <2>7, <3>1
    <2> QED BY <2>2, <2>5, <2>6, <2>8, <2>9, LinkStep
  <1>5. CASE Lock(c)
    <2>1. cl[c].pc = "lock"
      BY <1>5 DEF Lock
    <2>2. /\ Goes(c, "get", cl[c].f, cl[c].m, cl[c].proc)
          /\ cl[c].f \in Fid /\ lock[cl[c].f] = None /\ lock'[cl[c].f] = c
          /\ \A g \in Fid : g # cl[c].f => lock'[g] = lock[g]
          /\ UNCHANGED <<kind, md, ents, use>>
      BY <1>5, LockEffect
    <2>3. /\ cl'[c].pc = "get" /\ cl'[c].f = cl[c].f /\ cl'[c].op = cl[c].op
          /\ \A b \in Client : b # c => cl'[b] = cl[b]
      BY <2>2 DEF Goes, Ready
    <2>4. Locked(c)' /\ KindKept /\ \A g \in Fid : c \in Owed(g)' => c \in Owed(g)
      BY <2>1, <2>2, <2>3 DEF Locked, Owed, KindKept
    <2>5. \A g \in Fid : Counted(g)'
      BY <2>2, <2>3, <2>4, CountedKept
    <2>6. ASSUME NEW b \in Client, b # c, cl[b].pc \in {"get", "set", "unlock"}
          PROVE  lock'[cl[b].f] = lock[cl[b].f]
      <3>1. cl[b].f \in Fid /\ lock[cl[b].f] = b /\ b # None
        BY <1>d, <1>e, <2>6, NamespaceAssumption DEF WithFile
      <3> QED BY <2>2, <3>1
    <2> QED BY <2>2, <2>3, <2>4, <2>5, <2>6, LinkStep
  <1>6. CASE Get(c)
    <2>1. cl[c].pc = "get"
      BY <1>6 DEF Get
    <2>2. kind[cl[c].f] = "file" /\ cl[c].f \in Fid
      BY <1>b, <2>1 DEF Flow, WithFile
    <2>3. /\ Goes(c, "set", cl[c].f, md[cl[c].f], cl[c].proc)
          /\ UNCHANGED <<kind, md, ents, lock, use>>
      BY <1>6, <2>2, GetEffect
    <2>4. /\ cl'[c].pc = "set" /\ cl'[c].f = cl[c].f /\ cl'[c].op = cl[c].op
          /\ cl'[c].m = md[cl[c].f]
      BY <2>3 DEF Goes, Ready
    <2>5. Locked(c)'
      BY <1>a, <2>1, <2>3, <2>4 DEF Locked
    <2>6. \A g \in Fid : c \in Owed(g)' => c \in Owed(g)
      BY <2>1, <2>4 DEF Owed
    <2> QED BY <2>3, <2>5, <2>6, LinkGoes
  <1>7. CASE Set(c)
    <2>1. /\ Goes(c, "unlock", cl[c].f, cl[c].m, cl[c].proc)
          /\ cl[c].pc = "set" /\ cl[c].f \in Fid /\ kind[cl[c].f] = "file"
          /\ UNCHANGED <<kind, ents, lock, use>>
          /\ \A g \in Fid : g # cl[c].f => md'[g] = md[g]
      BY <1>7, SetGoes
    <2>2. PICK f \in Fid : f = cl[c].f
      BY <2>1
    <2>3. /\ md[f] \in Nat /\ Cardinality(Names(f)) + Cardinality(Owed(f)) <= md[f]
          /\ cl[c].m = md[f] /\ lock[f] = c
      BY <1>a, <2>1, <2>2 DEF LinkInv, Counted, Locked
    <2>4. md'[f] = md[f] + (IF cl[c].op = "link" THEN 1 ELSE -1)
      <3>1. cl[c].m \notin {None, Empty}
        BY <2>3, NamespaceAssumption
      <3> QED BY <1>7, <2>2, <2>3, <3>1, SetGoes
    <2>5. /\ cl'[c].pc = "unlock" /\ cl'[c].f = f /\ cl'[c].op = cl[c].op
          /\ \A b \in Client : b # c => cl'[b] = cl[b]
      BY <2>1, <2>2 DEF Goes, Ready
    <2>6. Names(f)' = Names(f)
      BY <2>1, <2>5 DEF Names, Place, Entry
    <2>7. IsFiniteSet(Names(f)) /\ IsFiniteSet(Owed(f))
      BY FiniteCounts
    <2>8. Cardinality(Names(f)) \in Nat /\ Cardinality(Owed(f)) \in Nat
      BY <2>7, FS_CardinalityType
    <2>9. Cardinality(Names(f)') = Cardinality(Names(f))
      BY <2>6, Zenon
    <2>10. Counted(f)'
      <3>1. CASE cl[c].op = "link"
        <4>1. Owed(f)' \subseteq Owed(f) \cup {c}
          BY <2>5 DEF Owed
        <4>2. /\ IsFiniteSet(Owed(f) \cup {c})
              /\ Cardinality(Owed(f) \cup {c}) =
                   IF c \in Owed(f) THEN Cardinality(Owed(f)) ELSE Cardinality(Owed(f)) + 1
          BY <2>7, FS_AddElement
        <4>3. /\ Cardinality(Owed(f)') \in Nat
              /\ Cardinality(Owed(f)') <= Cardinality(Owed(f) \cup {c})
          BY <4>1, <4>2, FS_Subset, FS_CardinalityType
        <4>4. md'[f] = md[f] + 1
          BY <2>4, <3>1
        <4>5. Cardinality(Owed(f)') <= Cardinality(Owed(f)) + 1
          BY <2>8, <4>2, <4>3
        <4>6. md'[f] \in Nat /\ Cardinality(Names(f)') + Cardinality(Owed(f)') <= md'[f]
          BY <2>3, <2>8, <2>9, <4>3, <4>4, <4>5
        <4> QED BY <4>6 DEF Counted
      <3>2. CASE cl[c].op = "create"
        <4>1. c \in Owed(f)
          BY <2>1, <2>2, <3>2 DEF Owed
        <4>2. Owed(f)' \subseteq Owed(f) \ {c}
          BY <2>5, <3>2 DEF Owed
        <4>3. /\ IsFiniteSet(Owed(f) \ {c})
              /\ Cardinality(Owed(f) \ {c}) = Cardinality(Owed(f)) - 1
          BY <2>7, <4>1, FS_RemoveElement
        <4>4. Cardinality(Owed(f)') \in Nat /\ Cardinality(Owed(f)') <= Cardinality(Owed(f) \ {c})
          BY <4>2, <4>3, FS_Subset, FS_CardinalityType
        <4>5. md'[f] = md[f] - 1
          BY <2>3, <2>4, <3>2
        <4>6. Cardinality(Owed(f)') <= Cardinality(Owed(f)) - 1
          BY <2>8, <4>3, <4>4
        <4>7. md'[f] \in Nat /\ Cardinality(Names(f)') + Cardinality(Owed(f)') <= md'[f]
          BY <2>3, <2>8, <2>9, <4>4, <4>5, <4>6
        <4> QED BY <4>7 DEF Counted
      <3>3. cl[c].op # "mkdir"
        BY <1>b, <2>1 DEF Flow
      <3> QED BY <1>b, <3>1, <3>2, <3>3
    <2>11. KindKept
      BY <2>1 DEF KindKept
    <2>12. ASSUME NEW g \in Fid, g # f
           PROVE  Counted(g)'
      <3>1. c \in Owed(g)' => c \in Owed(g)
        BY <2>5, <2>12 DEF Owed
      <3> QED BY <2>1, <2>2, <2>5, <2>11, <2>12, <3>1, CountedKept
    <2>13. \A g \in Fid : Counted(g)'
      BY <2>10, <2>12
    <2>14. Locked(c)'
      BY <2>1, <2>2, <2>3, <2>5 DEF Locked
    <2>15. ASSUME NEW b \in Client, b # c, cl[b].pc = "set"
           PROVE  md'[cl[b].f] = md[cl[b].f]
      <3>1. cl[b].f \in Fid /\ lock[cl[b].f] = b
        BY <1>d, <1>e, <2>15 DEF WithFile
      <3> QED BY <2>1, <2>2, <2>3, <2>15, <3>1
    <2> QED BY <2>1, <2>5, <2>13, <2>14, <2>15, LinkStep
  <1>8. CASE Unlock(c)
    <2>1. /\ cl[c].pc = "unlock" /\ cl[c].f \in Fid /\ lock'[cl[c].f] = None
          /\ \A g \in Fid : g # cl[c].f => lock'[g] = lock[g]
          /\ UNCHANGED <<kind, md, ents, use>>
      BY <1>8, UnlockEffect
    <2>2. lock[cl[c].f] = c
      BY <1>e, <2>1
    <2>3. cl[c].op \in {"create", "link"}
      BY <1>b, <2>1 DEF Flow
    <2>4. /\ \/ cl'[c].pc = "failed"
             \/ cl[c].op = "link" /\ cl'[c].pc = "newrec" /\ cl'[c].f = cl[c].f /\ cl'[c].op = cl[c].op
          /\ \A b \in Client : b # c => cl'[b] = cl[b]
      BY <1>8, <2>3, UnlockEffect DEF Goes, Ready
    <2>5. Locked(c)' /\ KindKept
      BY <2>1, <2>4 DEF Locked, KindKept
    <2>6. \A g \in Fid : c \in Owed(g)' => c \in Owed(g)
      BY <2>1, <2>4 DEF Owed
    <2>7. \A g \in Fid : Counted(g)'
      BY <2>1, <2>4, <2>5, <2>6, CountedKept
    <2>8. ASSUME NEW b \in Client, b # c, cl[b].pc \in {"get", "set", "unlock"}
          PROVE  lock'[cl[b].f] = lock[cl[b].f]
      <3>1. cl[b].f \in Fid /\ lock[cl[b].f] = b
        BY <1>d, <1>e, <2>8 DEF WithFile
      <3> QED BY <2>1, <2>2, <2>8, <3>1
    <2> QED BY <2>1, <2>4, <2>5, <2>7, <2>8, LinkStep
  <1>9. CASE \/ Lookup(c) \/ Count(c) \/ Hdel(c) \/ Remove(c) \/ Src(c) \/ Dst(c) \/ Again(c)
             \/ DelSrc(c) \/ From(c) \/ FromAttr(c) \/ To(c) \/ ToAttr(c) \/ ChildCount(c)
    <2>1. cl[c].pc \in {"lookup", "count", "hdel", "remove", "src", "dst", "again", "delsrc",
                        "from", "fromattr", "to", "toattr", "childcount"}
      BY <1>9 DEF Lookup, Count, Hdel, Remove, Src, Dst, Again, DelSrc, From, FromAttr, To,
         ToAttr, ChildCount
    <2> QED BY <1>b, <2>1 DEF Flow
  <1> QED
    BY <1>1, <1>2, <1>3, <1>4, <1>5, <1>6, <1>7, <1>8, <1>9 DEF Step

LEMMA LinkNext ==
  ASSUME ShapeInv, LinkInv, AddNames, [Next]_vars
  PROVE  LinkInv'
  <1>1. CASE UNCHANGED vars
    BY <1>1 DEF vars, LinkInv, Counted, Locked, Names, Owed, Place, Entry
  <1>2. ASSUME NEW c \in Client, NEW op \in use.ops, NEW to \in Place, NEW from \in Place,
               NEW f \in Fid \cup {None}, op = "link" => f \in Linkable, Call(c, op, from, to, f)
        PROVE  LinkInv'
    <2>1. Begins(c, op, from, to, f)
      BY <1>2, ShapeCall
    <2>2. cl'[c].pc \in {"parent", "lookup", "src", "lock"} /\ cl'[c].op = op
      BY <2>1 DEF Begins
    <2>3. UNCHANGED <<kind, md, ents, lock>> /\ \A b \in Client : b # c => cl'[b] = cl[b]
      BY <2>1 DEF Begins
    <2>4. cl'[c].pc = "lock" => op = "link"
      BY <2>1 DEF Begins
    <2>5. KindKept
      BY <2>3 DEF KindKept
    <2>6. Locked(c)' /\ \A g \in Fid : c \notin Owed(g)'
      BY <2>2, <2>4 DEF Locked, Owed
    <2>7. \A g \in Fid : Counted(g)'
      BY <2>3, <2>5, <2>6, CountedKept
    <2> QED BY <2>3, <2>6, <2>7, LinkStep
  <1>3. CASE \E c \in Client : Step(c)
    BY <1>3, LinkClient
  <1>4. ASSUME NEW c \in Client, Crash(c)
        PROVE  LinkInv'
    BY <1>4, ShapeCrash, LinkStops DEF Crash
  <1>5. ASSUME NEW f \in Fid, LockExpire(f)
        PROVE  LinkInv'
    <2>1. UNCHANGED <<kind, md, ents, cl>> /\ \A g \in Fid : g # f => lock'[g] = lock[g]
      BY <1>5 DEF LockExpire, ShapeInv, TypeInv
    <2>2. \A g \in Fid : Counted(g)'
      BY <2>1 DEF LinkInv, Counted, Names, Owed, Place, Entry
    <2>3. ASSUME NEW b \in Client
          PROVE  Locked(b)'
      <3>1. CASE cl[b].pc \in {"get", "set", "unlock"}
        <4>1. cl[b].f \in Fid /\ lock[cl[b].f] = b
          BY <3>1, FlowOf DEF Flow, WithFile, Ready, LinkInv, Locked
        <4>2. cl[b].f # f
          BY <1>5, <3>1, <4>1 DEF LockExpire
        <4>3. lock'[cl[b].f] = lock[cl[b].f]
          BY <2>1, <4>1, <4>2
        <4> QED BY <2>1, <4>1, <4>3 DEF LinkInv, Locked
      <3>2. CASE cl[b].pc \notin {"get", "set", "unlock"}
        BY <2>1, <3>2 DEF Locked
      <3> QED BY <3>1, <3>2
    <2> QED BY <2>2, <2>3 DEF LinkInv
  <1> QED BY <1>1, <1>2, <1>3, <1>4, <1>5, NextSteps

-----------------------------------------------------------------------------
(* One client at a time.  What it has read is what there is: between its   *)
(* commands nobody else changes an entry or a record.                      *)
OneAtATime == use.clients = 1

Solo == \A b, c \in Client : cl[b].pc \notin Ready /\ cl[c].pc \notin Ready => b = c

NoEntries(f) == \A n \in Name : ents[f][n] = None

Removing(c) == cl[c].op \in {"unlink", "rmdir", "rename"}

Knows(c) ==
  /\ cl[c].op = "rename" => cl[c].from # cl[c].to
  /\ cl[c].op = "rmdir" => cl[c].proc = "rmdir"
  /\ cl[c].op = "mkdir" /\ cl[c].pc \in {"newrec", "kdel"} => NoEntries(cl[c].f)
  /\ Removing(c) /\ cl[c].pc \in {"count", "kdel", "lock", "get", "set", "unlock", "hdel"} =>
       Entry(cl[c].to) \in {cl[c].f, None}
  /\ cl[c].op = "rename" /\ cl[c].pc \in {"toattr", "childcount", "lookup"} =>
       Entry(cl[c].to) = cl[c].f
  /\ cl[c].op = "rename" /\ cl[c].pc = "childcount" => cl[c].proc = "rmdir"
  /\ cl[c].op = "rename" /\ cl[c].pc = "lookup" /\ cl[c].proc # "rmdir" =>
       kind[cl[c].f] = "file" \/ md[cl[c].f] = None
  /\ cl[c].op = "unlink" /\ cl[c].pc = "lookup" /\ Entry(cl[c].to) # None =>
       kind[Entry(cl[c].to)] = "file"
  /\ Removing(c) /\ cl[c].pc = "get" => kind[cl[c].f] = "file" \/ md[cl[c].f] = None
  /\ Removing(c) /\ cl[c].pc = "kdel" /\ md[cl[c].f] # None => NoEntries(cl[c].f)
  /\ cl[c].op = "rename" /\ cl[c].pc = "newrec" => Entry(cl[c].from) = cl[c].f
  /\ cl[c].pc = "delsrc" => Entry(cl[c].from) = cl[c].f /\ Entry(cl[c].to) = cl[c].f
  /\ cl[c].op = "rename" /\ cl[c].pc \in {"again", "newrec"} => cl[c].dist = Entry(cl[c].to)
  /\ cl[c].pc = "delsrc" => cl[c].dist = None

SeqInv ==
  /\ Solo
  /\ \A f \in Fid : kind[f] # "dir" => NoEntries(f)
  /\ \A c \in Client : cl[c].pc \notin Ready => Knows(c)

(* No client stops half way.  What is true of a file or a directory g that *)
(* no call is changing: it has one name, or none and can have none.  Of    *)
(* files with several names (link) this says nothing.                      *)
Tracked(g) == g # Root /\ (kind[g] = "dir" \/ "link" \notin use.ops)

OnlyAt(e, g) == Entry(e) = g /\ \A d \in Fid, n \in Name : ents[d][n] = g => <<d, n>> = e

Settled(g) ==
  \/ md[g] = 1 /\ \E e \in Fid \X Name : OnlyAt(e, g)
  \/ md[g] = None /\ Nameless(g)
  \/ kind[g] = "file" /\ md[g] = 0 /\ Nameless(g)

(* The call that c makes is changing what it has.                          *)
Changing(c) ==
  \/ cl[c].op \in {"create", "mkdir"} /\ cl[c].pc \in {"newrec", "lock", "get", "set", "kdel"}
  \/ Removing(c) /\ cl[c].pc \in {"unlock", "hdel", "delsrc"}

InHand(c) ==
  /\ cl[c].op \in {"create", "mkdir"} /\ cl[c].pc \in {"newrec", "lock", "get", "set", "kdel"} =>
       md[cl[c].f] = 1 /\ Nameless(cl[c].f)
  /\ cl[c].pc = "set" => cl[c].m = md[cl[c].f]
  /\ Removing(c) /\ cl[c].pc \in {"count", "lock", "get", "set", "kdel"} =>
       md[cl[c].f] = 1 /\ OnlyAt(cl[c].to, cl[c].f)
  /\ Removing(c) /\ cl[c].pc \in {"unlock", "hdel"} =>
       /\ OnlyAt(cl[c].to, cl[c].f)
       /\ md[cl[c].f] = IF kind[cl[c].f] = "dir" THEN None ELSE 0
  /\ cl[c].pc = "remove" => md[cl[c].f] = 0 /\ Nameless(cl[c].f)
  /\ cl[c].pc = "delsrc" =>
       /\ md[cl[c].f] = 1
       /\ \A d \in Fid, n \in Name : ents[d][n] = cl[c].f => <<d, n>> \in {cl[c].from, cl[c].to}

TreeInv ==
  /\ Nameless(Root)
  /\ \A g \in Fid : Tracked(g) => Settled(g) \/ \E c \in Client : Changing(c) /\ cl[c].f = g
  /\ \A c \in Client : cl[c].pc \in WithFile =>
       cl[c].f # Root /\ (Tracked(cl[c].f) => InHand(c))

LEMMA SeqStep ==
  ASSUME ShapeInv, SeqInv, NEW c \in Client, cl[c].pc \notin Ready, KindKept,
         \A b \in Client : b # c => cl'[b] = cl[b],
         \A f \in Fid : kind'[f] # "dir" => NoEntries(f)',
         cl'[c].pc \notin Ready => Knows(c)'
  PROVE  SeqInv'
  <1>1. \A b \in Client : b # c => cl'[b].pc \in Ready
    BY DEF SeqInv, Solo
  <1>2. Solo'
    BY <1>1 DEF Solo
  <1> QED BY <1>1, <1>2 DEF SeqInv

(* The same where nothing but c changes.                                   *)
LEMMA SeqGoes ==
  ASSUME ShapeInv, SeqInv, NEW c \in Client, cl[c].pc \notin Ready, NEW pc, NEW f, NEW m, NEW proc,
         Goes(c, pc, f, m, proc), UNCHANGED <<kind, md, ents>>,
         pc \notin Ready => Knows(c)'
  PROVE  SeqInv'
  <1>1. KindKept /\ \A g \in Fid : kind'[g] # "dir" => NoEntries(g)'
    BY DEF KindKept, SeqInv, NoEntries
  <1> QED BY <1>1, SeqStep DEF Goes

(* Entries go, and no other is made.                                       *)
LEMMA FewerEntries ==
  ASSUME ShapeInv, SeqInv, kind' = kind,
         \A d \in Fid, n \in Name : ents'[d][n] = None \/ ents'[d][n] = ents[d][n]
  PROVE  \A f \in Fid : kind'[f] # "dir" => NoEntries(f)'
  BY DEF SeqInv, NoEntries

LEMMA FilesEmpty ==
  ASSUME ShapeInv, SeqInv, NEW c \in Client, NEW d \in Fid, NEW n \in Name, NEW f, Puts(d, n, f),
         kind' = kind, kind[d] = "dir"
  PROVE  \A g \in Fid : kind'[g] # "dir" => NoEntries(g)'
  BY DEF SeqInv, NoEntries, Puts

LEMMA HlenOne ==
  ASSUME ShapeInv, NEW f \in Fid, Hlen(f) = 1, md[f] # None
  PROVE  NoEntries(f)
  <1>1. PICK S : S = {n \in Name : ents[f][n] # None}
    OBVIOUS
  <1>2. IsFiniteSet(S)
    BY <1>1, FS_Subset, NamespaceAssumption
  <1>3. Cardinality(S) + 1 = 1
    BY <1>1 DEF Hlen
  <1>4. Cardinality(S) = 0
    BY <1>2, <1>3, FS_CardinalityType
  <1>5. S = {}
    BY <1>2, <1>4, FS_EmptySet
  <1> QED BY <1>1, <1>5 DEF NoEntries

LEMMA SeqClient ==
  ASSUME ShapeInv, SeqInv, NEW c \in Client, Step(c)
  PROVE  SeqInv'
  <1>a. TypeInv /\ Knows(c) /\ cl[c].pc \notin Ready
    <2>1. cl[c].pc \notin Ready
      BY DEF Step, Ready, Parent, Inode, Newrec, Lookup, Count, Kdel, Lock,
         Get, Set, Unlock, Hdel, Remove, Src, Dst, Again, DelSrc, From, FromAttr, To, ToAttr,
         ChildCount
    <2> QED BY <2>1 DEF ShapeInv, SeqInv
  <1>b. /\ Flow(c) /\ cl[c].to \in Fid \X Name /\ cl[c].to[1] \in Fid /\ cl[c].to[2] \in Name
        /\ cl[c].op \in Op /\ kind[cl[c].to[1]] = "dir"
    <2>1. Flow(c) /\ cl[c].to \in Fid \X Name /\ cl[c].to[1] \in Fid /\ cl[c].to[2] \in Name
      BY <1>a, FlowOf
    <2>2. cl[c].op \in Op
      BY <1>a, <2>1, NamespaceAssumption DEF Flow, TypeInv, Use
    <2> QED BY <2>1, <2>2 DEF Flow
  <1>c. "failed" \in Ready /\ "done" \in Ready /\ "abort" \in Ready
    BY DEF Ready
  <1>d. \A f \in Fid : f # None
    BY NamespaceAssumption DEF Fid
  <1>1. CASE Parent(c)
    <2>1. UNCHANGED <<kind, md, ents, use>> /\ cl[c].pc = "parent"
      BY <1>1 DEF Parent
    <2>2. CASE Goes(c, "abort", cl[c].f, cl[c].m, cl[c].proc)
      BY <1>a, <1>c, <2>1, <2>2, SeqGoes
    <2>3. CASE Goes(c, "inode", cl[c].f, cl[c].m, cl[c].proc)
      <3>1. Knows(c)'
        BY <1>a, <1>b, <2>1, <2>3 DEF Knows, Goes, Removing, NoEntries, Entry, Ready
      <3> QED BY <1>a, <2>1, <2>3, <3>1, SeqGoes
    <2> QED BY <1>1, <2>2, <2>3, ParentEffect
  <1>2. CASE Inode(c)
    <2>1. PICK f \in Fid :
            /\ kind[f] = "new" /\ Goes(c, "newrec", f, cl[c].m, cl[c].proc)
            /\ kind'[f] = IF cl[c].op = "mkdir" THEN "dir" ELSE "file"
            /\ \A g \in Fid : g # f => kind'[g] = kind[g] /\ md'[g] = md[g]
            /\ md'[f] = 1 /\ KindKept /\ UNCHANGED <<ents, lock, use>>
      BY <1>2, InodeEffect
    <2>2. cl[c].pc = "inode" /\ cl[c].op \in {"create", "mkdir"}
      BY <1>2, <1>b DEF Inode, Flow
    <2>3. NoEntries(f)
      BY <2>1 DEF ShapeInv, FlowInv, NoEntries
    <2>4. /\ cl'[c].pc = "newrec" /\ cl'[c].f = f /\ cl'[c].op = cl[c].op
          /\ \A b \in Client : b # c => cl'[b] = cl[b]
      BY <2>1 DEF Goes, Ready
    <2>5. NoEntries(cl[c].f)'
      BY <2>1, <2>3, <2>4 DEF NoEntries
    <2>6. Knows(c)'
      BY <2>2, <2>4, <2>5 DEF Knows, Removing
    <2>7. \A g \in Fid : kind'[g] # "dir" => NoEntries(g)'
      BY <2>1, <2>3 DEF SeqInv, NoEntries
    <2> QED BY <1>a, <2>1, <2>4, <2>6, <2>7, SeqStep
  <1>3. CASE Newrec(c)
    <2>1. UNCHANGED <<kind, md, lock, use>> /\ cl[c].pc = "newrec" /\ KindKept
      BY <1>3 DEF Newrec, KindKept
    <2>a. cl[c].f \in Fid
      BY <1>b, <2>1 DEF Flow, WithFile
    <2>2. CASE /\ Entry(cl[c].to) = None /\ Puts(cl[c].to[1], cl[c].to[2], cl[c].f)
               /\ cl[c].op # "rename" /\ Goes(c, "done", cl[c].f, cl[c].m, cl[c].proc)
      <3>1. \A g \in Fid : kind'[g] # "dir" => NoEntries(g)'
        BY <1>b, <2>1, <2>2, FilesEmpty
      <3>2. cl'[c].pc \in Ready /\ \A b \in Client : b # c => cl'[b] = cl[b]
        BY <1>c, <2>2 DEF Goes
      <3> QED BY <1>a, <2>1, <3>1, <3>2, SeqStep
    <2>3. CASE /\ Entry(cl[c].to) = None /\ Puts(cl[c].to[1], cl[c].to[2], cl[c].f)
               /\ cl[c].op = "rename" /\ Goes(c, "delsrc", cl[c].f, cl[c].m, cl[c].proc)
      <3>1. \A g \in Fid : kind'[g] # "dir" => NoEntries(g)'
        BY <1>b, <2>1, <2>3, FilesEmpty
      <3>2. /\ cl'[c].pc = "delsrc" /\ cl'[c].f = cl[c].f /\ cl'[c].op = "rename"
            /\ cl'[c].from = cl[c].from /\ cl'[c].to = cl[c].to /\ cl'[c].dist = cl[c].dist
            /\ \A b \in Client : b # c => cl'[b] = cl[b]
        BY <2>3 DEF Goes, Ready
      <3>3. /\ cl[c].from # cl[c].to /\ Entry(cl[c].from) = cl[c].f /\ cl[c].dist = None
            /\ cl[c].from \in Fid \X Name
        BY <1>a, <1>b, <2>1, <2>3 DEF Knows, Flow
      <3>4. PICK d \in Fid, n \in Name, e \in Fid, k \in Name :
              cl[c].to = <<d, n>> /\ cl[c].from = <<e, k>>
        BY <1>b, <3>3
      <3>5. ents'[d][n] = cl[c].f /\ ents'[e][k] = ents[e][k] /\ ents[e][k] = cl[c].f
        BY <2>3, <3>3, <3>4 DEF Puts, Entry
      <3>6. Entry(cl[c].to)' = cl'[c].f /\ Entry(cl[c].from)' = cl'[c].f
        BY <3>2, <3>4, <3>5 DEF Entry
      <3>7. Knows(c)'
        BY <3>2, <3>3, <3>6 DEF Knows, Removing
      <3> QED BY <1>a, <2>1, <3>1, <3>2, <3>7, SeqStep
    <2>4. CASE ents' = ents /\ Goes(c, "failed", cl[c].f, cl[c].m, cl[c].proc)
      BY <1>a, <1>c, <2>1, <2>4, SeqGoes
    <2>5. CASE ents' = ents /\ cl[c].op = "create" /\ Goes(c, "lock", cl[c].f, cl[c].m, cl[c].proc)
      <3>1. Knows(c)'
        BY <1>a, <1>b, <2>1, <2>5 DEF Knows, Goes, Removing, NoEntries, Entry, Ready
      <3> QED BY <1>a, <2>1, <2>5, <3>1, SeqGoes
    <2>6. CASE ents' = ents /\ cl[c].op = "mkdir" /\ Goes(c, "kdel", cl[c].f, cl[c].m, cl[c].proc)
      <3>1. Knows(c)'
        BY <1>a, <1>b, <2>1, <2>6 DEF Knows, Goes, Removing, NoEntries, Entry, Ready
      <3> QED BY <1>a, <2>1, <2>6, <3>1, SeqGoes
    <2>7. CASE ents' = ents /\ cl[c].op = "rename" /\ Goes(c, "from", cl[c].f, cl[c].m, cl[c].proc)
      <3>1. Knows(c)'
        BY <1>a, <1>b, <2>1, <2>7 DEF Knows, Goes, Removing, NoEntries, Entry, Ready
      <3> QED BY <1>a, <2>1, <2>7, <3>1, SeqGoes
    <2> QED BY <1>3, <2>2, <2>3, <2>4, <2>5, <2>6, <2>7, NewrecEffect
  <1>4. CASE Lookup(c)
    <2>1. UNCHANGED <<kind, md, ents, use>> /\ cl[c].pc = "lookup"
      BY <1>4 DEF Lookup
    <2>2. CASE Goes(c, "failed", cl[c].f, cl[c].m, cl[c].proc)
      BY <1>a, <1>c, <2>1, <2>2, SeqGoes
    <2>3. ASSUME NEW f \in Fid, NEW pc \in {"count", "get", "lock"},
                 f = Entry(cl[c].to), Goes(c, pc, f, cl[c].m, cl[c].proc),
                 pc = IF cl[c].proc = "rmdir" THEN "count" ELSE IF kind[f] = "dir" THEN "get" ELSE "lock"
          PROVE  SeqInv'
      <3>1. cl[c].op \in {"unlink", "rmdir", "rename"} /\ f # None
        BY <1>b, <1>d, <2>1 DEF Flow
      <3>2. pc = "get" => kind[f] = "file" \/ md[f] = None
        BY <1>a, <2>1, <2>3, <3>1 DEF Knows
      <3>3. /\ cl'[c].pc = pc /\ cl'[c].f = f /\ cl'[c].op = cl[c].op /\ cl'[c].to = cl[c].to
            /\ cl'[c].from = cl[c].from /\ cl'[c].proc = cl[c].proc
        BY <2>3 DEF Goes, Ready
      <3>4. Entry(cl[c].to)' = f
        BY <2>1, <2>3, <3>3 DEF Entry
      <3>5. Knows(c)'
        BY <1>a, <2>1, <2>3, <3>1, <3>2, <3>3, <3>4 DEF Knows, Removing
      <3> QED BY <1>a, <2>1, <2>3, <3>5, SeqGoes
    <2> QED BY <1>4, <2>2, <2>3, LookupEffect
  <1>5. CASE Count(c)
    <2>1. UNCHANGED <<kind, md, ents, use>> /\ cl[c].pc = "count" /\ cl[c].f \in Fid /\ Removing(c)
      BY <1>5, <1>b DEF Count, Flow, WithFile, Removing
    <2>2. CASE Goes(c, "failed", cl[c].f, cl[c].m, cl[c].proc)
      BY <1>a, <1>c, <2>1, <2>2, SeqGoes
    <2>3. CASE /\ kind[cl[c].f] = "dir" /\ Hlen(cl[c].f) = 1
               /\ Goes(c, "kdel", cl[c].f, cl[c].m, cl[c].proc)
      <3>1. md[cl[c].f] # None => NoEntries(cl[c].f)
        BY <2>1, <2>3, HlenOne
      <3>2. /\ cl'[c].pc = "kdel" /\ cl'[c].f = cl[c].f /\ cl'[c].op = cl[c].op /\ cl'[c].to = cl[c].to
            /\ cl'[c].from = cl[c].from /\ cl'[c].proc = cl[c].proc
        BY <2>3 DEF Goes, Ready
      <3>3. NoEntries(cl[c].f) => NoEntries(cl[c].f)'
        BY <2>1, <3>2 DEF NoEntries
      <3>4. Knows(c)'
        BY <1>a, <2>1, <3>1, <3>2, <3>3 DEF Knows, Removing, Entry
      <3> QED BY <1>a, <2>1, <2>3, <3>4, SeqGoes
    <2> QED BY <1>5, <2>2, <2>3, CountEffect
  <1>6. CASE Kdel(c)
    <2>1. cl[c].pc = "kdel"
      BY <1>6 DEF Kdel
    <2>2. Clears(cl[c].f) /\ cl[c].f \in Fid /\ kind' = kind
      BY <1>6, KdelEffect
    <2>3. KindKept /\ \A d \in Fid, n \in Name : ents'[d][n] = None \/ ents'[d][n] = ents[d][n]
      BY <2>2 DEF KindKept, Clears
    <2>4. \A g \in Fid : kind'[g] # "dir" => NoEntries(g)'
      BY <2>2, <2>3, FewerEntries
    <2>5. CASE Goes(c, "failed", cl[c].f, cl[c].m, cl[c].proc)
      BY <1>a, <1>c, <2>3, <2>4, <2>5, SeqStep DEF Goes
    <2>6. CASE cl[c].op # "mkdir" /\ Goes(c, "hdel", cl[c].f, cl[c].m, cl[c].proc)
      <3>1. /\ cl'[c].pc = "hdel" /\ cl'[c].f = cl[c].f /\ cl'[c].op = cl[c].op /\ cl'[c].to = cl[c].to
            /\ cl'[c].from = cl[c].from /\ cl'[c].proc = cl[c].proc
            /\ \A b \in Client : b # c => cl'[b] = cl[b]
        BY <2>6 DEF Goes, Ready
      <3>2. Removing(c)
        BY <1>b, <2>1, <2>6 DEF Flow, Removing
      <3>3. Entry(cl[c].to) \in {cl[c].f, None}
        BY <1>a, <2>1, <3>2 DEF Knows
      <3>4. Entry(cl[c].to)' \in {cl[c].f, None}
        BY <1>b, <2>3, <3>1, <3>3 DEF Entry
      <3>5. Knows(c)'
        BY <1>a, <3>1, <3>4 DEF Knows, Removing
      <3> QED BY <1>a, <2>3, <2>4, <3>1, <3>5, SeqStep
    <2> QED BY <1>6, <2>5, <2>6, KdelEffect
  <1>7. CASE Lock(c)
    <2>1. cl[c].pc = "lock" /\ kind[cl[c].f] = "file"
      BY <1>7, <1>b DEF Lock, Flow
    <2>2. Goes(c, "get", cl[c].f, cl[c].m, cl[c].proc) /\ UNCHANGED <<kind, md, ents, use>>
      BY <1>7, LockEffect
    <2>3. /\ cl'[c].pc = "get" /\ cl'[c].f = cl[c].f /\ cl'[c].op = cl[c].op /\ cl'[c].to = cl[c].to
          /\ cl'[c].from = cl[c].from /\ cl'[c].proc = cl[c].proc
      BY <2>2 DEF Goes, Ready
    <2>4. Knows(c)'
      BY <1>a, <2>1, <2>2, <2>3 DEF Knows, Removing, Entry
    <2> QED BY <1>a, <2>2, <2>4, SeqGoes
  <1>8. CASE Get(c)
    <2>1. cl[c].pc = "get" /\ UNCHANGED <<kind, md, ents, use>>
      BY <1>8 DEF Get
    <2>2. CASE kind[cl[c].f] = "dir" /\ Goes(c, "kdel", cl[c].f, md[cl[c].f], cl[c].proc)
      <3>1. /\ cl'[c].pc = "kdel" /\ cl'[c].f = cl[c].f /\ cl'[c].op = cl[c].op /\ cl'[c].to = cl[c].to
            /\ cl'[c].from = cl[c].from /\ cl'[c].proc = cl[c].proc
        BY <2>2 DEF Goes, Ready
      <3>2. cl[c].op # "mkdir"
        BY <1>b, <2>1 DEF Flow
      <3>3. Knows(c)'
        BY <1>a, <2>1, <2>2, <3>1, <3>2 DEF Knows, Removing, Entry
      <3> QED BY <1>a, <2>1, <2>2, <3>3, SeqGoes
    <2>3. CASE Goes(c, "set", cl[c].f, md[cl[c].f], cl[c].proc)
      <3>1. /\ cl'[c].pc = "set" /\ cl'[c].f = cl[c].f /\ cl'[c].op = cl[c].op /\ cl'[c].to = cl[c].to
            /\ cl'[c].from = cl[c].from /\ cl'[c].proc = cl[c].proc
        BY <2>3 DEF Goes, Ready
      <3>2. Knows(c)'
        BY <1>a, <2>1, <3>1 DEF Knows, Removing, Entry
      <3> QED BY <1>a, <2>1, <2>3, <3>2, SeqGoes
    <2> QED BY <1>8, <2>2, <2>3, GetEffect
  <1>9. CASE Set(c)
    <2>1. /\ Goes(c, "unlock", cl[c].f, cl[c].m, cl[c].proc)
          /\ cl[c].pc = "set" /\ UNCHANGED <<kind, ents, lock, use>>
      BY <1>9, SetGoes
    <2>2. /\ cl'[c].pc = "unlock" /\ cl'[c].f = cl[c].f /\ cl'[c].op = cl[c].op /\ cl'[c].to = cl[c].to
          /\ cl'[c].from = cl[c].from /\ cl'[c].proc = cl[c].proc
          /\ \A b \in Client : b # c => cl'[b] = cl[b]
      BY <2>1 DEF Goes, Ready
    <2>3. Knows(c)'
      BY <1>a, <2>1, <2>2 DEF Knows, Removing, Entry
    <2>4. KindKept /\ \A g \in Fid : kind'[g] # "dir" => NoEntries(g)'
      BY <2>1 DEF KindKept, SeqInv, NoEntries
    <2> QED BY <1>a, <2>2, <2>3, <2>4, SeqStep
  <1>10. CASE Unlock(c)
    <2>1. cl[c].pc = "unlock" /\ UNCHANGED <<kind, md, ents, use>>
      BY <1>10, UnlockEffect
    <2>2. CASE Goes(c, "failed", cl[c].f, cl[c].m, cl[c].proc)
      BY <1>a, <1>c, <2>1, <2>2, SeqGoes
    <2>3. CASE cl[c].op = "link" /\ Goes(c, "newrec", cl[c].f, cl[c].m, cl[c].proc)
      <3>1. cl'[c].pc = "newrec" /\ cl'[c].op = "link"
        BY <2>3 DEF Goes, Ready
      <3>2. Knows(c)'
        BY <3>1 DEF Knows, Removing
      <3> QED BY <1>a, <2>1, <2>3, <3>2, SeqGoes
    <2>4. CASE Goes(c, "hdel", cl[c].f, cl[c].m, cl[c].proc)
      <3>1. /\ cl'[c].pc = "hdel" /\ cl'[c].f = cl[c].f /\ cl'[c].op = cl[c].op /\ cl'[c].to = cl[c].to
            /\ cl'[c].from = cl[c].from /\ cl'[c].proc = cl[c].proc
        BY <2>4 DEF Goes, Ready
      <3>2. Knows(c)'
        BY <1>a, <2>1, <3>1 DEF Knows, Removing, Entry
      <3> QED BY <1>a, <2>1, <2>4, <3>2, SeqGoes
    <2> QED BY <1>10, <2>2, <2>3, <2>4, UnlockEffect
  <1>11. CASE Hdel(c)
    <2>1. UNCHANGED <<kind, md, lock, use>> /\ KindKept
      BY <1>11 DEF Hdel, KindKept
    <2>2. CASE ents' = ents /\ Goes(c, "failed", cl[c].f, cl[c].m, cl[c].proc)
      BY <1>a, <1>c, <2>1, <2>2, SeqGoes
    <2>3. CASE Entry(cl[c].to) # None /\ Puts(cl[c].to[1], cl[c].to[2], None)
      <3>1. \A g \in Fid : kind'[g] # "dir" => NoEntries(g)'
        BY <1>b, <2>1, <2>3, FilesEmpty
      <3>2. CASE Goes(c, "remove", cl[c].f, cl[c].m, cl[c].proc)
        <4>1. /\ cl'[c].pc = "remove" /\ cl'[c].op = cl[c].op /\ cl'[c].to = cl[c].to
              /\ cl'[c].from = cl[c].from /\ cl'[c].proc = cl[c].proc
              /\ \A b \in Client : b # c => cl'[b] = cl[b]
          BY <3>2 DEF Goes, Ready
        <4>2. Knows(c)'
          BY <1>a, <4>1 DEF Knows
        <4> QED BY <1>a, <2>1, <3>1, <4>1, <4>2, SeqStep
      <3>3. CASE Goes(c, "done", cl[c].f, cl[c].m, cl[c].proc)
        BY <1>a, <1>c, <2>1, <3>1, <3>3, SeqStep DEF Goes
      <3>4. CASE cl[c].op = "rename" /\ Goes(c, "src", cl[c].f, cl[c].m, "")
        <4>1. /\ cl'[c].pc = "src" /\ cl'[c].op = "rename" /\ cl'[c].to = cl[c].to
              /\ cl'[c].from = cl[c].from /\ \A b \in Client : b # c => cl'[b] = cl[b]
          BY <3>4 DEF Goes, Ready
        <4>2. Knows(c)'
          BY <1>a, <3>4, <4>1 DEF Knows
        <4> QED BY <1>a, <2>1, <3>1, <4>1, <4>2, SeqStep
      <3> QED BY <1>11, <2>3, <3>2, <3>3, <3>4, HdelEffect
    <2> QED BY <1>11, <2>2, <2>3, HdelEffect
  <1>12. CASE Remove(c)
    <2>1. Clears(cl[c].f) /\ cl[c].f \in Fid /\ kind' = kind
      BY <1>12, RemoveEffect
    <2>2. KindKept /\ \A d \in Fid, n \in Name : ents'[d][n] = None \/ ents'[d][n] = ents[d][n]
      BY <2>1 DEF KindKept, Clears
    <2>3. \A g \in Fid : kind'[g] # "dir" => NoEntries(g)'
      BY <2>1, <2>2, FewerEntries
    <2>4. CASE Goes(c, "done", cl[c].f, cl[c].m, cl[c].proc)
      BY <1>a, <1>c, <2>2, <2>3, <2>4, SeqStep DEF Goes
    <2>5. CASE cl[c].op = "rename" /\ Goes(c, "src", cl[c].f, cl[c].m, "")
      <3>1. /\ cl'[c].pc = "src" /\ cl'[c].op = "rename" /\ cl'[c].to = cl[c].to
            /\ cl'[c].from = cl[c].from /\ \A b \in Client : b # c => cl'[b] = cl[b]
        BY <2>5 DEF Goes, Ready
      <3>2. Knows(c)'
        BY <1>a, <2>5, <3>1 DEF Knows
      <3> QED BY <1>a, <2>2, <2>3, <3>1, <3>2, SeqStep
    <2> QED BY <1>12, <2>4, <2>5, RemoveEffect
  <1>13. CASE DelSrc(c)
    <2>1. UNCHANGED <<kind, md, use>> /\ KindKept /\ cl[c].pc = "delsrc"
      BY <1>13 DEF DelSrc, KindKept
    <2>2. CASE ents' = ents /\ Goes(c, "failed", cl[c].f, cl[c].m, cl[c].proc)
      BY <1>a, <1>c, <2>1, <2>2, SeqGoes
    <2>3. CASE /\ Puts(cl[c].from[1], cl[c].from[2], None)
               /\ Goes(c, "done", cl[c].f, cl[c].m, cl[c].proc)
      <3>1. \A d \in Fid, n \in Name : ents'[d][n] = None \/ ents'[d][n] = ents[d][n]
        BY <2>3 DEF Puts
      <3>2. \A g \in Fid : kind'[g] # "dir" => NoEntries(g)'
        BY <2>1, <3>1, FewerEntries
      <3> QED BY <1>a, <1>c, <2>1, <2>3, <3>2, SeqStep DEF Goes
    <2>4. cl[c].dist = None
      BY <1>a, <2>1 DEF Knows
    <2> QED BY <1>13, <2>2, <2>3, <2>4, DelSrcEffect
  <1>14. CASE Dst(c)
    <2>1. cl[c].pc = "dst" /\ cl[c].op = "rename" /\ UNCHANGED <<kind, md, ents, use>>
      BY <1>14, <1>b DEF Dst, Flow
    <2>2. Goes(c, "again", cl[c].f, cl[c].m, cl[c].proc) /\ cl'[c].dist = Entry(cl[c].to)
      BY <1>14, DstEffect
    <2>3. /\ cl'[c].pc = "again" /\ cl'[c].op = "rename" /\ cl'[c].to = cl[c].to
          /\ cl'[c].from = cl[c].from
      BY <2>1, <2>2 DEF Goes, Ready
    <2>4. Knows(c)'
      BY <1>a, <2>1, <2>2, <2>3 DEF Knows, Entry
    <2> QED BY <1>a, <2>1, <2>2, <2>4, SeqGoes
  <1>15. CASE Again(c) \/ From(c) \/ To(c)
    <2>1. /\ UNCHANGED <<kind, md, ents, use>> /\ cl[c].op = "rename"
          /\ Again(c) => cl[c].pc = "again"
      BY <1>15, <1>b DEF Again, From, To, Flow
    <2>2. CASE Goes(c, "failed", cl[c].f, cl[c].m, cl[c].proc)
      BY <1>a, <1>c, <2>1, <2>2, SeqGoes
    <2>3. ASSUME NEW f \in Fid, NEW pc \in {"newrec", "fromattr", "toattr"},
                 Goes(c, pc, f, cl[c].m, cl[c].proc),
                 pc = "newrec" => cl[c].pc = "again" /\ f = Entry(cl[c].from),
                 pc = "toattr" => f = Entry(cl[c].to)
          PROVE  SeqInv'
      <3>1. /\ cl'[c].pc = pc /\ cl'[c].f = f /\ cl'[c].op = "rename" /\ cl'[c].to = cl[c].to
            /\ cl'[c].from = cl[c].from /\ cl'[c].dist = cl[c].dist
        BY <2>1, <2>3 DEF Goes, Ready
      <3>2. Knows(c)'
        BY <1>a, <2>1, <2>3, <3>1 DEF Knows, Entry
      <3> QED BY <1>a, <2>1, <2>3, <3>2, SeqGoes
    <2> QED BY <1>15, <2>1, <2>2, <2>3, RenameTakes DEF Takes
  <1>16. CASE FromAttr(c)
    <2>1. cl[c].op = "rename" /\ UNCHANGED <<kind, md, ents, use>>
      BY <1>16, <1>b DEF FromAttr, Flow
    <2>2. PICK p \in {"unlink", "rmdir"} : Goes(c, "to", cl[c].f, cl[c].m, p)
      BY <1>16, FromAttrEffect
    <2>3. cl'[c].pc = "to" /\ cl'[c].op = "rename" /\ cl'[c].to = cl[c].to /\ cl'[c].from = cl[c].from
      BY <2>1, <2>2 DEF Goes, Ready
    <2>4. Knows(c)'
      BY <1>a, <2>1, <2>3 DEF Knows
    <2> QED BY <1>a, <2>1, <2>2, <2>4, SeqGoes
  <1>17. CASE ToAttr(c) \/ ChildCount(c)
    <2>1. /\ cl[c].op = "rename" /\ cl[c].pc \in {"toattr", "childcount"} /\ cl[c].f \in Fid
          /\ UNCHANGED <<kind, md, ents, use>>
      BY <1>17, <1>b DEF ToAttr, ChildCount, Flow, WithFile
    <2>2. CASE Goes(c, "failed", cl[c].f, cl[c].m, cl[c].proc)
      BY <1>a, <1>c, <2>1, <2>2, SeqGoes
    <2>3. ASSUME NEW pc \in {"childcount", "lookup"}, Goes(c, pc, cl[c].f, cl[c].m, cl[c].proc),
                 pc = "lookup" => cl[c].proc = "rmdir" \/ ~IsDir(cl[c].f),
                 pc = "childcount" => cl[c].proc = "rmdir"
          PROVE  SeqInv'
      <3>1. /\ cl'[c].pc = pc /\ cl'[c].f = cl[c].f /\ cl'[c].op = "rename" /\ cl'[c].to = cl[c].to
            /\ cl'[c].from = cl[c].from /\ cl'[c].proc = cl[c].proc
        BY <2>1, <2>3 DEF Goes, Ready
      <3>2. pc = "lookup" /\ cl[c].proc # "rmdir" => kind[cl[c].f] = "file" \/ md[cl[c].f] = None
        <4>1. kind[cl[c].f] \in {"file", "dir"}
          BY <1>a, <1>b, <2>1 DEF Flow, WithFile, TypeInv
        <4> QED BY <2>3, <4>1 DEF IsDir
      <3>3. Knows(c)'
        BY <1>a, <2>1, <2>3, <3>1, <3>2 DEF Knows, Entry
      <3> QED BY <1>a, <2>1, <2>3, <3>3, SeqGoes
    <2>4. ChildCount(c) => cl[c].proc = "rmdir"
      BY <1>a, <2>1 DEF ChildCount, Knows
    <2> QED BY <1>17, <2>2, <2>3, <2>4, ToAttrEffect, ChildCountEffect
  <1>18. CASE Src(c)
    <2>1. UNCHANGED <<kind, md, ents, use>> /\ cl[c].pc = "src"
      BY <1>18 DEF Src
    <2>2. CASE Goes(c, "dst", cl[c].f, cl[c].m, cl[c].proc)
      <3>1. Knows(c)'
        BY <1>a, <1>b, <2>1, <2>2 DEF Knows, Goes, Removing, NoEntries, Entry, Ready
      <3> QED BY <1>a, <2>1, <2>2, <3>1, SeqGoes
    <2>3. CASE Goes(c, "failed", cl[c].f, cl[c].m, cl[c].proc)
      BY <1>a, <1>c, <2>1, <2>3, SeqGoes
    <2> QED BY <1>18, <2>2, <2>3, SrcEffect
  <1> QED
    BY <1>1, <1>2, <1>3, <1>4, <1>5, <1>6, <1>7, <1>8, <1>9, <1>10, <1>11, <1>12, <1>13, <1>14,
       <1>15, <1>16, <1>17, <1>18 DEF Step

LEMMA SeqCall ==
  ASSUME ShapeInv, SeqInv, Busy = {}, NEW c \in Client, NEW op \in use.ops, NEW to \in Place,
         NEW from \in Place, NEW f \in Fid \cup {None}, op = "link" => f \in Linkable,
         Call(c, op, from, to, f)
  PROVE  SeqInv'
  <1>1. Begins(c, op, from, to, f)
    BY ShapeCall
  <1>2. \A b \in Client : b # c => cl'[b].pc \in Ready
    BY <1>1 DEF Begins, Busy
  <1>3. Solo'
    BY <1>2 DEF Solo
  <1>4. UNCHANGED <<kind, md, ents>>
    BY <1>1 DEF Begins
  <1>5. \A g \in Fid : kind'[g] # "dir" => NoEntries(g)'
    BY <1>4 DEF SeqInv, NoEntries
  <1>6. /\ op = "rename" => from # to
        /\ op = "unlink" /\ Entry(to) # None => kind[Entry(to)] = "file"
    BY DEF Call
  <1>7. /\ cl'[c].op = op /\ cl'[c].from = from /\ cl'[c].to = to
        /\ cl'[c].proc = IF op \in {"unlink", "rmdir"} THEN op ELSE ""
        /\ cl'[c].pc = IF op \in {"create", "mkdir"} THEN "parent"
                       ELSE IF op = "link" THEN "lock" ELSE IF op = "rename" THEN "src" ELSE "lookup"
    BY <1>1 DEF Begins
  <1>8. Knows(c)'
    BY <1>4, <1>6, <1>7 DEF Knows, Removing, Entry
  <1> QED BY <1>2, <1>3, <1>5, <1>8 DEF SeqInv

(* A call begins when no other runs.                                       *)
LEMMA OneCall ==
  ASSUME ShapeInv, OneAtATime, Next
  PROVE  \/ /\ Busy = {}
            /\ \E c \in Client, op \in use.ops, to \in Place, from \in Place, f \in Fid \cup {None} :
                 (op = "link" => f \in Linkable) /\ Call(c, op, from, to, f)
         \/ \E c \in Client : Step(c)
         \/ \E c \in Client : Crash(c)
         \/ \E f \in Fid : LockExpire(f)
  <1>1. CASE \E c \in Client : Step(c) \/ Crash(c)
    BY <1>1
  <1>2. CASE \E f \in Fid : LockExpire(f)
    BY <1>2
  <1>3. CASE /\ Cardinality(Busy) < use.clients
             /\ \E c \in Client \ Busy, op \in use.ops, to \in Place :
                  \E from \in IF op = "rename" THEN Place ELSE {to},
                     f \in IF op = "link" THEN Linkable ELSE {None} : Call(c, op, from, to, f)
    <2>1. IsFiniteSet(Busy)
      BY FS_Subset, NamespaceAssumption DEF Busy
    <2>2. Cardinality(Busy) < 1 /\ Cardinality(Busy) \in Nat
      BY <1>3, <2>1, FS_CardinalityType DEF OneAtATime
    <2>3. Busy = {}
      BY <2>1, <2>2, FS_EmptySet
    <2>4. PICK c \in Client \ Busy, op \in use.ops, to \in Place :
            \E from \in IF op = "rename" THEN Place ELSE {to},
               f \in IF op = "link" THEN Linkable ELSE {None} : Call(c, op, from, to, f)
      BY <1>3
    <2>5. PICK from \in IF op = "rename" THEN Place ELSE {to},
               f \in IF op = "link" THEN Linkable ELSE {None} : Call(c, op, from, to, f)
      BY <2>4
    <2>6. from \in Place /\ f \in Fid \cup {None} /\ (op = "link" => f \in Linkable)
      BY <2>5 DEF Linkable
    <2> QED BY <2>3, <2>5, <2>6
  <1> QED BY <1>1, <1>2, <1>3 DEF Next

LEMMA SeqNext ==
  ASSUME ShapeInv, OneAtATime, SeqInv, [Next]_vars
  PROVE  SeqInv'
  <1>1. CASE UNCHANGED <<kind, md, ents, cl>>
    <2>0. kind' = kind /\ md' = md /\ ents' = ents /\ cl' = cl
      BY <1>1
    <2>e. (\A f \in Fid : NoEntries(f)' <=> NoEntries(f)) /\ \A e : Entry(e)' = Entry(e)
      BY <2>0, Zenon DEF NoEntries, Entry
    <2>1. Solo' /\ \A f \in Fid : kind'[f] # "dir" => NoEntries(f)'
      BY <2>0, <2>e DEF SeqInv, Solo
    <2>2. ASSUME NEW c \in Client, Knows(c) PROVE Knows(c)'
      <3>1. \A f : kind'[f] = kind[f] /\ md'[f] = md[f] /\ NoEntries(f)' = NoEntries(f)
        BY <2>0 DEF NoEntries
      <3>2. cl'[c] = cl[c] /\ Removing(c)' = Removing(c)
        BY <2>0 DEF Removing
      <3> QED BY <2>2, <2>e, <3>1, <3>2, SMTT(30) DEF Knows
    <2> QED BY <2>0, <2>1, <2>2 DEF SeqInv
  <1>2. CASE /\ Busy = {}
             /\ \E c \in Client, op \in use.ops, to \in Place, from \in Place, f \in Fid \cup {None} :
                  (op = "link" => f \in Linkable) /\ Call(c, op, from, to, f)
    BY <1>2, SeqCall
  <1>3. CASE \E c \in Client : Step(c)
    BY <1>3, SeqClient
  <1>4. CASE \E c \in Client : Crash(c)
    <2>1. PICK c \in Client : Crash(c)
      BY <1>4
    <2>2. cl[c].pc \notin Ready /\ UNCHANGED <<kind, md, ents>> /\ "failed" \in Ready
      BY <2>1 DEF Crash, Busy, Ready
    <2>3. Goes(c, "failed", cl[c].f, cl[c].m, cl[c].proc)
      BY <2>1, ShapeCrash
    <2> QED BY <2>2, <2>3, SeqGoes
  <1>5. (\E f \in Fid : LockExpire(f)) \/ UNCHANGED vars => UNCHANGED <<kind, md, ents, cl>>
    BY DEF LockExpire, vars
  <1> QED BY <1>1, <1>2, <1>3, <1>4, <1>5, OneCall

LEMMA InitSeq ==
  ASSUME Init
  PROVE  SeqInv
  <1>1. \A c \in Client : cl[c].pc \in Ready
    BY DEF Init, Idle, Ready
  <1>2. \A d \in Fid, n \in Name : ents[d][n] = None
    BY DEF Init
  <1> QED BY <1>1, <1>2 DEF SeqInv, Solo, NoEntries

-----------------------------------------------------------------------------
(* Nothing that concerns g changes.                                        *)
SameAs(g) ==
  /\ kind'[g] = kind[g] /\ md'[g] = md[g]
  /\ \A d \in Fid, n \in Name : (ents'[d][n] = g) <=> (ents[d][n] = g)

LEMMA SettledKept ==
  ASSUME NEW g \in Fid, SameAs(g), Settled(g)
  PROVE  Settled(g)'
  <1>1. Nameless(g) => Nameless(g)'
    BY DEF SameAs, Nameless
  <1>2. \A e \in Fid \X Name : OnlyAt(e, g) => OnlyAt(e, g)'
    BY DEF SameAs, OnlyAt, Entry
  <1> QED BY <1>1, <1>2 DEF Settled, SameAs

(* A step of c that changes nothing but its file f.                        *)
LEMMA TreeStep ==
  ASSUME ShapeInv, SeqInv, TreeInv, NEW c \in Client, cl[c].pc \notin Ready, use' = use,
         \A b \in Client : b # c => cl'[b] = cl[b],
         NEW f \in Fid, f # Root, \A g \in Fid : g # f => SameAs(g),
         Changing(c) => cl[c].f = f,
         Tracked(f)' => Settled(f)' \/ (Changing(c)' /\ cl'[c].f = f),
         cl'[c].pc \in WithFile => cl'[c].f = f /\ (Tracked(f)' => InHand(c)')
  PROVE  TreeInv'
  <1>1. \A b \in Client : b # c => cl[b].pc \in Ready
    BY DEF SeqInv, Solo
  <1>2. \A b \in Client : b # c => ~Changing(b) /\ cl[b].pc \notin WithFile
    BY <1>1 DEF Changing, WithFile, Ready
  <1>3. Root \in Fid /\ Nameless(Root)'
    <2>1. Root \in Fid
      BY NamespaceAssumption DEF Root, Fid
    <2> QED BY <2>1 DEF SameAs, Nameless, TreeInv
  <1>4. ASSUME NEW g \in Fid, Tracked(g)'
        PROVE  Settled(g)' \/ (Changing(c)' /\ cl'[c].f = g)
    <2>1. CASE g = f
      BY <1>4, <2>1
    <2>2. CASE g # f
      <3>1. Tracked(g) /\ SameAs(g)
        BY <1>4, <2>2 DEF Tracked, SameAs
      <3>2. Settled(g)
        BY <1>2, <2>2, <3>1 DEF TreeInv
      <3> QED BY <3>1, <3>2, SettledKept
    <2> QED BY <2>1, <2>2
  <1>5. ASSUME NEW b \in Client, cl'[b].pc \in WithFile
        PROVE  cl'[b].f # Root /\ (Tracked(cl[b].f)' => InHand(b)')
    BY <1>2, <1>5
  <1> QED BY <1>3, <1>4, <1>5 DEF TreeInv

(* A step of c that changes nothing but what c is at.                      *)
LEMMA TreeGoes ==
  ASSUME ShapeInv, SeqInv, TreeInv, NEW c \in Client, cl[c].pc \notin Ready, NEW pc, NEW f, NEW m, NEW proc,
         Goes(c, pc, f, m, proc), UNCHANGED <<kind, md, ents, use>>,
         Changing(c) /\ Tracked(cl[c].f) => Settled(cl[c].f) \/ (Changing(c)' /\ cl'[c].f = cl[c].f),
         pc \in WithFile => f # Root /\ (Tracked(f) => InHand(c)')
  PROVE  TreeInv'
  <1>1. \A b \in Client : b # c => cl[b].pc \in Ready
    BY DEF SeqInv, Solo
  <1>2. \A b \in Client : b # c => ~Changing(b) /\ cl[b].pc \notin WithFile
    BY <1>1 DEF Changing, WithFile, Ready
  <1>3. Nameless(Root)'
    BY DEF Nameless, TreeInv
  <1>4. \A g \in Fid : SameAs(g)
    BY DEF SameAs
  <1>5. ASSUME NEW g \in Fid, Tracked(g)'
        PROVE  Settled(g)' \/ (Changing(c)' /\ cl'[c].f = g)
    <2>1. Tracked(g)
      BY <1>5 DEF Tracked
    <2>2. Settled(g) \/ (Changing(c) /\ cl[c].f = g)
      BY <1>2, <2>1 DEF TreeInv
    <2> QED BY <1>4, <2>1, <2>2, SettledKept
  <1>6. ASSUME NEW b \in Client, cl'[b].pc \in WithFile
        PROVE  cl'[b].f # Root /\ (Tracked(cl[b].f)' => InHand(b)')
    <2>1. b = c
      BY <1>2, <1>6 DEF Goes
    <2>2. pc \in WithFile /\ cl'[c].f = f
      BY <1>6, <2>1 DEF Goes, WithFile, Ready
    <2>3. Tracked(f)' <=> Tracked(f)
      BY DEF Tracked
    <2>4. Tracked(cl[c].f)' <=> Tracked(f)'
      BY <2>2 DEF Tracked
    <2> QED BY <2>1, <2>2, <2>3, <2>4
  <1> QED BY <1>3, <1>5, <1>6 DEF TreeInv

LEMMA HandKept ==
  ASSUME NEW c \in Client, UNCHANGED <<kind, md, ents, use>>, cl'[c].f = cl[c].f, cl'[c].to = cl[c].to
  PROVE  /\ Nameless(cl[c].f)' <=> Nameless(cl[c].f)
         /\ OnlyAt(cl[c].to, cl[c].f)' <=> OnlyAt(cl[c].to, cl[c].f)
         /\ md'[cl'[c].f] = md[cl[c].f] /\ kind'[cl'[c].f] = kind[cl[c].f]
  BY DEF Nameless, OnlyAt, Entry

(* An entry that a call finds is settled: it is the only one of what it    *)
(* names.                                                                  *)
LEMMA FoundOnce ==
  ASSUME ShapeInv, SeqInv, TreeInv, NEW c \in Client, cl[c].pc \notin Ready, ~Changing(c),
         NEW e \in Fid \X Name, NEW f \in Fid, f = Entry(e)
  PROVE  f # Root /\ (Tracked(f) => md[f] = 1 /\ OnlyAt(e, f))
  <1>1. e[1] \in Fid /\ e[2] \in Name /\ ents[e[1]][e[2]] = f
    BY DEF Entry
  <1>2. f # Root
    BY <1>1 DEF TreeInv, Nameless
  <1>3. ~Nameless(f)
    BY <1>1 DEF Nameless
  <1>4. ASSUME Tracked(f)
        PROVE  md[f] = 1 /\ OnlyAt(e, f)
    <2>1. \A b \in Client : b # c => cl[b].pc \in Ready
      BY DEF SeqInv, Solo
    <2>2. \A b \in Client : ~Changing(b)
      BY <2>1 DEF Changing, Ready
    <2>3. Settled(f)
      BY <1>4, <2>2 DEF TreeInv
    <2>4. md[f] = 1 /\ \E x \in Fid \X Name : OnlyAt(x, f)
      BY <1>3, <2>3 DEF Settled
    <2>5. PICK x \in Fid \X Name : OnlyAt(x, f)
      BY <2>4
    <2>6. e = <<e[1], e[2]>>
      OBVIOUS
    <2>7. x = e
      BY <1>1, <2>5, <2>6 DEF OnlyAt
    <2> QED BY <2>4, <2>5, <2>7
  <1> QED BY <1>2, <1>4

LEMMA TreeClient ==
  ASSUME ShapeInv, SeqInv, TreeInv, NEW c \in Client, Step(c)
  PROVE  TreeInv'
  <1>a. TypeInv /\ Knows(c) /\ cl[c].pc \notin Ready
    <2>1. cl[c].pc \notin Ready
      BY DEF Step, Ready, Parent, Inode, Newrec, Lookup, Count, Kdel, Lock,
         Get, Set, Unlock, Hdel, Remove, Src, Dst, Again, DelSrc, From, FromAttr, To, ToAttr,
         ChildCount
    <2> QED BY <2>1 DEF ShapeInv, SeqInv
  <1>b. /\ Flow(c) /\ cl[c].to \in Fid \X Name /\ cl[c].to[1] \in Fid /\ cl[c].to[2] \in Name
        /\ cl[c].op \in Op /\ kind[cl[c].to[1]] = "dir"
    <2>1. Flow(c) /\ cl[c].to \in Fid \X Name /\ cl[c].to[1] \in Fid /\ cl[c].to[2] \in Name
      BY <1>a, FlowOf
    <2>2. cl[c].op \in Op
      BY <1>a, <2>1, NamespaceAssumption DEF Flow, TypeInv, Use
    <2> QED BY <2>1, <2>2 DEF Flow
  <1>c. "failed" \in Ready /\ "done" \in Ready /\ "abort" \in Ready /\ Ready \cap WithFile = {}
    BY DEF Ready, WithFile
  <1>d. \A f \in Fid : f # None
    BY NamespaceAssumption DEF Fid
  <1>e. cl[c].pc \in WithFile =>
          /\ cl[c].f \in Fid /\ cl[c].f # Root
          /\ Tracked(cl[c].f) => InHand(c)
    BY <1>b DEF Flow, TreeInv
  <1>f. kind[Root] = "dir" /\ 1 # None /\ 0 # None
    BY NamespaceAssumption DEF ShapeInv, FlowInv
  <1>1. CASE Parent(c) \/ Src(c) \/ Dst(c) \/ FromAttr(c)
    <2>1. UNCHANGED <<kind, md, ents, use>> /\ cl[c].pc \in {"parent", "src", "dst", "fromattr"}
      BY <1>1 DEF Parent, Src, Dst, FromAttr
    <2>2. ~Changing(c)
      BY <2>1 DEF Changing
    <2>3. PICK pc \in {"abort", "failed", "inode", "dst", "again", "to"}, p \in {"unlink", "rmdir", cl[c].proc} :
            Goes(c, pc, cl[c].f, cl[c].m, p)
      BY <1>1, ParentEffect, SrcEffect, DstEffect, FromAttrEffect
    <2>4. pc \notin WithFile
      BY DEF WithFile
    <2> QED BY <1>a, <2>1, <2>2, <2>3, <2>4, TreeGoes
  <1>2. CASE Inode(c)
    <2>1. PICK f \in Fid :
            /\ kind[f] = "new" /\ Goes(c, "newrec", f, cl[c].m, cl[c].proc)
            /\ kind'[f] = IF cl[c].op = "mkdir" THEN "dir" ELSE "file"
            /\ \A g \in Fid : g # f => kind'[g] = kind[g] /\ md'[g] = md[g]
            /\ md'[f] = 1 /\ KindKept /\ UNCHANGED <<ents, lock, use>>
      BY <1>2, InodeEffect
    <2>2. cl[c].pc = "inode" /\ cl[c].op \in {"create", "mkdir"}
      BY <1>2, <1>b DEF Inode, Flow
    <2>3. cl'[c].pc = "newrec" /\ cl'[c].f = f /\ cl'[c].op = cl[c].op
      BY <2>1 DEF Goes, Ready
    <2>4. f # Root /\ ~Changing(c) /\ \A g \in Fid : g # f => SameAs(g)
      BY <1>f, <2>1, <2>2 DEF Changing, SameAs
    <2>5. Nameless(f)
      BY <1>d, <2>1 DEF Nameless, ShapeInv, FlowInv
    <2>6. Nameless(cl[c].f)' /\ md'[cl'[c].f] = 1
      BY <2>1, <2>3, <2>5 DEF Nameless
    <2>7. Changing(c)' /\ InHand(c)'
      BY <2>2, <2>3, <2>6 DEF Changing, InHand, Removing
    <2> QED BY <1>a, <2>1, <2>3, <2>4, <2>7, TreeStep DEF Goes
  <1>3. CASE Newrec(c)
    <2>1. UNCHANGED <<kind, md, lock, use>> /\ cl[c].pc = "newrec" /\ cl[c].pc \in WithFile
      BY <1>3 DEF Newrec, WithFile
    <2>2. cl[c].f \in Fid /\ cl[c].f # Root /\ (Tracked(cl[c].f) => InHand(c))
      BY <1>e, <2>1
    <2>3. ASSUME Entry(cl[c].to) = None, Puts(cl[c].to[1], cl[c].to[2], cl[c].f)
          PROVE  /\ \A g \in Fid : g # cl[c].f => SameAs(g)
                 /\ ents'[cl[c].to[1]][cl[c].to[2]] = cl[c].f
                 /\ \A d \in Fid, n \in Name : ents'[d][n] = cl[c].f =>
                      <<d, n>> = cl[c].to \/ ents[d][n] = cl[c].f
      <3>1. PICK e \in Fid, k \in Name : cl[c].to = <<e, k>>
        BY <1>b
      <3>2. ents[e][k] = None /\ ents'[e][k] = cl[c].f
        BY <2>3, <3>1 DEF Entry, Puts
      <3>3. \A d \in Fid, n \in Name : <<d, n>> # <<e, k>> => ents'[d][n] = ents[d][n]
        BY <2>3, <3>1 DEF Puts
      <3>4. \A g \in Fid : g # cl[c].f => SameAs(g)
        BY <1>d, <2>1, <3>2, <3>3 DEF SameAs
      <3> QED BY <3>1, <3>2, <3>3, <3>4
    <2>4. CASE /\ Entry(cl[c].to) = None /\ Puts(cl[c].to[1], cl[c].to[2], cl[c].f)
               /\ cl[c].op # "rename" /\ Goes(c, "done", cl[c].f, cl[c].m, cl[c].proc)
      <3>1. ASSUME Tracked(cl[c].f)
            PROVE  md[cl[c].f] = 1 /\ Nameless(cl[c].f)
        <4>1. cl[c].op # "link"
          BY <1>b, <2>1, <2>2, <3>1 DEF Tracked, Flow
        <4>2. cl[c].op \in {"create", "mkdir"}
          BY <1>b, <2>1, <2>4, <4>1 DEF Flow
        <4> QED BY <2>1, <2>2, <3>1, <4>2 DEF InHand
      <3>2. PICK f \in Fid : f = cl[c].f
        BY <2>2
      <3>3. ASSUME Tracked(f)'
            PROVE  Settled(f)'
        <4>1. Tracked(f) /\ md'[f] = 1
          BY <2>1, <3>1, <3>2, <3>3 DEF Tracked
        <4>2. \A d \in Fid, n \in Name : ents'[d][n] = f => <<d, n>> = cl[c].to
          BY <2>3, <2>4, <3>1, <3>2, <4>1 DEF Nameless
        <4>3. PICK e \in Fid \X Name : e = cl[c].to
          BY <1>b
        <4>4. OnlyAt(e, f)'
          BY <2>3, <2>4, <3>2, <4>2, <4>3 DEF OnlyAt, Entry
        <4> QED BY <4>1, <4>4 DEF Settled
      <3>4. /\ cl'[c].pc \notin WithFile /\ \A b \in Client : b # c => cl'[b] = cl[b]
            /\ \A g \in Fid : g # f => SameAs(g)
        BY <1>c, <2>3, <2>4, <3>2 DEF Goes
      <3> QED BY <1>a, <2>1, <2>2, <3>2, <3>3, <3>4, TreeStep
    <2>5. CASE /\ Entry(cl[c].to) = None /\ Puts(cl[c].to[1], cl[c].to[2], cl[c].f)
               /\ cl[c].op = "rename" /\ Goes(c, "delsrc", cl[c].f, cl[c].m, cl[c].proc)
      <3>1. Entry(cl[c].from) = cl[c].f /\ cl[c].from \in Fid \X Name /\ ~Changing(c)
        BY <1>a, <1>b, <2>1, <2>5 DEF Knows, Flow, Changing, Removing
      <3>2. Tracked(cl[c].f) => md[cl[c].f] = 1 /\ OnlyAt(cl[c].from, cl[c].f)
        BY <1>a, <2>2, <3>1, FoundOnce
      <3>3. PICK f \in Fid : f = cl[c].f
        BY <2>2
      <3>4. /\ cl'[c].pc = "delsrc" /\ cl'[c].f = f /\ cl'[c].op = "rename"
            /\ cl'[c].from = cl[c].from /\ cl'[c].to = cl[c].to
            /\ \A b \in Client : b # c => cl'[b] = cl[b]
        BY <2>5, <3>3 DEF Goes, Ready
      <3>5. ASSUME Tracked(f)'
            PROVE  InHand(c)'
        <4>1. Tracked(f) /\ md'[f] = 1
          BY <2>1, <3>2, <3>3, <3>5 DEF Tracked
        <4>2. \A d \in Fid, n \in Name : ents'[d][n] = f => <<d, n>> \in {cl[c].from, cl[c].to}
          BY <2>3, <2>5, <3>2, <3>3, <4>1 DEF OnlyAt
        <4> QED BY <3>4, <4>1, <4>2 DEF InHand, Removing
      <3>6. Changing(c)'
        BY <3>4 DEF Changing, Removing
      <3>7. \A g \in Fid : g # f => SameAs(g)
        BY <2>3, <2>5, <3>3
      <3> QED BY <1>a, <2>1, <2>2, <3>3, <3>4, <3>5, <3>6, <3>7, TreeStep
    <2>6. CASE /\ ents' = ents /\ cl[c].op \notin {"create", "mkdir"}
               /\ \E pc \in {"failed", "from"} : Goes(c, pc, cl[c].f, cl[c].m, cl[c].proc)
      <3>1. ~Changing(c) /\ "failed" \notin WithFile /\ "from" \notin WithFile
        BY <2>1, <2>6 DEF Changing, WithFile
      <3> QED BY <1>a, <2>1, <2>6, <3>1, TreeGoes
    <2>7. ASSUME ents' = ents, NEW pc \in {"lock", "kdel"}, cl[c].op \in {"create", "mkdir"},
                 Goes(c, pc, cl[c].f, cl[c].m, cl[c].proc)
          PROVE  TreeInv'
      <3>1. /\ cl'[c].pc = pc /\ cl'[c].f = cl[c].f /\ cl'[c].op = cl[c].op
            /\ cl'[c].to = cl[c].to
        BY <2>7 DEF Goes, Ready
      <3>2. Changing(c)' /\ (Tracked(cl[c].f) => InHand(c)')
        BY <2>1, <2>2, <2>7, <3>1, HandKept DEF Changing, InHand, Removing
      <3> QED BY <1>a, <2>1, <2>2, <2>7, <3>1, <3>2, TreeGoes
    <2> QED BY <1>3, <2>4, <2>5, <2>6, <2>7, NewrecEffect
  <1>4. CASE Lookup(c)
    <2>1. UNCHANGED <<kind, md, ents, use>> /\ cl[c].pc = "lookup" /\ ~Changing(c) /\ Removing(c)
      BY <1>4, <1>b DEF Lookup, Changing, Flow, Removing
    <2>2. CASE Goes(c, "failed", cl[c].f, cl[c].m, cl[c].proc)
      BY <1>a, <1>c, <2>1, <2>2, TreeGoes
    <2>3. ASSUME NEW f \in Fid, NEW pc \in {"count", "get", "lock"},
                 f = Entry(cl[c].to), Goes(c, pc, f, cl[c].m, cl[c].proc)
          PROVE  TreeInv'
      <3>1. f # Root /\ (Tracked(f) => md[f] = 1 /\ OnlyAt(cl[c].to, f))
        BY <1>a, <1>b, <2>1, <2>3, FoundOnce
      <3>2. cl'[c].pc = pc /\ cl'[c].f = f /\ cl'[c].op = cl[c].op /\ cl'[c].to = cl[c].to
        BY <2>3 DEF Goes, Ready
      <3>3. OnlyAt(cl[c].to, f) => OnlyAt(cl[c].to, cl[c].f)'
        BY <2>1, <3>2 DEF OnlyAt, Entry
      <3>4. Tracked(f) => InHand(c)'
        BY <2>1, <3>1, <3>2, <3>3 DEF InHand, Removing
      <3> QED BY <1>a, <2>1, <2>3, <3>1, <3>4, TreeGoes
    <2> QED BY <1>4, <2>2, <2>3, LookupEffect
  <1>5. CASE Count(c)
    <2>1. UNCHANGED <<kind, md, ents, use>> /\ cl[c].pc = "count" /\ ~Changing(c) /\ Removing(c)
      BY <1>5, <1>b DEF Count, Changing, Flow, Removing
    <2>2. CASE Goes(c, "failed", cl[c].f, cl[c].m, cl[c].proc)
      BY <1>a, <1>c, <2>1, <2>2, TreeGoes
    <2>3. CASE Goes(c, "kdel", cl[c].f, cl[c].m, cl[c].proc)
      <3>1. cl'[c].pc = "kdel" /\ cl'[c].f = cl[c].f /\ cl'[c].op = cl[c].op /\ cl'[c].to = cl[c].to
        BY <2>3 DEF Goes, Ready
      <3>2. cl[c].f # Root /\ (Tracked(cl[c].f) => InHand(c))
        BY <1>e, <2>1 DEF WithFile
      <3>3. Tracked(cl[c].f) => InHand(c)'
        BY <2>1, <3>1, <3>2, HandKept DEF InHand, Removing
      <3> QED BY <1>a, <2>1, <2>3, <3>2, <3>3, TreeGoes
    <2> QED BY <1>5, <2>2, <2>3, CountEffect
  <1>6. CASE Kdel(c)
    <2>1. cl[c].pc = "kdel" /\ cl[c].pc \in WithFile
      BY <1>6 DEF Kdel, WithFile
    <2>2. PICK f \in Fid : f = cl[c].f
      BY <1>e, <2>1
    <2>3. Clears(f) /\ kind[f] = "dir" /\ UNCHANGED <<kind, use>>
      BY <1>6, <2>2, KdelEffect
    <2>4. f # Root /\ Tracked(f) /\ InHand(c)
      BY <1>e, <2>1, <2>2, <2>3 DEF Tracked
    <2>5. NoEntries(f) /\ (cl[c].op = "mkdir" => Nameless(f)) /\ (Removing(c) => OnlyAt(cl[c].to, f))
      <3>1. cl[c].op = "mkdir" \/ Removing(c)
        BY <1>b, <2>1 DEF Flow, Removing
      <3>2. md[f] = 1
        BY <2>1, <2>2, <2>4, <3>1 DEF InHand
      <3> QED BY <1>a, <1>f, <2>1, <2>2, <2>4, <3>1, <3>2 DEF Knows, InHand
    <2>6. \A d \in Fid, n \in Name : ents'[d][n] = ents[d][n]
      BY <2>3, <2>5 DEF NoEntries, Clears
    <2>7. \A g \in Fid : g # f => SameAs(g)
      BY <2>3, <2>6 DEF SameAs, Clears
    <2>8. CASE cl[c].op = "mkdir" /\ Goes(c, "failed", cl[c].f, cl[c].m, cl[c].proc)
      <3>1. Settled(f)'
        BY <2>3, <2>5, <2>6, <2>8 DEF Settled, Nameless, Clears
      <3>2. cl'[c].pc \notin WithFile /\ \A b \in Client : b # c => cl'[b] = cl[b]
        BY <1>c, <2>8 DEF Goes
      <3> QED BY <1>a, <2>2, <2>3, <2>4, <2>7, <3>1, <3>2, TreeStep
    <2>9. CASE cl[c].op # "mkdir" /\ Goes(c, "hdel", cl[c].f, cl[c].m, cl[c].proc)
      <3>1. /\ cl'[c].pc = "hdel" /\ cl'[c].f = f /\ cl'[c].op = cl[c].op /\ cl'[c].to = cl[c].to
            /\ \A b \in Client : b # c => cl'[b] = cl[b]
        BY <2>2, <2>9 DEF Goes, Ready
      <3>2. Removing(c)
        BY <1>b, <2>1, <2>9 DEF Flow, Removing
      <3>3. Changing(c)'
        BY <3>1, <3>2 DEF Changing, Removing
      <3>4. OnlyAt(cl[c].to, cl[c].f)'
        BY <1>b, <2>5, <2>6, <3>1, <3>2 DEF OnlyAt, Entry
      <3>5. InHand(c)'
        BY <2>3, <3>1, <3>4 DEF InHand, Removing, Clears
      <3> QED BY <1>a, <2>2, <2>3, <2>4, <2>7, <3>1, <3>3, <3>5, TreeStep
    <2> QED BY <1>6, <2>8, <2>9, KdelEffect
  <1>7. CASE Lock(c)
    <2>1. cl[c].pc = "lock" /\ Goes(c, "get", cl[c].f, cl[c].m, cl[c].proc) /\ UNCHANGED <<kind, md, ents, use>>
      BY <1>7, LockEffect DEF Lock
    <2>2. cl[c].f # Root /\ (Tracked(cl[c].f) => InHand(c))
      BY <1>e, <2>1 DEF WithFile
    <2>3. cl'[c].pc = "get" /\ cl'[c].f = cl[c].f /\ cl'[c].op = cl[c].op /\ cl'[c].to = cl[c].to
      BY <2>1 DEF Goes, Ready
    <2>4. Tracked(cl[c].f) => InHand(c)'
      BY <2>1, <2>2, <2>3, HandKept DEF InHand, Removing
    <2>5. Changing(c) => Changing(c)'
      BY <2>1, <2>3 DEF Changing, Removing
    <2> QED BY <1>a, <2>1, <2>2, <2>3, <2>4, <2>5, TreeGoes
  <1>8. CASE Get(c)
    <2>1. cl[c].pc = "get" /\ UNCHANGED <<kind, md, ents, use>>
      BY <1>8 DEF Get
    <2>2. cl[c].f # Root /\ (Tracked(cl[c].f) => InHand(c))
      BY <1>e, <2>1 DEF WithFile
    <2>3. CASE kind[cl[c].f] = "dir"
      <3>1. InHand(c)
        BY <2>2, <2>3 DEF Tracked
      <3>2. Removing(c)
        BY <1>b, <2>1, <2>3 DEF Flow, Removing, Op
      <3>3. md[cl[c].f] = 1 /\ md[cl[c].f] = None
        BY <1>a, <2>1, <2>3, <3>1, <3>2 DEF InHand, Knows
      <3> QED BY <1>f, <3>3
    <2>4. CASE Goes(c, "set", cl[c].f, md[cl[c].f], cl[c].proc)
      <3>1. /\ cl'[c].pc = "set" /\ cl'[c].f = cl[c].f /\ cl'[c].op = cl[c].op /\ cl'[c].to = cl[c].to
            /\ cl'[c].m = md[cl[c].f]
        BY <2>4 DEF Goes, Ready
      <3>2. Tracked(cl[c].f) => InHand(c)'
        BY <2>1, <2>2, <3>1, HandKept DEF InHand, Removing
      <3>3. Changing(c) => Changing(c)'
        BY <2>1, <3>1 DEF Changing, Removing
      <3> QED BY <1>a, <2>1, <2>2, <2>4, <3>1, <3>2, <3>3, TreeGoes
    <2> QED BY <1>8, <2>3, <2>4, GetEffect
  <1>9. CASE Set(c)
    <2>1. /\ Goes(c, "unlock", cl[c].f, cl[c].m, cl[c].proc)
          /\ cl[c].pc = "set" /\ kind[cl[c].f] = "file" /\ UNCHANGED <<kind, ents, lock, use>>
          /\ \A g \in Fid : g # cl[c].f => md'[g] = md[g]
          /\ cl[c].m \notin {None, Empty} =>
               md'[cl[c].f] = cl[c].m + (IF cl[c].op = "link" THEN 1 ELSE -1)
      BY <1>9, SetGoes
    <2>2. cl[c].f \in Fid /\ cl[c].f # Root /\ (Tracked(cl[c].f) => InHand(c))
      BY <1>e, <2>1 DEF WithFile
    <2>3. PICK f \in Fid : f = cl[c].f
      BY <2>2
    <2>4. /\ cl'[c].pc = "unlock" /\ cl'[c].f = f /\ cl'[c].op = cl[c].op /\ cl'[c].to = cl[c].to
          /\ \A b \in Client : b # c => cl'[b] = cl[b]
      BY <2>1, <2>3 DEF Goes, Ready
    <2>5. \A g \in Fid : g # f => SameAs(g)
      BY <2>1, <2>3 DEF SameAs
    <2>6. ASSUME Tracked(f)'
          PROVE  InHand(c)' /\ (Settled(f)' \/ Changing(c)')
      <3>1. Tracked(f) /\ InHand(c) /\ cl[c].op # "link"
        BY <1>b, <2>1, <2>2, <2>3, <2>6 DEF Tracked, Flow
      <3>2. cl[c].op = "create" \/ Removing(c)
        BY <1>b, <2>1, <3>1 DEF Flow, Removing, Op
      <3>3. md[f] = 1 /\ cl[c].m = md[f]
        BY <2>1, <2>3, <3>1, <3>2 DEF InHand
      <3>4. md'[f] = 0
        BY <2>1, <2>3, <3>1, <3>3, NamespaceAssumption
      <3>5. CASE cl[c].op = "create"
        <4>1. Nameless(f)
          BY <2>1, <2>3, <3>1, <3>5 DEF InHand
        <4>2. Settled(f)'
          BY <2>1, <2>3, <3>4, <4>1 DEF Settled, Nameless
        <4>3. InHand(c)'
          BY <2>4, <3>5 DEF InHand, Removing
        <4> QED BY <4>2, <4>3
      <3>6. CASE Removing(c)
        <4>1. OnlyAt(cl[c].to, f)
          BY <2>1, <2>3, <3>1, <3>6 DEF InHand
        <4>2. OnlyAt(cl[c].to, cl[c].f)'
          BY <2>1, <2>4, <4>1 DEF OnlyAt, Entry
        <4>3. InHand(c)' /\ Changing(c)'
          BY <2>1, <2>3, <2>4, <3>4, <3>6, <4>2 DEF InHand, Changing, Removing
        <4> QED BY <4>3
      <3> QED BY <3>2, <3>5, <3>6
    <2> QED BY <1>a, <2>1, <2>2, <2>3, <2>4, <2>5, <2>6, TreeStep
  <1>10. CASE Unlock(c)
    <2>1. cl[c].pc = "unlock" /\ UNCHANGED <<kind, md, ents, use>>
      BY <1>10, UnlockEffect
    <2>2. cl[c].f # Root /\ (Tracked(cl[c].f) => InHand(c))
      BY <1>e, <2>1 DEF WithFile
    <2>3. CASE cl[c].op = "create" /\ Goes(c, "failed", cl[c].f, cl[c].m, cl[c].proc)
      <3>1. ~Changing(c)
        BY <2>1, <2>3 DEF Changing, Removing
      <3> QED BY <1>a, <1>c, <2>1, <2>3, <3>1, TreeGoes
    <2>4. CASE cl[c].op = "link" /\ Goes(c, "newrec", cl[c].f, cl[c].m, cl[c].proc)
      <3>1. cl'[c].pc = "newrec" /\ cl'[c].op = "link"
        BY <2>4 DEF Goes, Ready
      <3>2. ~Changing(c) /\ InHand(c)'
        BY <2>1, <2>4, <3>1 DEF Changing, Removing, InHand
      <3> QED BY <1>a, <2>1, <2>2, <2>4, <3>2, TreeGoes
    <2>5. CASE Goes(c, "hdel", cl[c].f, cl[c].m, cl[c].proc)
      <3>1. cl'[c].pc = "hdel" /\ cl'[c].f = cl[c].f /\ cl'[c].op = cl[c].op /\ cl'[c].to = cl[c].to
        BY <2>5 DEF Goes, Ready
      <3>2. Tracked(cl[c].f) => InHand(c)'
        BY <2>1, <2>2, <3>1, HandKept DEF InHand, Removing
      <3>3. Changing(c) => Changing(c)'
        BY <2>1, <3>1 DEF Changing, Removing
      <3> QED BY <1>a, <2>1, <2>2, <2>5, <3>1, <3>2, <3>3, TreeGoes
    <2> QED BY <1>10, <2>3, <2>4, <2>5, UnlockEffect
  <1>11. CASE Hdel(c)
    <2>1. UNCHANGED <<kind, md, lock, use>> /\ cl[c].pc = "hdel" /\ Removing(c)
      BY <1>11, <1>b DEF Hdel, Flow, Removing
    <2>2. cl[c].f \in Fid /\ cl[c].f # Root /\ (Tracked(cl[c].f) => InHand(c))
      BY <1>e, <2>1 DEF WithFile
    <2>3. PICK f \in Fid : f = cl[c].f
      BY <2>2
    <2>4. /\ kind[f] \in {"file", "dir"}
          /\ Tracked(f) => OnlyAt(cl[c].to, f) /\ md[f] = IF kind[f] = "dir" THEN None ELSE 0
      BY <1>a, <1>b, <2>1, <2>2, <2>3 DEF InHand, Flow, WithFile, TypeInv
    <2>5. CASE /\ Entry(cl[c].to) = None /\ ents' = ents
               /\ Goes(c, "failed", cl[c].f, cl[c].m, cl[c].proc)
      <3>1. ~Tracked(cl[c].f)
        BY <1>d, <2>3, <2>4, <2>5 DEF OnlyAt
      <3> QED BY <1>a, <1>c, <2>1, <2>5, <3>1, TreeGoes
    <2>6. ASSUME Entry(cl[c].to) # None, Puts(cl[c].to[1], cl[c].to[2], None),
                 NEW pc \in {"remove", "done", "src"}, NEW p, Goes(c, pc, cl[c].f, cl[c].m, p),
                 pc = "remove" => kind[f] = "file"
          PROVE  TreeInv'
      <3>1. PICK e \in Fid, k \in Name : cl[c].to = <<e, k>>
        BY <1>b
      <3>2. ents[e][k] = f /\ ents'[e][k] = None
        BY <1>a, <2>1, <2>3, <2>6, <3>1 DEF Entry, Puts, Knows
      <3>3. \A d \in Fid, n \in Name : <<d, n>> # <<e, k>> => ents'[d][n] = ents[d][n]
        BY <2>6, <3>1 DEF Puts
      <3>4. \A g \in Fid : g # f => SameAs(g)
        BY <1>d, <2>1, <3>2, <3>3 DEF SameAs
      <3>5. ASSUME Tracked(f)
            PROVE  Nameless(f)'
        BY <1>d, <2>4, <3>1, <3>2, <3>3, <3>5 DEF Nameless, OnlyAt
      <3>6. Tracked(f)' => Tracked(f)
        BY <2>1 DEF Tracked
      <3>7. Tracked(f)' => Settled(f)'
        BY <2>1, <2>4, <3>5, <3>6 DEF Settled
      <3>8. \A b \in Client : b # c => cl'[b] = cl[b]
        BY <2>6 DEF Goes
      <3>9. CASE pc = "remove"
        <4>1. cl'[c].pc = "remove" /\ cl'[c].f = f
          BY <2>3, <2>6, <3>9 DEF Goes, Ready
        <4>2. Nameless(f)' => Nameless(cl[c].f)'
          BY <4>1 DEF Nameless
        <4>3. Tracked(f)' => InHand(c)'
          BY <2>1, <2>4, <2>6, <3>5, <3>6, <3>9, <4>1, <4>2 DEF InHand
        <4> QED BY <1>a, <2>1, <2>2, <2>3, <3>4, <3>7, <3>8, <4>1, <4>3, TreeStep
      <3>10. CASE pc # "remove"
        <4>1. cl'[c].pc \notin WithFile
          BY <2>6, <3>10 DEF Goes, WithFile
        <4> QED BY <1>a, <2>1, <2>2, <2>3, <3>4, <3>7, <3>8, <4>1, TreeStep
      <3> QED BY <3>9, <3>10
    <2> QED BY <1>11, <2>3, <2>5, <2>6, HdelEffect
  <1>12. CASE Remove(c)
    <2>1. cl[c].pc = "remove" /\ ~Changing(c)
      BY <1>12 DEF Remove, Changing
    <2>2. cl[c].f \in Fid /\ cl[c].f # Root /\ (Tracked(cl[c].f) => InHand(c))
      BY <1>e, <2>1 DEF WithFile
    <2>3. PICK f \in Fid : f = cl[c].f
      BY <2>2
    <2>4. Clears(f) /\ kind[f] = "file" /\ UNCHANGED <<kind, use>>
      BY <1>12, <2>3, RemoveEffect
    <2>5. NoEntries(f)
      BY <2>4 DEF SeqInv
    <2>6. \A d \in Fid, n \in Name : ents'[d][n] = ents[d][n]
      BY <2>4, <2>5 DEF NoEntries, Clears
    <2>7. \A g \in Fid : g # f => SameAs(g)
      BY <2>4, <2>6 DEF SameAs, Clears
    <2>8. Tracked(f)' => Settled(f)'
      <3>1. Tracked(f)' => Nameless(f)
        BY <2>1, <2>2, <2>3, <2>4 DEF Tracked, InHand
      <3> QED BY <2>4, <2>6, <3>1 DEF Settled, Nameless, Clears
    <2>9. cl'[c].pc \notin WithFile /\ \A b \in Client : b # c => cl'[b] = cl[b]
      BY <1>12, RemoveEffect DEF Goes, WithFile
    <2> QED BY <1>a, <2>1, <2>2, <2>3, <2>4, <2>7, <2>8, <2>9, TreeStep
  <1>13. CASE DelSrc(c)
    <2>1. UNCHANGED <<kind, md, use>> /\ cl[c].pc = "delsrc" /\ cl[c].op = "rename"
      BY <1>13, <1>b DEF DelSrc, Flow
    <2>2. cl[c].f \in Fid /\ cl[c].f # Root /\ (Tracked(cl[c].f) => InHand(c))
      BY <1>e, <2>1 DEF WithFile
    <2>3. PICK f \in Fid : f = cl[c].f
      BY <2>2
    <2>4. /\ Entry(cl[c].from) = f /\ Entry(cl[c].to) = f /\ cl[c].from # cl[c].to
          /\ cl[c].dist = None /\ cl[c].from \in Fid \X Name
      BY <1>a, <1>b, <2>1, <2>3 DEF Knows, Flow
    <2>5. /\ Puts(cl[c].from[1], cl[c].from[2], None)
          /\ Goes(c, "done", cl[c].f, cl[c].m, cl[c].proc)
      BY <1>13, <1>d, <2>4, DelSrcEffect
    <2>6. PICK e \in Fid, k \in Name, d \in Fid, n \in Name :
            cl[c].from = <<e, k>> /\ cl[c].to = <<d, n>>
      BY <1>b, <2>4
    <2>7. ents[e][k] = f /\ ents'[e][k] = None /\ ents[d][n] = f /\ ents'[d][n] = f
      BY <2>4, <2>5, <2>6 DEF Entry, Puts
    <2>8. \A x \in Fid, y \in Name : <<x, y>> # <<e, k>> => ents'[x][y] = ents[x][y]
      BY <2>5, <2>6 DEF Puts
    <2>9. \A g \in Fid : g # f => SameAs(g)
      BY <1>d, <2>1, <2>7, <2>8 DEF SameAs
    <2>10. ASSUME Tracked(f)'
           PROVE  Settled(f)'
      <3>1. Tracked(f)
        BY <2>1, <2>10 DEF Tracked
      <3>2. /\ md[f] = 1
            /\ \A x \in Fid, y \in Name : ents[x][y] = f => <<x, y>> \in {<<e, k>>, <<d, n>>}
        BY <2>1, <2>2, <2>3, <2>6, <3>1 DEF InHand
      <3>3. \A x \in Fid, y \in Name : ents'[x][y] = f => <<x, y>> = <<d, n>>
        BY <1>d, <2>7, <2>8, <3>2
      <3>4. PICK z \in Fid \X Name : z = <<d, n>>
        OBVIOUS
      <3>5. OnlyAt(z, f)'
        BY <2>7, <3>3, <3>4 DEF OnlyAt, Entry
      <3> QED BY <2>1, <3>2, <3>5 DEF Settled
    <2>11. cl'[c].pc \notin WithFile /\ \A b \in Client : b # c => cl'[b] = cl[b]
      BY <1>c, <2>5 DEF Goes
    <2> QED BY <1>a, <2>1, <2>2, <2>3, <2>9, <2>10, <2>11, TreeStep
  <1>14. CASE Again(c) \/ From(c) \/ To(c)
    <2>1. /\ UNCHANGED <<kind, md, ents, use>> /\ cl[c].op = "rename" /\ ~Changing(c)
          /\ cl[c].from \in Fid \X Name
      BY <1>14, <1>b DEF Again, From, To, Flow, Changing
    <2>2. CASE Goes(c, "failed", cl[c].f, cl[c].m, cl[c].proc)
      BY <1>a, <1>c, <2>1, <2>2, TreeGoes
    <2>3. ASSUME NEW f \in Fid, NEW pc \in {"newrec", "fromattr", "toattr"},
                 Goes(c, pc, f, cl[c].m, cl[c].proc), f \in {Entry(cl[c].from), Entry(cl[c].to)}
          PROVE  TreeInv'
      <3>1. f # Root
        BY <1>a, <1>b, <2>1, <2>3, FoundOnce
      <3>2. cl'[c].pc = pc /\ cl'[c].op = "rename"
        BY <2>1, <2>3 DEF Goes, Ready
      <3>3. InHand(c)'
        BY <3>2 DEF InHand
      <3> QED BY <1>a, <2>1, <2>3, <3>1, <3>3, TreeGoes
    <2> QED BY <1>14, <2>2, <2>3, RenameTakes DEF Takes
  <1>15. CASE ToAttr(c) \/ ChildCount(c)
    <2>1. /\ UNCHANGED <<kind, md, ents, use>> /\ ~Changing(c) /\ cl[c].pc \in {"toattr", "childcount"}
          /\ cl[c].op = "rename"
      BY <1>15, <1>b DEF ToAttr, ChildCount, Changing, Flow
    <2>2. cl[c].f # Root
      BY <1>e, <2>1 DEF WithFile
    <2>3. PICK pc \in {"failed", "lookup", "childcount"} : Goes(c, pc, cl[c].f, cl[c].m, cl[c].proc)
      BY <1>15, ToAttrEffect, ChildCountEffect
    <2>4. pc \in WithFile => InHand(c)'
      <3>1. pc \in WithFile => pc = "childcount"
        BY DEF WithFile
      <3>2. pc = "childcount" => cl'[c].pc = "childcount"
        BY <2>3 DEF Goes
      <3> QED BY <3>1, <3>2 DEF InHand
    <2> QED BY <1>a, <2>1, <2>2, <2>3, <2>4, TreeGoes
  <1> QED
    BY <1>1, <1>2, <1>3, <1>4, <1>5, <1>6, <1>7, <1>8, <1>9, <1>10, <1>11, <1>12, <1>13, <1>14,
       <1>15 DEF Step

LEMMA TreeCall ==
  ASSUME ShapeInv, SeqInv, TreeInv, Busy = {}, NEW c \in Client, NEW op \in use.ops, NEW to \in Place,
         NEW from \in Place, NEW f \in Fid \cup {None}, op = "link" => f \in Linkable,
         Call(c, op, from, to, f)
  PROVE  TreeInv'
  <1>1. Begins(c, op, from, to, f)
    BY ShapeCall
  <1>2. UNCHANGED <<kind, md, ents, use>>
    BY <1>1 DEF Begins
  <1>3. \A b \in Client : cl[b].pc \in Ready
    BY DEF Busy
  <1>4. \A b \in Client : ~Changing(b)
    BY <1>3 DEF Changing, Ready
  <1>5. Nameless(Root)'
    BY <1>2 DEF Nameless, TreeInv
  <1>6. ASSUME NEW g \in Fid, Tracked(g)'
        PROVE  Settled(g)'
    <2>1. Tracked(g) /\ SameAs(g)
      BY <1>2, <1>6 DEF Tracked, SameAs
    <2>2. Settled(g)
      BY <1>4, <2>1 DEF TreeInv
    <2> QED BY <2>1, <2>2, SettledKept
  <1>7. ASSUME NEW b \in Client, cl'[b].pc \in WithFile
        PROVE  cl'[b].f # Root /\ ~Tracked(cl[b].f)'
    <2>1. b = c
      BY <1>1, <1>3, <1>7 DEF Begins, WithFile, Ready
    <2>2. op = "link" /\ cl'[c].f = f
      BY <1>1, <1>7, <2>1 DEF Begins, WithFile
    <2>3. kind[f] = "file" /\ kind[Root] = "dir"
      BY <2>2 DEF Linkable, ShapeInv, FlowInv
    <2> QED BY <1>2, <2>1, <2>2, <2>3 DEF Tracked
  <1> QED BY <1>5, <1>6, <1>7 DEF TreeInv

LEMMA TreeNext ==
  ASSUME ShapeInv, OneAtATime, ~use.crash, SeqInv, TreeInv, [Next]_vars
  PROVE  TreeInv'
  <1>1. CASE UNCHANGED <<kind, md, ents, cl, use>>
    BY <1>1 DEF TreeInv, Nameless, Tracked, Settled, OnlyAt, Entry, Changing, Removing, InHand
  <1>2. CASE /\ Busy = {}
             /\ \E c \in Client, op \in use.ops, to \in Place, from \in Place, f \in Fid \cup {None} :
                  (op = "link" => f \in Linkable) /\ Call(c, op, from, to, f)
    BY <1>2, TreeCall
  <1>3. CASE \E c \in Client : Step(c)
    BY <1>3, TreeClient
  <1>4. ~\E c \in Client : Crash(c)
    BY DEF Crash
  <1>5. (\E f \in Fid : LockExpire(f)) \/ UNCHANGED vars => UNCHANGED <<kind, md, ents, cl, use>>
    BY DEF LockExpire, vars
  <1> QED BY <1>1, <1>2, <1>3, <1>4, <1>5, OneCall

LEMMA InitTree ==
  ASSUME Init
  PROVE  TreeInv
  <1>1. \A c \in Client : cl[c].pc \notin WithFile
    BY DEF Init, Idle, WithFile
  <1>2. \A d \in Fid, n \in Name : ents[d][n] = None
    BY DEF Init
  <1>3. \A g \in Fid : g # None
    BY NamespaceAssumption DEF Fid
  <1>4. Root \in Fid
    BY NamespaceAssumption DEF Root, Fid
  <1>5. \A g \in Fid : Nameless(g)
    BY <1>2, <1>3 DEF Nameless
  <1>6. \A g \in Fid : g # Root => md[g] = None
    BY DEF Init
  <1> QED BY <1>1, <1>4, <1>5, <1>6 DEF TreeInv, Tracked, Settled

(* The steps that take an entry away.  Only dir_unlink does so to the name *)
(* that a call was told to remove.                                         *)
LEMMA NameGoes ==
  ASSUME ShapeInv, SeqInv, NEW c \in Client, Step(c), NEW d \in Fid, NEW n \in Name, NEW f \in Fid,
         ents[d][n] = f, ents'[d][n] # f
  PROVE  \/ cl[c].pc = "hdel" /\ cl[c].f = f
         \/ cl[c].pc = "kdel" /\ cl[c].f = d /\ md[d] = None /\ Removing(c) /\ kind[d] = "dir"
         \/ cl[c].to \in Fid \X Name /\ kind[cl[c].to[1]] = "dir" /\ ents'[cl[c].to[1]][cl[c].to[2]] = f
  <1>a. Knows(c) /\ cl[c].pc \notin Ready
    <2>1. cl[c].pc \notin Ready
      BY DEF Step, Ready, Parent, Inode, Newrec, Lookup, Count, Kdel, Lock,
         Get, Set, Unlock, Hdel, Remove, Src, Dst, Again, DelSrc, From, FromAttr, To, ToAttr,
         ChildCount
    <2> QED BY <2>1 DEF SeqInv
  <1>b. /\ Flow(c) /\ cl[c].to \in Fid \X Name /\ kind[cl[c].to[1]] = "dir"
        /\ cl[c].to = <<cl[c].to[1], cl[c].to[2]>> /\ cl[c].to[1] \in Fid /\ cl[c].to[2] \in Name
    BY <1>a DEF ShapeInv, FlowInv, Flow
  <1>c. f # None
    BY NamespaceAssumption DEF Fid
  <1>1. CASE Newrec(c)
    BY <1>1, <1>b, <1>c, NewrecEffect DEF Puts, Entry
  <1>2. CASE Kdel(c)
    <2>1. Clears(cl[c].f) /\ cl[c].pc = "kdel" /\ cl[c].f \in Fid /\ kind[cl[c].f] = "dir"
      BY <1>2, KdelEffect DEF Kdel
    <2>2. cl[c].f = d /\ ~NoEntries(d)
      BY <1>c, <2>1 DEF Clears, NoEntries
    <2>3. Removing(c)
      BY <1>a, <1>b, <2>1, <2>2 DEF Knows, Flow, Removing
    <2> QED BY <1>a, <2>1, <2>2, <2>3 DEF Knows
  <1>3. CASE Hdel(c)
    <2>1. cl[c].pc = "hdel" /\ Removing(c)
      BY <1>3, <1>b DEF Hdel, Flow, Removing
    <2>2. Entry(cl[c].to) \in {cl[c].f, None}
      BY <1>a, <2>1 DEF Knows
    <2>3. Puts(cl[c].to[1], cl[c].to[2], None)
      BY <1>3, HdelEffect
    <2>4. cl[c].to[1] = d /\ cl[c].to[2] = n
      BY <2>3 DEF Puts
    <2>5. cl[c].f = f
      BY <1>c, <2>2, <2>4 DEF Entry
    <2> QED BY <2>1, <2>5
  <1>4. CASE Remove(c)
    <2>1. Clears(cl[c].f) /\ cl[c].f \in Fid /\ kind[cl[c].f] = "file"
      BY <1>4, RemoveEffect
    <2>2. NoEntries(cl[c].f)
      BY <2>1 DEF SeqInv
    <2> QED BY <1>c, <2>1, <2>2 DEF Clears, NoEntries
  <1>5. CASE DelSrc(c)
    <2>1. cl[c].pc = "delsrc" /\ cl[c].op = "rename"
      BY <1>5, <1>b DEF DelSrc, Flow
    <2>2. /\ Entry(cl[c].from) = cl[c].f /\ Entry(cl[c].to) = cl[c].f /\ cl[c].from # cl[c].to
          /\ cl[c].from \in Fid \X Name
      BY <1>a, <1>b, <2>1 DEF Knows, Flow
    <2>3. Puts(cl[c].from[1], cl[c].from[2], None)
      BY <1>5, DelSrcEffect
    <2>4. PICK e \in Fid, k \in Name : cl[c].from = <<e, k>>
      BY <2>2
    <2>5. e = d /\ k = n
      BY <2>3, <2>4 DEF Puts
    <2>6. ents[cl[c].to[1]][cl[c].to[2]] = f
      BY <2>2, <2>4, <2>5 DEF Entry
    <2>7. ents'[cl[c].to[1]][cl[c].to[2]] = f
      BY <1>b, <2>2, <2>3, <2>4, <2>6 DEF Puts
    <2> QED BY <1>b, <2>7
  <1>6. Newrec(c) \/ Kdel(c) \/ Hdel(c) \/ Remove(c) \/ DelSrc(c) \/ ents' = ents
    BY DEF Step, Parent, Inode, Lookup, Count, Lock, Get, Set, Unlock, Src, Dst, Again, From,
       FromAttr, To, ToAttr, ChildCount
  <1> QED BY <1>1, <1>2, <1>3, <1>4, <1>5, <1>6

-----------------------------------------------------------------------------
(* The inductive invariant: each part of it for the uses it is about.      *)
NamespaceInv ==
  /\ ShapeInv
  /\ CreateUnlink => EntryInv
  /\ AddNames => LinkInv
  /\ OneAtATime => SeqInv
  /\ OneAtATime /\ ~use.crash => TreeInv

LEMMA InitNamespace ==
  ASSUME Init
  PROVE  NamespaceInv
  <1>1. ShapeInv
    BY InitShape
  <1>2. \A c \in Client : cl[c].pc = "idle"
    BY DEF Init, Idle
  <1>3. \A d \in Fid, n \in Name : ents[d][n] = None
    BY DEF Init
  <1>4. \A f \in Fid : kind[f] # "file"
    BY DEF Init
  <1>5. EntryInv
    BY <1>2, <1>3 DEF EntryInv, EntriesAre, OneEntry, Alone, HoldsFile
  <1>6. LinkInv
    BY <1>2, <1>4 DEF LinkInv, Counted, Locked
  <1> QED BY <1>1, <1>5, <1>6, InitSeq, InitTree DEF NamespaceInv

LEMMA NextNamespace ==
  ASSUME NamespaceInv, [Next]_vars
  PROVE  NamespaceInv'
  <1>1. use' = use
    BY ZenonT(90) DEF Next, vars, Call, Step, Crash, LockExpire, Parent, Inode, Newrec, Lookup, Count, Kdel,
       Lock, Get, Set, Unlock, Hdel, Remove, Src, Dst, Again, DelSrc, From, FromAttr, To, ToAttr,
       ChildCount
  <1>2. ShapeInv'
    BY ShapeNext DEF NamespaceInv
  <1>3. CreateUnlink' => EntryInv'
    BY <1>1, EntryNext DEF NamespaceInv, CreateUnlink
  <1>4. AddNames' => LinkInv'
    BY <1>1, LinkNext DEF NamespaceInv, AddNames
  <1>5. OneAtATime' => SeqInv'
    BY <1>1, SeqNext DEF NamespaceInv, OneAtATime
  <1>6. OneAtATime' /\ ~use'.crash => TreeInv'
    BY <1>1, TreeNext DEF NamespaceInv, OneAtATime
  <1> QED BY <1>2, <1>3, <1>4, <1>5, <1>6 DEF NamespaceInv

LEMMA NamespaceAlways == Spec => []NamespaceInv
  <1>1. Init => NamespaceInv
    BY InitNamespace
  <1>2. NamespaceInv /\ [Next]_vars => NamespaceInv'
    BY NextNamespace
  <1> QED BY <1>1, <1>2, PTL DEF Spec

(* __md_create makes the inode before dir_newrec makes its entry, and      *)
(* sdfs_unlink deletes it after dir_unlink: where clients only create and  *)
(* unlink, no entry ever names a file that is not there, for any number of *)
(* clients that work on the same names and wherever one of them stops.     *)
THEOREM NamespaceEntryHasInode == Spec => []EntryHasInode
  <1>1. NamespaceInv => EntryHasInode
    <2>1. SUFFICES ASSUME NamespaceInv, use.ops \subseteq {"create", "unlink"},
                          NEW e \in Place, Entry(e) # None
                   PROVE  md[Entry(e)] \notin {None, Empty}
      BY DEF EntryHasInode, EntriesGood
    <2>2. EntriesAre
      BY <2>1 DEF NamespaceInv, CreateUnlink, EntryInv
    <2>3. e[1] \in Fid /\ e[2] \in Name
      BY <2>1 DEF Place
    <2> QED BY <2>1, <2>2, <2>3 DEF EntriesAre, Entry
  <1> QED BY <1>1, NamespaceAlways, PTL

(* __inode_link raises the count of a file under its lock before the new   *)
(* entry is made, and __md_create that finds its name taken lowers it: as  *)
(* long as names are only added, the count of a file that has a name is    *)
(* never less than the number of its names, whichever calls run together   *)
(* and wherever one stops.                                                 *)
THEOREM NamespaceLinksCounted == Spec => []LinksCounted
  <1>1. NamespaceInv => LinksCounted
    <2>1. SUFFICES ASSUME NamespaceInv, use.ops \cap {"unlink", "rmdir", "rename"} = {},
                          NEW f \in Linkable
                   PROVE  md[f] \notin {None, Empty} /\ Cardinality(Names(f)) <= md[f]
      BY DEF LinksCounted
    <2>2. f \in Fid /\ kind[f] = "file"
      BY DEF Linkable
    <2>3. md[f] \in Nat /\ Cardinality(Names(f)) + Cardinality(Owed(f)) <= md[f]
      BY <2>1, <2>2 DEF NamespaceInv, AddNames, LinkInv, Counted
    <2>4. Cardinality(Names(f)) \in Nat /\ Cardinality(Owed(f)) \in Nat
      BY <2>1, <2>2, FiniteCounts, FS_CardinalityType DEF NamespaceInv
    <2> QED BY <2>3, <2>4, NamespaceAssumption
  <1> QED BY <1>1, NamespaceAlways, PTL


LEMMA KindNext ==
  ASSUME ShapeInv, [Next]_vars
  PROVE  KindKept
  <1>1. CASE \E c \in Client : Inode(c)
    BY <1>1, InodeEffect
  <1>2. (\A c \in Client : ~Inode(c)) => kind' = kind
    BY ZenonT(90) DEF Next, vars, Call, Step, Crash, LockExpire, Parent, Newrec, Lookup, Count, Kdel, Lock,
       Get, Set, Unlock, Hdel, Remove, Src, Dst, Again, DelSrc, From, FromAttr, To, ToAttr,
       ChildCount
  <1> QED BY <1>1, <1>2 DEF KindKept

LEMMA LastNameStep ==
  ASSUME NamespaceInv, [Next]_vars, use.clients = 1, NEW f \in Fid, Names(f) # {}, Names(f)' = {}
  PROVE  \/ \E c \in Client : cl[c].pc = "hdel" /\ cl[c].f = f
         \/ use.crash /\ \E e \in Names(f) : md[e[1]] = None
  <1>1. ShapeInv /\ OneAtATime /\ SeqInv /\ (~use.crash => TreeInv)
    BY DEF NamespaceInv, OneAtATime
  <1>2. PICK e \in Place : Entry(e) = f
    BY DEF Names
  <1>3. PICK d \in Fid, n \in Name : e = <<d, n>> /\ kind[d] = "dir" /\ ents[d][n] = f
    BY <1>2 DEF Place, Entry
  <1>4. ASSUME NEW x \in Fid, NEW y \in Name, kind[x] = "dir"
        PROVE  ents'[x][y] # f
    <2>1. kind'[x] = "dir"
      BY <1>1, <1>4, KindNext DEF KindKept
    <2>2. <<x, y>> \in Place'
      BY <2>1 DEF Place
    <2>3. ~(Entry(<<x, y>>)' = f)
      BY <2>2 DEF Names
    <2> QED BY <2>3 DEF Entry
  <1>5. ents'[d][n] # f
    BY <1>3, <1>4
  <1>6. \E c \in Client : Step(c)
    <2>1. ents' # ents
      BY <1>3, <1>5
    <2> QED BY <1>1, <2>1, NextSteps DEF Call, Crash, LockExpire, vars
  <1>7. PICK c \in Client : Step(c)
    BY <1>6
  <1>8. CASE cl[c].pc = "hdel" /\ cl[c].f = f
    BY <1>8
  <1>9. CASE cl[c].pc = "kdel" /\ cl[c].f = d /\ md[d] = None /\ Removing(c) /\ kind[d] = "dir"
    <2>1. ASSUME ~use.crash
          PROVE  FALSE
      <3>1. d # Root /\ (Tracked(d) => InHand(c))
        BY <1>1, <1>9, <2>1 DEF TreeInv, WithFile
      <3>2. md[d] = 1
        BY <1>9, <3>1 DEF Tracked, InHand
      <3> QED BY <1>9, <3>2, NamespaceAssumption
    <2>2. e \in Names(f) /\ md[e[1]] = None
      BY <1>2, <1>3, <1>9 DEF Names
    <2> QED BY <2>1, <2>2
  <1>10. CASE /\ cl[c].to \in Fid \X Name /\ kind[cl[c].to[1]] = "dir"
              /\ ents'[cl[c].to[1]][cl[c].to[2]] = f
    BY <1>4, <1>10
  <1> QED BY <1>1, <1>3, <1>5, <1>7, <1>8, <1>9, <1>10, NameGoes

(* md_rename makes the new entry before it removes the old one, and        *)
(* md_rmdir and __rename_proc delete only what has no entries: with one    *)
(* client at a time, the last name of a file or of a directory goes only   *)
(* in the call that was told to remove it, for any calls on any names.     *)
(* Where a client may stop half way, there is one exception, a directory   *)
(* whose record is gone already, and what was put into it since.           *)
THEOREM NamespaceLastNameKept == Spec => LastNameKept
  <1>1. NamespaceInv /\ [Next]_vars =>
          [use.clients = 1 =>
             \A f \in Fid : Names(f) # {} /\ Names(f)' = {} =>
               \/ \E c \in Client : cl[c].pc = "hdel" /\ cl[c].f = f
               \/ use.crash /\ \E e \in Names(f) : md[e[1]] = None]_vars
    BY LastNameStep
  <1> QED BY <1>1, NamespaceAlways, PTL DEF Spec, LastNameKept

LEMMA TreeConsistent ==
  ASSUME NamespaceInv, use.clients = 1, ~use.crash, "link" \notin use.ops, Busy = {}
  PROVE  /\ EntriesGood
         /\ \A f \in Fid \ {Root} : md[f] # None =>
              Cardinality(Names(f)) = IF kind[f] = "dir" THEN 1 ELSE md[f]
  <1>1. ShapeInv /\ SeqInv /\ TreeInv
    BY DEF NamespaceInv, OneAtATime
  <1>2. \A c \in Client : ~Changing(c)
    BY DEF Busy, Changing, Ready
  <1>3. \A g \in Fid : g # Root => Settled(g)
    BY <1>1, <1>2 DEF TreeInv, Tracked
  <1>4. 1 # None /\ 1 # Empty /\ 0 # None
    BY NamespaceAssumption
  <1>5. ASSUME NEW e \in Place, Entry(e) # None
        PROVE  md[Entry(e)] \notin {None, Empty}
    <2>1. PICK d \in Fid, n \in Name : e = <<d, n>>
      BY DEF Place
    <2>2. PICK f \in Fid : f = ents[d][n] /\ f = Entry(e)
      BY <1>1, <1>5, <2>1 DEF ShapeInv, TypeInv, Entry
    <2>3. ~Nameless(f)
      BY <2>2 DEF Nameless
    <2>4. f # Root
      BY <1>1, <2>3 DEF TreeInv
    <2>5. md[f] = 1
      BY <1>3, <2>3, <2>4 DEF Settled
    <2> QED BY <1>4, <2>2, <2>5
  <1>6. ASSUME NEW f \in Fid \ {Root}, md[f] # None
        PROVE  Cardinality(Names(f)) = IF kind[f] = "dir" THEN 1 ELSE md[f]
    <2>1. CASE md[f] = 1 /\ \E e \in Fid \X Name : OnlyAt(e, f)
      <3>1. PICK e \in Fid \X Name : OnlyAt(e, f)
        BY <2>1
      <3>2. PICK d \in Fid, n \in Name : e = <<d, n>>
        OBVIOUS
      <3>3. ents[d][n] = f /\ f # None
        BY <3>1, <3>2, NamespaceAssumption DEF OnlyAt, Entry, Fid
      <3>4. kind[d] = "dir"
        BY <1>1, <3>3 DEF SeqInv, NoEntries
      <3>5. e \in Names(f)
        BY <3>2, <3>3, <3>4 DEF Names, Place, Entry
      <3>6. \A x \in Names(f) : x = e
        <4>1. SUFFICES ASSUME NEW x \in Names(f)
                       PROVE  x = e
          OBVIOUS
        <4>2. PICK a \in Fid, b \in Name : x = <<a, b>> /\ ents[a][b] = f
          BY DEF Names, Place, Entry
        <4> QED BY <3>1, <4>2 DEF OnlyAt
      <3>7. Names(f) = {e}
        BY <3>5, <3>6
      <3>8. Cardinality(Names(f)) = 1
        BY <3>7, FS_Singleton
      <3> QED BY <2>1, <3>8
    <2>2. CASE kind[f] = "file" /\ md[f] = 0 /\ Nameless(f)
      <3>1. Names(f) = {}
        BY <2>2 DEF Nameless, Names, Place, Entry
      <3>2. Cardinality(Names(f)) = 0
        BY <3>1, FS_EmptySet
      <3> QED BY <2>2, <3>2
    <2> QED BY <1>3, <1>6, <2>1, <2>2 DEF Settled
  <1> QED BY <1>5, <1>6 DEF EntriesGood

(* Calls of md_dir.c that follow each other, in any number and on any      *)
(* names, leave a tree: a directory has one entry, a file has as many as   *)
(* its link count says, and what an entry names has its inode.             *)
THEOREM NamespaceConsistent == Spec => []Consistent
  <1>1. NamespaceInv => Consistent
    BY TreeConsistent DEF Consistent
  <1> QED BY <1>1, NamespaceAlways, PTL

-----------------------------------------------------------------------------
(***************************************************************************)
(* The ids of new inodes, which Inode takes for granted, come from         *)
(* md_newid (metadata/md.c): the daemons and tools that use a volume hand  *)
(* them out as IdSpec of MdId says, beside the calls of Spec.              *)
(***************************************************************************)

(* The counters of a process and the ids handed out are naturals.          *)
LEMMA IdsTyped ==
  ASSUME IdInv
  PROVE  /\ \A n \in Node : /\ cur[n] \in Nat /\ end[n] \in Nat /\ MdidStep[n] \in Nat \ {0}
                            /\ got[n].val \in Nat /\ got[n].idx \in Nat
         /\ \A i \in 1..Len(handed) : handed[i] \in Nat
         /\ Len(handed) \in Nat /\ val \in Nat /\ idx \in Nat
  BY MdIdAssumption DEF IdInv, TypeOK

(* No range has been taken from etcd at the start.                         *)
LEMMA IdsInit == IdInit => IdInv
  BY DEF IdInit, IdInv, TypeOK, NoRepeat, GotInv, RangeBelow, RangeApart, RangeFresh

(* A step that touches neither etcd, nor the ranges, nor the ids keeps the *)
(* facts about them.                                                       *)
LEMMA IdsRangesKept ==
  ASSUME IdInv, UNCHANGED <<val, cur, end, handed>>
  PROVE  NoRepeat' /\ RangeBelow' /\ RangeApart' /\ RangeFresh'
  BY DEF IdInv, NoRepeat, RangeBelow, RangeApart, RangeFresh

(* md_newid hands out the first id of its own range, which nobody else has *)
(* and nobody got before.                                                  *)
LEMMA IdsNewid ==
  ASSUME IdInv, NEW n \in Node, md_newid(n)
  PROVE  IdInv'
<1>1. /\ Len(handed') = Len(handed) + 1
      /\ \A i \in 1..Len(handed) : handed'[i] = handed[i]
      /\ handed'[Len(handed) + 1] = cur[n]
  BY IdsTyped DEF md_newid, IdInv, TypeOK
<1>2. TypeOK'
  BY DEF md_newid, IdInv, TypeOK
<1>3. cur[n] < end[n] /\ UNCHANGED <<val, end>>
  BY DEF md_newid
<1>4. \A m \in Node : cur'[m] = IF m = n THEN cur[m] + 1 ELSE cur[m]
  BY DEF md_newid, IdInv, TypeOK
<1>5. \A i \in 1..Len(handed) : handed[i] # cur[n]
  BY <1>3, IdsTyped DEF IdInv, RangeFresh
<1>6. NoRepeat'
  BY <1>1, <1>5, IdsTyped DEF IdInv, NoRepeat
<1>7. GotInv'
  BY DEF md_newid, IdInv, GotInv
<1>8. RangeBelow'
  BY <1>3, <1>4, IdsTyped DEF IdInv, RangeBelow
<1>9. RangeApart'
  <2> SUFFICES ASSUME NEW k \in Node, NEW m \in Node, k # m
               PROVE  \/ cur'[k] >= end[k] \/ cur'[m] >= end[m]
                      \/ end[k] <= cur'[m] \/ end[m] <= cur'[k]
    BY <1>3 DEF RangeApart
  <2>1. \/ cur[k] >= end[k] \/ cur[m] >= end[m] \/ end[k] <= cur[m] \/ end[m] <= cur[k]
    BY DEF IdInv, RangeApart
  <2>2. cur'[k] >= cur[k] /\ cur'[m] >= cur[m] /\ cur'[k] \in Nat /\ cur'[m] \in Nat
    BY <1>4, IdsTyped
  <2> QED BY <2>1, <2>2, IdsTyped
<1>10. RangeFresh'
  <2> SUFFICES ASSUME NEW i \in 1..Len(handed')
               PROVE  /\ handed'[i] < val
                      /\ \A m \in Node : handed'[i] < cur'[m] \/ handed'[i] >= end[m]
    BY <1>3 DEF RangeFresh
  <2>1. CASE i = Len(handed) + 1
    <3>1. cur[n] < val
      BY <1>3, IdsTyped DEF IdInv, RangeBelow
    <3>2. ASSUME NEW m \in Node PROVE cur[n] < cur'[m] \/ cur[n] >= end[m]
      <4>1. CASE m = n
        BY <1>4, <4>1, IdsTyped
      <4>2. CASE m # n
        <5>1. \/ cur[m] >= end[m] \/ end[n] <= cur[m] \/ end[m] <= cur[n]
          BY <1>3, <4>2, IdsTyped DEF IdInv, RangeApart
        <5>2. cur'[m] = cur[m]
          BY <1>4, <4>2
        <5> QED BY <1>3, <5>1, <5>2, IdsTyped
      <4> QED BY <4>1, <4>2
    <3> QED BY <1>1, <2>1, <3>1, <3>2
  <2>2. CASE i \in 1..Len(handed)
    <3>1. handed'[i] = handed[i] /\ handed[i] \in Nat /\ handed[i] < val
      BY <1>1, <2>2, IdsTyped DEF IdInv, RangeFresh
    <3>2. ASSUME NEW m \in Node PROVE handed[i] < cur'[m] \/ handed[i] >= end[m]
      <4>1. handed[i] < cur[m] \/ handed[i] >= end[m]
        BY <2>2 DEF IdInv, RangeFresh
      <4>2. cur'[m] >= cur[m] /\ cur'[m] \in Nat
        BY <1>4, IdsTyped
      <4> QED BY <3>1, <4>1, <4>2, IdsTyped
    <3> QED BY <3>1, <3>2
  <2> QED BY <1>1, <2>1, <2>2, IdsTyped
<1> QED BY <1>2, <1>6, <1>7, <1>8, <1>9, <1>10 DEF IdInv

(* etcd's value only grows: what was read before stays consistent with it. *)
LEMMA IdsWritten ==
  ASSUME IdInv, NEW n \in Node, NEW begin \in Nat, begin >= val,
         Written(n, begin), UNCHANGED <<got, handed>>
  PROVE  /\ val' = begin + MdidStep[n] /\ val' > val
         /\ NoRepeat' /\ GotInv'
<1>1. val' = begin + MdidStep[n] /\ val' > val
  BY IdsTyped DEF Written
<1>2. NoRepeat'
  BY DEF IdInv, NoRepeat
<1>3. GotInv'
  <2> SUFFICES ASSUME NEW m \in Node
               PROVE  /\ got[m].idx <= idx' /\ got[m].idx # idx'
                      /\ stage'[m] = "update" => got[m].val > 0
    BY DEF GotInv
  <2>1. got[m].idx <= idx /\ idx' = idx + 1
    BY DEF IdInv, GotInv, Written
  <2>2. stage'[m] = "update" => stage[m] = "update"
    BY DEF Written, IdInv, TypeOK
  <2> QED BY <2>1, <2>2, IdsTyped DEF IdInv, GotInv
<1> QED BY <1>1, <1>2, <1>3

(* The types, when etcd takes a value.                                     *)
LEMMA IdsWrittenType ==
  ASSUME IdInv, NEW n \in Node, NEW begin \in Nat, Written(n, begin),
         UNCHANGED <<got, handed>>, cur' \in [Node -> Nat], end' \in [Node -> Nat]
  PROVE  TypeOK'
<1>1. val' \in Nat /\ idx' \in Nat
  BY IdsTyped DEF Written
<1>2. stage' \in [Node -> {"idle", "get", "create", "update"}]
  BY DEF Written, IdInv, TypeOK
<1>3. got' \in [Node -> [val : Nat, idx : Nat]] /\ handed' \in Seq(Nat)
  BY DEF IdInv, TypeOK
<1> QED BY <1>1, <1>2, <1>3 DEF TypeOK

(* A range that is taken begins at the value that etcd had, above all the  *)
(* ids that were handed out and all the other ranges.                      *)
LEMMA IdsTaken ==
  ASSUME IdInv, NEW n \in Node, NEW begin \in Nat, begin >= val,
         Written(n, begin), cur' = [cur EXCEPT ![n] = begin],
         end' = [end EXCEPT ![n] = begin + MdidStep[n]], UNCHANGED <<got, handed>>
  PROVE  IdInv'
<1>1. val' = begin + MdidStep[n] /\ val' > val /\ NoRepeat' /\ GotInv'
  BY IdsWritten
<1>2. TypeOK'
  <2>1. cur' \in [Node -> Nat] /\ end' \in [Node -> Nat]
    BY IdsTyped DEF IdInv, TypeOK
  <2> QED BY <2>1, IdsWrittenType
<1>3. \A m \in Node : /\ cur'[m] = IF m = n THEN begin ELSE cur[m]
                      /\ end'[m] = IF m = n THEN begin + MdidStep[n] ELSE end[m]
  BY DEF IdInv, TypeOK
<1>4. RangeBelow'
  BY <1>1, <1>3, IdsTyped DEF IdInv, RangeBelow
<1>5. \A m \in Node : end[m] <= begin
  BY IdsTyped DEF IdInv, RangeBelow
<1>6. RangeApart'
  BY <1>3, <1>5, IdsTyped DEF IdInv, RangeApart
<1>7. RangeFresh'
  <2> SUFFICES ASSUME NEW i \in 1..Len(handed)
               PROVE  /\ handed[i] < val'
                      /\ \A m \in Node : handed[i] < cur'[m] \/ handed[i] >= end'[m]
    BY DEF RangeFresh
  <2>1. handed[i] < val /\ handed[i] \in Nat
    BY IdsTyped DEF IdInv, RangeFresh
  <2>2. handed[i] < val' /\ handed[i] < begin
    BY <1>1, <2>1, IdsTyped
  <2>3. \A m \in Node : handed[i] < cur[m] \/ handed[i] >= end[m]
    BY DEF IdInv, RangeFresh
  <2> QED BY <1>3, <2>2, <2>3
<1> QED BY <1>1, <1>2, <1>4, <1>6, <1>7 DEF IdInv

(* The same when the answer is lost: the ids of the range are never used.  *)
LEMMA IdsLost ==
  ASSUME IdInv, NEW n \in Node, NEW begin \in Nat, begin >= val,
         Written(n, begin), UNCHANGED <<got, cur, end, handed>>
  PROVE  IdInv'
<1>1. val' = begin + MdidStep[n] /\ val' > val /\ NoRepeat' /\ GotInv'
  BY IdsWritten
<1>2. TypeOK'
  <2>1. cur' \in [Node -> Nat] /\ end' \in [Node -> Nat]
    BY DEF IdInv, TypeOK
  <2> QED BY <2>1, IdsWrittenType
<1>3. RangeBelow' /\ RangeApart'
  BY <1>1, IdsTyped DEF IdInv, RangeBelow, RangeApart
<1>4. RangeFresh'
  BY <1>1, IdsTyped DEF IdInv, RangeFresh
<1> QED BY <1>1, <1>2, <1>3, <1>4 DEF IdInv

(* Every step keeps the inductive invariant.                               *)
LEMMA IdsNext == IdInv /\ [IdNext]_idvars => IdInv'
<1> SUFFICES ASSUME IdInv, [IdNext]_idvars PROVE IdInv'
  OBVIOUS
<1>1. CASE UNCHANGED idvars
  BY <1>1, IdsRangesKept DEF idvars, IdInv, TypeOK, GotInv
<1>2. ASSUME NEW n \in Node,
             \/ md_newid(n) \/ RangeUsed(n) \/ GetKey(n) \/ Create(n) \/ Update(n)
             \/ Lost(n) \/ Restart(n)
      PROVE  IdInv'
  <2>1. CASE md_newid(n)
    BY <2>1, IdsNewid
  <2>2. CASE RangeUsed(n)
    <3>1. TypeOK' /\ GotInv'
      BY <2>2 DEF RangeUsed, IdInv, TypeOK, GotInv
    <3> QED BY <2>2, <3>1, IdsRangesKept DEF RangeUsed, IdInv
  <2>3. CASE GetKey(n)
    <3>1. TypeOK' /\ GotInv'
      BY <2>3, IdsTyped DEF GetKey, IdInv, TypeOK, GotInv
    <3> QED BY <2>3, <3>1, IdsRangesKept DEF GetKey, IdInv
  <2>4. CASE Create(n)
    <3>1. CASE val = 0 /\ Written(n, 1) /\ TakeRange(n, 1)
      <4>1. 1 \in Nat /\ 1 >= val
        BY <3>1
      <4> QED BY <3>1, <4>1, IdsTaken DEF TakeRange
    <3>2. CASE Retry(n)
      BY <3>2, IdsRangesKept DEF Retry, IdInv, TypeOK, GotInv
    <3> QED BY <2>4, <3>1, <3>2 DEF Create
  <2>5. CASE Update(n)
    <3>1. CASE idx = got[n].idx /\ Written(n, got[n].val) /\ TakeRange(n, got[n].val)
      <4>1. got[n].val \in Nat /\ got[n].val >= val
        BY <3>1, IdsTyped DEF IdInv, GotInv
      <4> QED BY <3>1, <4>1, IdsTaken DEF TakeRange
    <3>2. CASE Retry(n)
      BY <3>2, IdsRangesKept DEF Retry, IdInv, TypeOK, GotInv
    <3> QED BY <2>5, <3>1, <3>2 DEF Update
  <2>6. CASE Lost(n)
    <3>1. CASE val = 0 /\ Written(n, 1)
      BY <2>6, <3>1, IdsLost DEF Lost
    <3>2. CASE idx = got[n].idx /\ Written(n, got[n].val)
      <4>1. got[n].val \in Nat /\ got[n].val >= val
        BY <3>2, IdsTyped DEF IdInv, GotInv
      <4> QED BY <2>6, <3>2, <4>1, IdsLost DEF Lost
    <3>3. CASE stage' = [stage EXCEPT ![n] = "idle"] /\ UNCHANGED <<val, idx>>
      BY <2>6, <3>3, IdsRangesKept DEF Lost, IdInv, TypeOK, GotInv
    <3> QED BY <2>6, <3>1, <3>2, <3>3 DEF Lost
  <2>7. CASE Restart(n)
    <3>1. TypeOK' /\ GotInv' /\ NoRepeat'
      BY <2>7 DEF Restart, IdInv, TypeOK, GotInv, NoRepeat
    <3>2. /\ \A m \in Node : /\ cur'[m] = IF m = n THEN 0 ELSE cur[m]
                             /\ end'[m] = IF m = n THEN 0 ELSE end[m]
          /\ UNCHANGED <<val, handed>>
      BY <2>7 DEF Restart, IdInv, TypeOK
    <3>3. RangeBelow' /\ RangeApart'
      BY <3>2, IdsTyped DEF IdInv, RangeBelow, RangeApart
    <3>4. RangeFresh'
      BY <3>2, IdsTyped DEF IdInv, RangeFresh
    <3> QED BY <3>1, <3>3, <3>4 DEF IdInv
  <2> QED BY <1>2, <2>1, <2>2, <2>3, <2>4, <2>5, <2>6, <2>7
<1> QED BY <1>1, <1>2 DEF IdNext

(* The ranges of __md_newid stay apart whatever the processes do.          *)
THEOREM IdInvariant == IdSpec => []IdInv
BY IdsInit, IdsNext, PTL DEF IdSpec

(* md_newid never returns an id that any process got before, whatever      *)
(* processes crash and whichever answers of etcd are lost.                 *)
THEOREM IdsUnique == IdSpec => []NoRepeat
<1>1. IdInv => NoRepeat
  BY DEF IdInv
<1> QED BY <1>1, IdInvariant, PTL

=============================================================================
