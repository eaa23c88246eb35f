--------------------------- MODULE RpcTableProofs ---------------------------
(***************************************************************************)
(* What is proved of the table of outstanding RPCs (RpcTable), for any     *)
(* number of callers, receivers, resetters, slots, connections and calls.  *)
(***************************************************************************)
EXTENDS RpcTable, TLAPS

Fp == 0..(Modulus - 1)

(* Calls as they are numbered, and what a call can be posted.              *)
Call == Caller \X Nat
AnswerOf == Call \cup {<<"ETIMEDOUT">>, <<"ECONNRESET">>}

Where == {"idle", "new", "new_store", "check", "lock", "locked", "estale", "send",
          "wait", "visit"}

SlotType ==
  [used : BOOLEAN, lock : Actor \cup {None}, fp : Fp, prev : Fp, timeout : BOOLEAN,
   sock : Sock \cup {None}, arg : Call \cup {NoCall}]

LocalType ==
  [op : {"none", "set", "free", "post", "scan", "reset"}, idx : Slot, fp : Fp,
   call : Call \cup {NoCall}, sock : Sock \cup {None}]

TypeInv ==
  /\ solt \in [Slot -> SlotType]
  /\ sequence \in Fp
  /\ at \in [Actor -> Where]
  /\ local \in [Actor -> LocalType]
  /\ wire \subseteq [idx : Slot, fp : Fp, call : Call]
  /\ calls \in Nat
  /\ posted \in [Caller -> Seq(AnswerOf)]
  /\ use \in Uses

(* Which operation actor a can be in when it is at l with the variables v, *)
(* and how far a reset of n slots has come.                                *)
RoleOf(n, a, l, v) ==
  /\ a \in Caller =>
       /\ l # "visit"
       /\ l # "idle" => v.op \in {"set", "free"} /\ v.call \in Call
       /\ l \in {"new", "new_store", "send", "wait"} => v.op = "set"
  /\ a \in Poster =>
       /\ l \in {"idle", "check", "lock", "locked", "estale"}
       /\ l # "idle" => v.op = "post" /\ v.call \in Call
  /\ a = Scanner => l \in {"idle", "locked"}
  /\ a \in Resetter =>
       /\ l \in {"idle", "visit", "locked"}
       /\ l # "idle" => v.op = "reset"
       /\ v.idx < n

RoleInv == \A a \in Actor : RoleOf(use.slots, a, at[a], local[a])

ShapeInv == TypeInv /\ RoleInv

LEMMA NoCallIsNone == NoCall \notin Call
  BY DEF NoCall, Call

LEMMA UseFacts ==
  ASSUME use \in Uses
  PROVE  /\ use.slots \in 1..SlotMax /\ use.calls \in Nat /\ use.resets \in Nat
         /\ use.socks \subseteq Sock /\ use.shared \in BOOLEAN
  BY RpcTableAssumption DEF Use

LEMMA FuncType ==
  ASSUME ShapeInv, NEW s \in SlotType, NEW answer \in AnswerOf, func(s, answer)
  PROVE  posted' \in [Caller -> Seq(AnswerOf)]
  <1>t. posted \in [Caller -> Seq(AnswerOf)]
    BY DEF ShapeInv, TypeInv
  <1>1. CASE UNCHANGED posted
    BY <1>1, <1>t
  <1>2. CASE s.arg # NoCall /\ posted' = [posted EXCEPT ![s.arg[1]] = Append(@, answer)]
    <2>1. s.arg \in Call
      BY <1>2 DEF SlotType
    <2>2. PICK c \in Caller : c = s.arg[1]
      BY <2>1 DEF Call
    <2>3. Append(posted[c], answer) \in Seq(AnswerOf)
      BY <1>t
    <2> QED BY <1>2, <1>t, <2>2, <2>3
  <1> QED BY <1>1, <1>2 DEF func

LEMMA FreedType ==
  ASSUME NEW s \in SlotType
  PROVE  Unlocked(Freed(s)) \in SlotType /\ Unlocked(s) \in SlotType
  <1>1. 0 \in Fp
    BY RpcTableAssumption DEF Fp
  <1>2. s.used \in BOOLEAN /\ s.fp \in Fp /\ s.prev \in Fp /\ s.timeout \in BOOLEAN
    BY DEF SlotType
  <1>3. Freed(s) \in SlotType
    BY <1>1, <1>2 DEF SlotType, Freed
  <1>4. \A t \in SlotType : Unlocked(t) \in SlotType
    BY DEF SlotType, Unlocked
  <1> QED BY <1>3, <1>4

(***************************************************************************)
(* What each action does, slot by slot and actor by actor.                 *)
(***************************************************************************)
SoltStep(s) ==
  /\ s \in Slot
  /\ solt' \in [Slot -> SlotType]
  /\ \A t \in Slot : t # s => solt'[t] = solt[t]

ActorStep(a) ==
  /\ a \in Actor
  /\ at' \in [Actor -> Where]
  /\ local' \in [Actor -> LocalType]
  /\ \A b \in Actor : b # a => at'[b] = at[b] /\ local'[b] = local[b]

(* The actor's variables and the slot keep all but the fields named.       *)
SameCall(a) == local'[a].op = local[a].op /\ local'[a].call = local[a].call
SameIdx(a) == local'[a].idx = local[a].idx
SameSlot(a) == SameCall(a) /\ SameIdx(a) /\ local'[a].fp = local[a].fp
SameArm(s) == solt'[s].arg = solt[s].arg /\ solt'[s].timeout = solt[s].timeout
SameFp(s) == solt'[s].fp = solt[s].fp /\ solt'[s].prev = solt[s].prev
SameUse(s) == solt'[s].used = solt[s].used

(* The slot is given back.                                                 *)
FreeStep(s) ==
  /\ SoltStep(s)
  /\ solt'[s].used = FALSE /\ solt'[s].prev = solt[s].fp /\ solt'[s].fp = 0
  /\ solt'[s].timeout = FALSE /\ solt'[s].arg = NoCall /\ solt'[s].lock = None

LEMMA FreedFields ==
  ASSUME NEW s \in SlotType
  PROVE  /\ Unlocked(Freed(s)).used = FALSE /\ Unlocked(Freed(s)).prev = s.fp
         /\ Unlocked(Freed(s)).fp = 0 /\ Unlocked(Freed(s)).timeout = FALSE
         /\ Unlocked(Freed(s)).arg = NoCall /\ Unlocked(Freed(s)).lock = None
         /\ Unlocked(s).used = s.used /\ Unlocked(s).prev = s.prev
         /\ Unlocked(s).fp = s.fp /\ Unlocked(s).timeout = s.timeout
         /\ Unlocked(s).arg = s.arg /\ Unlocked(s).lock = None
  BY DEF SlotType, Freed, Unlocked

LEMMA FreeEffect ==
  ASSUME ShapeInv, NEW s \in Slot, solt' = [solt EXCEPT ![s] = Unlocked(Freed(@))]
  PROVE  FreeStep(s)
  <1>1. solt \in [Slot -> SlotType] /\ solt[s] \in SlotType
    BY DEF ShapeInv, TypeInv
  <1>2. PICK v \in SlotType : v = Unlocked(Freed(solt[s]))
    BY <1>1, FreedType
  <1>3. solt' = [solt EXCEPT ![s] = v]
    BY <1>2
  <1>4. SoltStep(s) /\ solt'[s] = v
    BY <1>1, <1>3 DEF SoltStep
  <1> QED BY <1>1, <1>2, <1>4, FreedFields DEF FreeStep

LEMMA UnlockEffect ==
  ASSUME ShapeInv, NEW s \in Slot, solt' = [solt EXCEPT ![s] = Unlocked(@)]
  PROVE  SoltStep(s) /\ SameArm(s) /\ SameFp(s) /\ SameUse(s) /\ solt'[s].lock = None
  <1>1. solt \in [Slot -> SlotType] /\ solt[s] \in SlotType
    BY DEF ShapeInv, TypeInv
  <1>2. PICK v \in SlotType : v = Unlocked(solt[s])
    BY <1>1, FreedType
  <1>3. solt' = [solt EXCEPT ![s] = v]
    BY <1>2
  <1>4. SoltStep(s) /\ solt'[s] = v
    BY <1>1, <1>3 DEF SoltStep
  <1> QED BY <1>1, <1>2, <1>4, FreedFields DEF SameArm, SameFp, SameUse

LEMMA LockEffect ==
  ASSUME ShapeInv, NEW s \in Slot, NEW a \in Actor, solt' = [solt EXCEPT ![s].lock = a]
  PROVE  SoltStep(s) /\ SameArm(s) /\ SameFp(s) /\ SameUse(s) /\ solt'[s].lock = a
  <1>1. solt \in [Slot -> SlotType] /\ solt[s] \in SlotType
    BY DEF ShapeInv, TypeInv
  <1>2. [solt[s] EXCEPT !.lock = a] \in SlotType
    BY <1>1 DEF SlotType
  <1>3. PICK v \in SlotType : v = [solt[s] EXCEPT !.lock = a]
    BY <1>2
  <1>4. /\ v.lock = a /\ v.used = solt[s].used /\ v.fp = solt[s].fp /\ v.prev = solt[s].prev
        /\ v.arg = solt[s].arg /\ v.timeout = solt[s].timeout
    BY <1>1, <1>3 DEF SlotType
  <1>5. solt' = [solt EXCEPT ![s] = v]
    BY <1>3
  <1>6. SoltStep(s) /\ solt'[s] = v
    BY <1>1, <1>5 DEF SoltStep
  <1> QED BY <1>4, <1>6 DEF SameArm, SameFp, SameUse

LEMMA GotoEffect ==
  ASSUME ShapeInv, NEW a \in Actor, NEW l \in Where, Goto(a, l), UNCHANGED local
  PROVE  ActorStep(a) /\ at'[a] = l /\ SameSlot(a) /\ local' = local
  BY DEF ShapeInv, TypeInv, ActorStep, Goto, SameSlot, SameCall, SameIdx

LEMMA GotoLocal ==
  ASSUME ShapeInv, NEW a \in Actor, NEW l \in Where, Goto(a, l), NEW v \in LocalType,
         local' = [local EXCEPT ![a] = v]
  PROVE  ActorStep(a) /\ at'[a] = l /\ local'[a] = v
  BY DEF ShapeInv, TypeInv, ActorStep, Goto

GetsoltStep(c) ==
  /\ calls' = calls + 1 /\ at[c] = "idle" /\ Turn(c) /\ calls < use.calls
  /\ posted' \in [Caller -> Seq(AnswerOf)] /\ posted'[c] = <<>>
  /\ \A d \in Caller : d # c => posted'[d] = posted[d]
  /\ UNCHANGED <<sequence, wire, resets, wrong, use>>
  /\ \/ UNCHANGED <<solt, local, at>>
     \/ \E s \in Slot :
          /\ s < use.slots /\ ~solt[s].used
          /\ SoltStep(s) /\ solt'[s].used /\ SameArm(s) /\ SameFp(s)
          /\ solt'[s].lock = solt[s].lock
          /\ ActorStep(c) /\ at'[c] = "new" /\ local'[c].op = "set"
          /\ local'[c].idx = s /\ local'[c].call = <<c, calls + 1>>

LEMMA GetsoltEffect ==
  ASSUME ShapeInv, NEW c \in Caller, NEW k \in use.socks, getsolt(c, k)
  PROVE  GetsoltStep(c)
  <1>t. /\ solt \in [Slot -> SlotType] /\ posted \in [Caller -> Seq(AnswerOf)]
        /\ calls \in Nat /\ use \in Uses
    BY DEF ShapeInv, TypeInv
  <1>1. CASE UNCHANGED <<solt, local, at>>
    BY <1>1, <1>t DEF getsolt, GetsoltStep
  <1>2. CASE \E s \in Slot :
               /\ Found(s)
               /\ solt' = [solt EXCEPT ![s].used = TRUE]
               /\ cur' = (s + 1) % use.slots
               /\ local' = [local EXCEPT ![c] = [op |-> "set", idx |-> s, fp |-> 0,
                               call |-> <<c, calls + 1>>, sock |-> k]]
               /\ Goto(c, "new")
    <2>1. PICK s \in Slot :
               /\ Found(s)
               /\ solt' = [solt EXCEPT ![s].used = TRUE]
               /\ cur' = (s + 1) % use.slots
               /\ local' = [local EXCEPT ![c] = [op |-> "set", idx |-> s, fp |-> 0,
                               call |-> <<c, calls + 1>>, sock |-> k]]
               /\ Goto(c, "new")
      BY <1>2
    <2>2. [op |-> "set", idx |-> s, fp |-> 0, call |-> <<c, calls + 1>>, sock |-> k] \in LocalType
      <3>1. k \in Sock /\ 0 \in Fp /\ <<c, calls + 1>> \in Call
        BY <1>t, UseFacts, RpcTableAssumption DEF Fp, Call
      <3> QED BY <3>1 DEF LocalType
    <2>3. PICK v \in LocalType : v = [op |-> "set", idx |-> s, fp |-> 0,
                                      call |-> <<c, calls + 1>>, sock |-> k]
      BY <2>2
    <2>4. c \in Actor /\ "new" \in Where
      BY DEF Actor, Where
    <2>5. ActorStep(c) /\ at'[c] = "new" /\ local'[c] = v
      BY <2>1, <2>3, <2>4, GotoLocal
    <2>6. PICK w \in SlotType : w = [solt[s] EXCEPT !.used = TRUE]
      BY <1>t DEF SlotType
    <2>7. /\ w.used /\ w.arg = solt[s].arg /\ w.timeout = solt[s].timeout /\ w.fp = solt[s].fp
          /\ w.prev = solt[s].prev /\ w.lock = solt[s].lock
      BY <1>t, <2>6 DEF SlotType
    <2>8. solt' = [solt EXCEPT ![s] = w]
      BY <2>1, <2>6
    <2>9. SoltStep(s) /\ solt'[s] = w
      BY <1>t, <2>8 DEF SoltStep
    <2>10. s < use.slots /\ ~solt[s].used
      BY <2>1 DEF Found
    <2>11. v.op = "set" /\ v.idx = s /\ v.call = <<c, calls + 1>>
      BY <2>3
    <2> QED BY <1>t, <2>5, <2>7, <2>9, <2>10, <2>11 DEF getsolt, SameArm, SameFp, GetsoltStep
  <1> QED BY <1>1, <1>2 DEF getsolt, GetsoltStep

NewLoadStep(c) ==
  /\ at[c] = "new" /\ Turn(c)
  /\ ActorStep(c) /\ at'[c] = "new_store" /\ SameCall(c) /\ SameIdx(c)
  /\ local'[c].fp = (sequence + 1) % Modulus
  /\ UNCHANGED <<solt, cur, sequence, wire, calls, posted, resets, wrong, use>>

LEMMA NewLoadEffect ==
  ASSUME ShapeInv, NEW c \in Caller, new_load(c)
  PROVE  NewLoadStep(c)
  <1>t. c \in Actor /\ local[c] \in LocalType /\ "new_store" \in Where /\ sequence \in Fp
    BY DEF ShapeInv, TypeInv, Actor, Where
  <1>1. PICK r \in Fp : r = (sequence + 1) % Modulus
    BY <1>t, RpcTableAssumption DEF Fp
  <1>2. PICK v \in LocalType : v = [local[c] EXCEPT !.fp = r]
    BY <1>t DEF LocalType
  <1>3. v.fp = r /\ v.op = local[c].op /\ v.idx = local[c].idx /\ v.call = local[c].call
    BY <1>t, <1>2 DEF LocalType
  <1>4. local' = [local EXCEPT ![c] = v] /\ Goto(c, "new_store")
    BY <1>1, <1>2 DEF new_load
  <1>5. ActorStep(c) /\ at'[c] = "new_store" /\ local'[c] = v
    BY <1>t, <1>4, GotoLocal
  <1> QED BY <1>1, <1>3, <1>5 DEF new_load, SameCall, SameIdx, NewLoadStep

NewStoreStep(c) ==
  LET s == local[c].idx
  IN  /\ at[c] = "new_store" /\ Turn(c)
      /\ ActorStep(c) /\ local' = local /\ SameSlot(c)
      /\ sequence' = local[c].fp
      /\ UNCHANGED <<wire, calls, posted, resets, wrong, use>>
      /\ \/ at'[c] = "new" /\ solt' = solt /\ local[c].fp = solt[s].prev
         \/ /\ at'[c] = "check" /\ local[c].fp # solt[s].prev
            /\ SoltStep(s) /\ SameArm(s) /\ SameUse(s)
            /\ solt'[s].fp = local[c].fp /\ solt'[s].prev = solt[s].prev
            /\ solt'[s].lock = solt[s].lock

LEMMA NewStoreEffect ==
  ASSUME ShapeInv, NEW c \in Caller, new_store(c)
  PROVE  NewStoreStep(c)
  <1>t. /\ c \in Actor /\ local[c] \in LocalType /\ "new" \in Where /\ "check" \in Where
        /\ solt \in [Slot -> SlotType]
    BY DEF ShapeInv, TypeInv, Actor, Where
  <1>s. PICK s \in Slot : s = local[c].idx
    BY <1>t DEF LocalType
  <1>r. PICK r \in Fp : r = local[c].fp
    BY <1>t DEF LocalType
  <1>1. CASE r = solt[s].prev
    <2>1. Goto(c, "new") /\ UNCHANGED <<solt, local>>
      BY <1>1, <1>s, <1>r DEF new_store, My
    <2>2. ActorStep(c) /\ local' = local /\ SameSlot(c) /\ at'[c] = "new"
      BY <1>t, <2>1, GotoEffect
    <2> QED BY <1>1, <1>s, <1>r, <2>1, <2>2 DEF new_store, NewStoreStep
  <1>2. CASE r # solt[s].prev
    <2>1. Goto(c, "check") /\ UNCHANGED local /\ solt' = [solt EXCEPT ![s].fp = r]
      BY <1>2, <1>s, <1>r DEF new_store, My
    <2>2. ActorStep(c) /\ local' = local /\ SameSlot(c) /\ at'[c] = "check"
      BY <1>t, <2>1, GotoEffect
    <2>3. PICK w \in SlotType : w = [solt[s] EXCEPT !.fp = r]
      BY <1>t DEF SlotType
    <2>4. /\ w.fp = r /\ w.arg = solt[s].arg /\ w.timeout = solt[s].timeout
          /\ w.used = solt[s].used /\ w.prev = solt[s].prev /\ w.lock = solt[s].lock
      BY <1>t, <2>3 DEF SlotType
    <2>5. solt' = [solt EXCEPT ![s] = w]
      BY <2>1, <2>3
    <2>6. SoltStep(s) /\ solt'[s] = w
      BY <1>t, <2>5 DEF SoltStep
    <2> QED BY <1>2, <1>s, <1>r, <2>2, <2>4, <2>6 DEF new_store, SameArm, SameUse, NewStoreStep
  <1> QED BY <1>1, <1>2 DEF NewStoreStep

SetsoltStep(c) ==
  LET s == local[c].idx
  IN  /\ at[c] = "locked" /\ local[c].op = "set" /\ Turn(c)
      /\ ActorStep(c) /\ at'[c] = "send" /\ local' = local /\ SameSlot(c)
      /\ SoltStep(s) /\ SameFp(s) /\ SameUse(s)
      /\ solt'[s].arg = local[c].call /\ solt'[s].timeout /\ solt'[s].lock = None
      /\ UNCHANGED <<sequence, wire, calls, posted, resets, wrong, use>>

LEMMA SetsoltEffect ==
  ASSUME ShapeInv, NEW c \in Caller, setsolt(c)
  PROVE  SetsoltStep(c)
  <1>t. /\ c \in Actor /\ local[c] \in LocalType /\ "send" \in Where
        /\ solt \in [Slot -> SlotType]
    BY DEF ShapeInv, TypeInv, Actor, Where
  <1>s. PICK s \in Slot : s = local[c].idx
    BY <1>t DEF LocalType
  <1>1. ActorStep(c) /\ local' = local /\ SameSlot(c) /\ at'[c] = "send"
    BY <1>t, GotoEffect DEF setsolt
  <1>2. PICK w \in SlotType :
          w = [solt[s] EXCEPT !.arg = local[c].call, !.timeout = TRUE, !.sock = local[c].sock]
    <2>1. solt[s] \in SlotType /\ local[c].call \in Call \cup {NoCall}
          /\ local[c].sock \in Sock \cup {None}
      BY <1>t DEF LocalType
    <2>2. [solt[s] EXCEPT !.arg = local[c].call, !.timeout = TRUE, !.sock = local[c].sock]
            \in SlotType
      BY <2>1 DEF SlotType
    <2> QED BY <2>2 DEF SetsoltStep
  <1>3. /\ w.fp = solt[s].fp /\ w.arg = local[c].call /\ w.timeout
        /\ w.used = solt[s].used /\ w.prev = solt[s].prev
    BY <1>t, <1>2 DEF SlotType
  <1>4. solt' = [solt EXCEPT ![s] = Unlocked(w)]
    <2>1. solt' = [solt EXCEPT ![local[c].idx] =
                     Unlocked([solt[local[c].idx] EXCEPT !.arg = local[c].call,
                                 !.timeout = TRUE, !.sock = local[c].sock])]
      BY DEF setsolt
    <2>2. solt' = [solt EXCEPT ![s] =
                     Unlocked([solt[s] EXCEPT !.arg = local[c].call,
                                 !.timeout = TRUE, !.sock = local[c].sock])]
      BY <1>s, <2>1, Zenon
    <2> QED BY <1>2, <2>2, Zenon DEF SetsoltStep
  <1>5. PICK v \in SlotType : v = Unlocked(w)
    BY FreedType
  <1>6. solt' = [solt EXCEPT ![s] = v]
    BY <1>4, <1>5
  <1>7. SoltStep(s) /\ solt'[s] = v
    BY <1>t, <1>6 DEF SoltStep
  <1>8. /\ v.fp = w.fp /\ v.arg = w.arg /\ v.timeout = w.timeout /\ v.used = w.used
        /\ v.prev = w.prev /\ v.lock = None
    BY <1>5, FreedFields
  <1> QED BY <1>1, <1>s, <1>3, <1>7, <1>8 DEF setsolt, SameFp, SameUse, SetsoltStep

SendStep(c) ==
  /\ at[c] = "send" /\ Turn(c)
  /\ ActorStep(c) /\ SameIdx(c) /\ local'[c].call = local[c].call
  /\ local'[c].fp = local[c].fp
  /\ UNCHANGED <<solt, sequence, calls, posted, resets, wrong, use>>
  /\ \/ at'[c] = "wait" /\ local' = local /\ wire' = wire \cup {Message(c)}
     \/ at'[c] = "check" /\ local'[c].op = "free" /\ wire' = wire

LEMMA SendEffect ==
  ASSUME ShapeInv, NEW c \in Caller, send(c)
  PROVE  SendStep(c)
  <1>t. c \in Actor /\ local[c] \in LocalType /\ "check" \in Where /\ "wait" \in Where
    BY DEF ShapeInv, TypeInv, Actor, Where
  <1>1. CASE Goto(c, "wait") /\ UNCHANGED local /\ wire' = wire \cup {Message(c)}
    <2>1. ActorStep(c) /\ local' = local /\ SameSlot(c) /\ at'[c] = "wait"
      BY <1>t, <1>1, GotoEffect
    <2> QED BY <1>1, <2>1 DEF send, SameSlot, SameIdx, SameCall, SendStep
  <1>2. CASE Goto(c, "check") /\ local' = [local EXCEPT ![c].op = "free"] /\ wire' = wire
    <2>1. PICK v \in LocalType : v = [local[c] EXCEPT !.op = "free"]
      BY <1>t DEF LocalType
    <2>2. v.fp = local[c].fp /\ v.op = "free" /\ v.idx = local[c].idx /\ v.call = local[c].call
      BY <1>t, <2>1 DEF LocalType
    <2>3. local' = [local EXCEPT ![c] = v]
      BY <1>2, <2>1
    <2>4. ActorStep(c) /\ at'[c] = "check" /\ local'[c] = v
      BY <1>t, <1>2, <2>3, GotoLocal
    <2> QED BY <1>2, <2>2, <2>4 DEF send, SameIdx, SendStep
  <1> QED BY <1>1, <1>2 DEF send, SendStep

FreeCallStep(c) ==
  /\ at[c] = "locked" /\ local[c].op = "free" /\ Turn(c)
  /\ ActorStep(c) /\ at'[c] = "idle" /\ local' = local /\ SameSlot(c)
  /\ FreeStep(local[c].idx)
  /\ UNCHANGED <<sequence, wire, calls, posted, resets, wrong, use>>

LEMMA FreeCallEffect ==
  ASSUME ShapeInv, NEW c \in Caller, rpc_table_free(c)
  PROVE  FreeCallStep(c)
  <1>t. c \in Actor /\ local[c] \in LocalType /\ "idle" \in Where
    BY DEF ShapeInv, TypeInv, Actor, Where
  <1>1. ActorStep(c) /\ local' = local /\ SameSlot(c) /\ at'[c] = "idle"
    BY <1>t, GotoEffect DEF rpc_table_free
  <1>2. local[c].idx \in Slot /\ solt' = [solt EXCEPT ![local[c].idx] = Unlocked(Freed(@))]
    BY <1>t DEF rpc_table_free, LocalType
  <1>3. FreeStep(local[c].idx)
    BY <1>2, FreeEffect
  <1> QED BY <1>1, <1>3 DEF rpc_table_free, FreeCallStep

WaitReturnStep(c) ==
  /\ at[c] = "wait" /\ posted[c] # <<>> /\ Turn(c)
  /\ ActorStep(c) /\ at'[c] = "idle" /\ local' = local /\ SameSlot(c)
  /\ UNCHANGED <<solt, sequence, wire, calls, posted, resets, wrong, use>>

LEMMA WaitReturnEffect ==
  ASSUME ShapeInv, NEW c \in Caller, wait_return(c)
  PROVE  WaitReturnStep(c)
  <1>t. c \in Actor /\ "idle" \in Where
    BY DEF Actor, Where
  <1> QED BY <1>t, GotoEffect DEF wait_return, WaitReturnStep

LockingStep(a) ==
  LET s == local[a].idx
  IN  /\ Turn(a) /\ ActorStep(a) /\ local' = local /\ SameSlot(a)
      /\ UNCHANGED <<sequence, wire, calls, posted, resets, use>>
      /\ \/ /\ at[a] = "check" /\ solt[s].fp = local[a].fp /\ at'[a] = "lock"
            /\ solt' = solt /\ wrong' = wrong
         \/ /\ at[a] = "check" /\ solt[s].fp # local[a].fp /\ at'[a] = "estale"
            /\ solt' = solt /\ wrong' = wrong
         \/ /\ at[a] = "lock" /\ solt[s].used /\ at'[a] = "locked"
            /\ SoltStep(s) /\ SameArm(s) /\ SameFp(s) /\ SameUse(s)
            /\ solt'[s].lock = a /\ wrong' = wrong
         \/ /\ at[a] = "lock" /\ ~solt[s].used /\ at'[a] = "estale"
            /\ solt' = solt /\ wrong' = wrong
         \/ /\ at[a] = "estale" /\ at'[a] = "idle" /\ solt' = solt
            /\ wrong' = IF local[a].op = "set" THEN "setsolt_failed" ELSE wrong

LEMMA LockStepEffect ==
  ASSUME ShapeInv, NEW a \in Caller \cup Poster, LockStep(a)
  PROVE  LockingStep(a)
  <1>t. /\ a \in Actor /\ local[a] \in LocalType /\ local[a].idx \in Slot
        /\ \A l \in {"lock", "locked", "estale", "idle"} : l \in Where
    BY DEF ShapeInv, TypeInv, Actor, Where, LocalType
  <1>1. CASE lock_solt_check(a)
    <2>1. PICK l \in {"lock", "estale"} :
            l = (IF solt[local[a].idx].fp = local[a].fp THEN "lock" ELSE "estale")
      OBVIOUS
    <2>2. Goto(a, l) /\ UNCHANGED local
      BY <1>1, <2>1 DEF lock_solt_check, My
    <2>3. ActorStep(a) /\ local' = local /\ SameSlot(a) /\ at'[a] = l
      BY <1>t, <2>1, <2>2, GotoEffect
    <2> QED BY <1>1, <2>1, <2>3 DEF lock_solt_check, LockingStep
  <1>2. CASE lock_solt(a) /\ solt[local[a].idx].used
    <2>2. Goto(a, "locked") /\ UNCHANGED local
      BY <1>2 DEF lock_solt, My
    <2>3. ActorStep(a) /\ local' = local /\ SameSlot(a) /\ at'[a] = "locked"
      BY <1>t, <2>2, GotoEffect
    <2>4. solt' = [solt EXCEPT ![local[a].idx].lock = a]
      BY <1>2 DEF lock_solt, My
    <2>5. LET s == local[a].idx
          IN  SoltStep(s) /\ SameArm(s) /\ SameFp(s) /\ SameUse(s) /\ solt'[s].lock = a
      BY <1>t, <2>4, LockEffect
    <2> QED BY <1>2, <2>3, <2>5 DEF lock_solt, LockingStep
  <1>3. CASE lock_solt(a) /\ ~solt[local[a].idx].used
    <2>2. Goto(a, "estale") /\ UNCHANGED <<local, solt>>
      BY <1>3 DEF lock_solt, My
    <2>3. ActorStep(a) /\ local' = local /\ SameSlot(a) /\ at'[a] = "estale"
      BY <1>t, <2>2, GotoEffect
    <2> QED BY <1>3, <2>2, <2>3 DEF lock_solt, LockingStep
  <1>4. CASE estale(a)
    <2>3. ActorStep(a) /\ local' = local /\ SameSlot(a) /\ at'[a] = "idle"
      BY <1>t, <1>4, GotoEffect DEF estale
    <2> QED BY <1>4, <2>3 DEF estale, LockingStep
  <1> QED BY <1>1, <1>2, <1>3, <1>4 DEF LockStep, LockingStep

ReplyStep(p) ==
  /\ at[p] = "idle" /\ Turn(p) /\ ActorStep(p) /\ at'[p] = "check"
  /\ local'[p].op = "post"
  /\ \E m \in wire : /\ wire' = wire \ {m} /\ local'[p].idx = m.idx
                     /\ local'[p].fp = m.fp /\ local'[p].call = m.call
  /\ UNCHANGED <<solt, sequence, calls, posted, resets, wrong, use>>

LEMMA ReplyEffect ==
  ASSUME ShapeInv, NEW p \in Poster, reply_handler(p)
  PROVE  ReplyStep(p)
  <1>t. /\ p \in Actor /\ "check" \in Where
        /\ wire \subseteq [idx : Slot, fp : Fp, call : Call]
    BY DEF ShapeInv, TypeInv, Actor, Where
  <1>1. PICK m \in wire :
          /\ wire' = wire \ {m}
          /\ local' = [local EXCEPT ![p] = [op |-> "post", idx |-> m.idx, fp |-> m.fp,
                                            call |-> m.call, sock |-> None]]
    BY DEF reply_handler
  <1>2. PICK v \in LocalType : v = [op |-> "post", idx |-> m.idx, fp |-> m.fp,
                                    call |-> m.call, sock |-> None]
    BY <1>t DEF LocalType
  <1>3. v.op = "post" /\ v.idx = m.idx /\ v.fp = m.fp /\ v.call = m.call
    BY <1>2
  <1>4. ActorStep(p) /\ at'[p] = "check" /\ local'[p] = v
    BY <1>t, <1>1, <1>2, GotoLocal DEF reply_handler
  <1> QED BY <1>1, <1>3, <1>4 DEF reply_handler, ReplyStep

(* What func does: it posts the answer to the caller whose context the     *)
(* slot has, or does what it must not.                                     *)
PostStep(s, answer) ==
  /\ posted' \in [Caller -> Seq(AnswerOf)]
  /\ \/ wrong' # "no" /\ posted' = posted
        /\ (solt[s].arg = NoCall \/ ~Alive(solt[s].arg))
     \/ /\ wrong' = wrong /\ solt[s].arg \in Call
        /\ \E c \in Caller :
             /\ solt[s].arg = local[c].call /\ at[c] # "idle"
             /\ posted'[c] = Append(posted[c], answer)
             /\ \A d \in Caller : d # c => posted'[d] = posted[d]

LEMMA FuncEffect ==
  ASSUME ShapeInv, NEW s \in Slot, NEW answer \in AnswerOf, func(solt[s], answer)
  PROVE  PostStep(s, answer)
  <1>t. /\ posted \in [Caller -> Seq(AnswerOf)] /\ solt[s] \in SlotType
        /\ solt[s].arg \in Call \cup {NoCall}
    BY DEF ShapeInv, TypeInv, SlotType
  <1>1. posted' \in [Caller -> Seq(AnswerOf)]
    BY <1>t, FuncType
  <1>2. CASE solt[s].arg = NoCall \/ ~Alive(solt[s].arg)
    BY <1>1, <1>2 DEF func, PostStep
  <1>3. CASE solt[s].arg # NoCall /\ Alive(solt[s].arg)
    <2>1. PICK c \in Caller : c = solt[s].arg[1]
      BY <1>3, <1>t DEF Call
    <2>2. posted' = [posted EXCEPT ![c] = Append(posted[c], answer)] /\ wrong' = wrong
      BY <1>3, <2>1 DEF func
    <2>3. local[c].call = solt[s].arg /\ at[c] # "idle"
      BY <1>3, <2>1 DEF Alive
    <2>4. /\ posted'[c] = Append(posted[c], answer)
          /\ \A d \in Caller : d # c => posted'[d] = posted[d]
      BY <1>t, <2>2
    <2>5. solt[s].arg \in Call
      BY <1>3, <1>t
    <2> QED BY <1>1, <2>2, <2>3, <2>4, <2>5 DEF PostStep
  <1> QED BY <1>2, <1>3

PostingStep(p) ==
  /\ at[p] = "locked" /\ Turn(p)
  /\ ActorStep(p) /\ at'[p] = "idle" /\ local' = local /\ SameSlot(p)
  /\ FreeStep(local[p].idx) /\ PostStep(local[p].idx, local[p].call)
  /\ UNCHANGED <<sequence, wire, calls, resets, use>>

LEMMA PostEffect ==
  ASSUME ShapeInv, NEW p \in Poster, rpc_table_post(p)
  PROVE  PostingStep(p)
  <1>t. /\ p \in Actor /\ local[p].idx \in Slot /\ "idle" \in Where /\ local[p].call \in AnswerOf
    BY DEF ShapeInv, TypeInv, RoleInv, RoleOf, Actor, Where, LocalType, AnswerOf, rpc_table_post
  <1>1. ActorStep(p) /\ local' = local /\ SameSlot(p) /\ at'[p] = "idle"
    BY <1>t, GotoEffect DEF rpc_table_post
  <1>2. FreeStep(local[p].idx)
    BY <1>t, FreeEffect DEF rpc_table_post
  <1>3. PostStep(local[p].idx, local[p].call)
    BY <1>t, FuncEffect DEF rpc_table_post, My
  <1> QED BY <1>1, <1>2, <1>3 DEF rpc_table_post, PostingStep

ScanningStep ==
  /\ at[Scanner] = "idle" /\ Turn(Scanner)
  /\ ActorStep(Scanner) /\ at'[Scanner] = "locked"
  /\ \E s \in Slot : /\ solt[s].used /\ local'[Scanner].idx = s
                     /\ SoltStep(s) /\ SameArm(s) /\ SameFp(s) /\ SameUse(s)
                     /\ solt'[s].lock = Scanner
  /\ UNCHANGED <<sequence, wire, calls, posted, resets, wrong, use>>

LEMMA ScanEffect ==
  ASSUME ShapeInv, scan
  PROVE  ScanningStep
  <1>t. /\ Scanner \in Actor /\ "locked" \in Where /\ local[Scanner] \in LocalType
        /\ local \in [Actor -> LocalType]
    BY DEF ShapeInv, TypeInv, Actor, Where
  <1>1. PICK s \in Slot :
          /\ solt[s].used
          /\ solt' = [solt EXCEPT ![s].lock = Scanner]
          /\ local' = [local EXCEPT ![Scanner].op = "scan", ![Scanner].idx = s]
    BY DEF scan
  <1>2. PICK v \in LocalType : v = [local[Scanner] EXCEPT !.op = "scan", !.idx = s]
    BY <1>t DEF LocalType
  <1>3. v.idx = s
    BY <1>t, <1>2 DEF LocalType
  <1>4. local' = [local EXCEPT ![Scanner] = v]
    BY <1>t, <1>1, <1>2
  <1>5. ActorStep(Scanner) /\ at'[Scanner] = "locked" /\ local'[Scanner] = v
    BY <1>t, <1>4, GotoLocal DEF scan
  <1>6. SoltStep(s) /\ SameArm(s) /\ SameFp(s) /\ SameUse(s) /\ solt'[s].lock = Scanner
    BY <1>t, <1>1, LockEffect
  <1> QED BY <1>1, <1>3, <1>5, <1>6 DEF scan, ScanningStep

CheckingStep ==
  LET s == local[Scanner].idx
  IN  /\ at[Scanner] = "locked" /\ Turn(Scanner)
      /\ ActorStep(Scanner) /\ at'[Scanner] = "idle" /\ local' = local
      /\ \/ /\ solt[s].timeout /\ FreeStep(s) /\ PostStep(s, <<"ETIMEDOUT">>)
         \/ /\ SoltStep(s) /\ SameArm(s) /\ SameFp(s) /\ SameUse(s)
            /\ UNCHANGED <<posted, wrong>>
      /\ UNCHANGED <<sequence, wire, calls, resets, use>>

LEMMA CheckEffect ==
  ASSUME ShapeInv, ScanStep
  PROVE  CheckingStep
  <1>t. /\ Scanner \in Actor /\ local[Scanner].idx \in Slot /\ "idle" \in Where
        /\ <<"ETIMEDOUT">> \in AnswerOf
    BY DEF ShapeInv, TypeInv, Actor, Where, LocalType, AnswerOf
  <1>1. ActorStep(Scanner) /\ local' = local /\ at'[Scanner] = "idle"
    BY <1>t, GotoEffect DEF ScanStep, check_timeout, check_pass
  <1>2. CASE check_timeout
    <2>1. FreeStep(local[Scanner].idx)
      BY <1>2, <1>t, FreeEffect DEF check_timeout
    <2>2. PostStep(local[Scanner].idx, <<"ETIMEDOUT">>)
      BY <1>2, <1>t, FuncEffect DEF check_timeout, My
    <2> QED BY <1>1, <1>2, <2>1, <2>2 DEF check_timeout, My, CheckingStep
  <1>3. CASE check_pass
    <2>1. LET s == local[Scanner].idx
          IN  SoltStep(s) /\ SameArm(s) /\ SameFp(s) /\ SameUse(s)
      BY <1>3, <1>t, UnlockEffect DEF check_pass
    <2> QED BY <1>1, <1>3, <2>1 DEF check_pass, CheckingStep
  <1> QED BY <1>2, <1>3 DEF ScanStep, CheckingStep

ResetStartStep(r) ==
  /\ at[r] = "idle" /\ Turn(r)
  /\ ActorStep(r) /\ at'[r] = "visit" /\ local'[r].op = "reset"
  /\ local'[r].idx = 0
  /\ UNCHANGED <<solt, sequence, wire, calls, posted, wrong, use>>

LEMMA ResetStartEffect ==
  ASSUME ShapeInv, NEW r \in Resetter, NEW k \in use.socks, reset_start(r, k)
  PROVE  ResetStartStep(r)
  <1>t. /\ r \in Actor /\ "visit" \in Where /\ local[r] \in LocalType
        /\ local \in [Actor -> LocalType] /\ use \in Uses
    BY DEF ShapeInv, TypeInv, Actor, Where
  <1>u. k \in Sock /\ 0 \in Slot
    BY <1>t, UseFacts, RpcTableAssumption DEF Slot
  <1>1. local' = [local EXCEPT ![r].op = "reset", ![r].idx = 0, ![r].sock = k]
    BY DEF reset_start
  <1>2. PICK v \in LocalType : v = [local[r] EXCEPT !.op = "reset", !.idx = 0, !.sock = k]
    BY <1>t, <1>u DEF LocalType
  <1>3. v.idx = 0 /\ v.op = "reset"
    BY <1>t, <1>2 DEF LocalType
  <1>4. local' = [local EXCEPT ![r] = v]
    BY <1>t, <1>1, <1>2
  <1>5. ActorStep(r) /\ at'[r] = "visit" /\ local'[r] = v
    BY <1>t, <1>4, GotoLocal DEF reset_start
  <1> QED BY <1>3, <1>5 DEF reset_start, ResetStartStep

LEMMA VisitedEffect ==
  ASSUME ShapeInv, NEW r \in Resetter, Visited(r)
  PROVE  /\ ActorStep(r) /\ local'[r].op = local[r].op /\ local'[r].idx < use.slots
         /\ at'[r] \in {"idle", "visit"}
  <1>t. /\ r \in Actor /\ "visit" \in Where /\ "idle" \in Where /\ local[r] \in LocalType
        /\ local \in [Actor -> LocalType] /\ use \in Uses /\ local[r].idx < use.slots
    BY DEF ShapeInv, TypeInv, RoleInv, RoleOf, Actor, Where
  <1>u. use.slots \in 1..SlotMax
    BY <1>t, UseFacts
  <1>1. CASE local[r].idx = use.slots - 1
    <2>1. ActorStep(r) /\ local' = local /\ at'[r] = "idle"
      BY <1>1, <1>t, GotoEffect DEF Visited
    <2> QED BY <2>1, <1>t
  <1>2. CASE local[r].idx # use.slots - 1
    <2>1. local[r].idx + 1 \in Slot /\ local[r].idx + 1 < use.slots
      BY <1>2, <1>t, <1>u, RpcTableAssumption DEF Slot, LocalType
    <2>2. PICK v \in LocalType : v = [local[r] EXCEPT !.idx = @ + 1]
      BY <1>t, <2>1 DEF LocalType
    <2>3. v.idx = local[r].idx + 1 /\ v.op = local[r].op
      BY <1>t, <2>2 DEF LocalType
    <2>4. local' = [local EXCEPT ![r] = v] /\ Goto(r, "visit")
      BY <1>2, <1>t, <2>2 DEF Visited
    <2>5. ActorStep(r) /\ at'[r] = "visit" /\ local'[r] = v
      BY <1>t, <2>4, GotoLocal
    <2> QED BY <2>1, <2>3, <2>5
  <1> QED BY <1>1, <1>2

ResettingStep(r) ==
  LET s == local[r].idx
  IN  /\ at[r] \in {"visit", "locked"} /\ Turn(r)
      /\ ActorStep(r) /\ local'[r].op = local[r].op /\ local'[r].idx < use.slots
      /\ \/ /\ at[r] = "visit" /\ solt[s].used
            /\ SoltStep(s) /\ SameArm(s) /\ SameFp(s) /\ SameUse(s)
            /\ at'[r] = "locked" /\ local' = local
            /\ UNCHANGED <<posted, wrong>>
         \/ /\ at'[r] \in {"idle", "visit"} /\ UNCHANGED <<posted, wrong>>
            /\ \/ solt' = solt
               \/ SoltStep(s) /\ SameArm(s) /\ SameFp(s) /\ SameUse(s)
         \/ /\ at'[r] \in {"idle", "visit"} /\ at[r] = "locked" /\ solt[s].timeout
            /\ FreeStep(s) /\ PostStep(s, <<"ECONNRESET">>)
      /\ UNCHANGED <<sequence, wire, calls, resets, use>>

LEMMA ResetEffect ==
  ASSUME ShapeInv, NEW r \in Resetter, ResetStep(r)
  PROVE  ResettingStep(r)
  <1>t. /\ r \in Actor /\ "locked" \in Where /\ local[r].idx \in Slot
        /\ <<"ECONNRESET">> \in AnswerOf /\ local[r].idx < use.slots
    BY DEF ShapeInv, TypeInv, RoleInv, RoleOf, Actor, Where, LocalType, AnswerOf
  <1>1. CASE reset_visit(r) /\ My(r).used /\ My(r).lock = None
    <2>1. solt' = [solt EXCEPT ![local[r].idx].lock = r] /\ Goto(r, "locked") /\ UNCHANGED local
      BY <1>1 DEF reset_visit
    <2>2. LET s == local[r].idx
          IN  SoltStep(s) /\ SameArm(s) /\ SameFp(s) /\ SameUse(s)
      BY <1>t, <2>1, LockEffect
    <2>3. ActorStep(r) /\ local' = local /\ at'[r] = "locked"
      BY <1>t, <2>1, GotoEffect
    <2> QED BY <1>1, <1>t, <2>2, <2>3 DEF reset_visit, My, ResettingStep
  <1>2. CASE reset_visit(r) /\ ~(My(r).used /\ My(r).lock = None)
    <2>1. Visited(r) /\ UNCHANGED solt
      BY <1>2 DEF reset_visit
    <2> QED BY <1>2, <2>1, VisitedEffect DEF reset_visit, ResettingStep
  <1>3. CASE reset_slot(r) /\ My(r).timeout /\ My(r).sock = local[r].sock
    <2>1. Visited(r) /\ func(solt[local[r].idx], <<"ECONNRESET">>)
          /\ solt' = [solt EXCEPT ![local[r].idx] = Unlocked(Freed(@))]
      BY <1>3 DEF reset_slot, My
    <2>2. FreeStep(local[r].idx)
      BY <1>t, <2>1, FreeEffect
    <2>3. PostStep(local[r].idx, <<"ECONNRESET">>)
      BY <1>t, <2>1, FuncEffect
    <2> QED BY <1>3, <2>1, <2>2, <2>3, VisitedEffect DEF reset_slot, My, ResettingStep
  <1>4. CASE reset_slot(r) /\ ~(My(r).timeout /\ My(r).sock = local[r].sock)
    <2>1. Visited(r) /\ UNCHANGED <<posted, wrong>>
          /\ solt' = [solt EXCEPT ![local[r].idx] = Unlocked(@)]
      BY <1>4 DEF reset_slot
    <2>2. LET s == local[r].idx
          IN  SoltStep(s) /\ SameArm(s) /\ SameFp(s) /\ SameUse(s)
      BY <1>t, <2>1, UnlockEffect
    <2> QED BY <1>4, <2>1, <2>2, VisitedEffect DEF reset_slot, ResettingStep
  <1> QED BY <1>1, <1>2, <1>3, <1>4 DEF ResetStep, ResettingStep

LEMMA RoleStep ==
  ASSUME ShapeInv, NEW a \in Actor, ActorStep(a), use' = use,
         RoleOf(use.slots, a, at'[a], local'[a])
  PROVE  RoleInv'
  <1>1. \A b \in Actor : RoleOf(use.slots, b, at'[b], local'[b])
    BY DEF ShapeInv, RoleInv, ActorStep
  <1> QED BY <1>1 DEF RoleInv

(* A step of the system is one of these.                                   *)
AnyStep ==
  \/ \E c \in Caller : \/ GetsoltStep(c) \/ NewLoadStep(c) \/ NewStoreStep(c)
                       \/ SetsoltStep(c) \/ SendStep(c) \/ FreeCallStep(c)
                       \/ WaitReturnStep(c)
  \/ \E a \in Caller \cup Poster : LockingStep(a)
  \/ \E p \in Poster : ReplyStep(p) \/ PostingStep(p)
  \/ ScanningStep \/ CheckingStep
  \/ \E r \in Resetter : ResetStartStep(r) \/ ResettingStep(r)

LEMMA StepCases ==
  ASSUME ShapeInv, [Next]_vars
  PROVE  (wrong = "no" /\ AnyStep) \/ UNCHANGED vars
  <1>1. ASSUME Next
        PROVE  wrong = "no" /\ AnyStep
    <2>0. wrong = "no"
      BY <1>1 DEF Next
    <2>1. CASE \E c \in Caller : CallerStep(c) \/ \E k \in use.socks : getsolt(c, k)
      BY <2>0, <2>1, GetsoltEffect, NewLoadEffect, NewStoreEffect, SetsoltEffect, SendEffect,
         FreeCallEffect, WaitReturnEffect DEF AnyStep, CallerStep
    <2>2. CASE \E a \in Caller \cup Poster : LockStep(a)
      BY <2>0, <2>2, LockStepEffect DEF AnyStep
    <2>3. CASE \E p \in Poster : reply_handler(p) \/ rpc_table_post(p)
      BY <2>0, <2>3, ReplyEffect, PostEffect DEF AnyStep
    <2>4. CASE scan \/ ScanStep
      BY <2>0, <2>4, ScanEffect, CheckEffect DEF AnyStep
    <2>5. CASE \E r \in Resetter : ResetStep(r) \/ \E k \in use.socks : reset_start(r, k)
      BY <2>0, <2>5, ResetStartEffect, ResetEffect DEF AnyStep
    <2> QED BY <1>1, <2>1, <2>2, <2>3, <2>4, <2>5 DEF Next
  <1> QED BY <1>1

(* The types and the roles are kept by every step.                         *)
LEMMA ShapeNext ==
  ASSUME ShapeInv, [Next]_vars
  PROVE  ShapeInv'
PROOF
  <1>a. /\ \A c \in Caller : c \in Actor /\ c # Scanner /\ c \notin Poster /\ c \notin Resetter
        /\ \A p \in Poster : p \in Actor /\ p # Scanner /\ p \notin Caller /\ p \notin Resetter
        /\ \A r \in Resetter : r \in Actor /\ r # Scanner /\ r \notin Poster /\ r \notin Caller
        /\ Scanner \in Actor /\ Scanner \notin Caller /\ Scanner \notin Poster
        /\ Scanner \notin Resetter
    BY RpcTableAssumption DEF Actor
  <1>1. ASSUME NEW c \in Caller, GetsoltStep(c)
        PROVE  ShapeInv'
    <2>1. TypeInv'
      BY <1>1 DEF GetsoltStep, ShapeInv, TypeInv, SoltStep, ActorStep, FreeStep, PostStep
    <2>2. RoleOf(use.slots, c, at'[c], local'[c]) /\ ActorStep(c) /\ use' = use
      <3>1. CASE UNCHANGED <<solt, local, at>>
        BY <1>1, <1>a, <3>1 DEF GetsoltStep, ShapeInv, TypeInv, RoleInv, ActorStep
      <3>2. CASE ~UNCHANGED <<solt, local, at>>
        <4>1. /\ ActorStep(c) /\ at'[c] = "new" /\ local'[c].op = "set" /\ use' = use
              /\ local'[c].call = <<c, calls + 1>>
          BY <1>1, <3>2 DEF GetsoltStep
        <4>2. local'[c].call \in Call
          BY <4>1 DEF ShapeInv, TypeInv, Call
        <4> QED BY <1>a, <4>1, <4>2 DEF RoleOf
      <3> QED BY <3>1, <3>2
    <2>3. RoleInv'
      BY <2>2, <1>a, RoleStep
    <2> QED BY <2>1, <2>3 DEF ShapeInv
  <1>2. ASSUME NEW c \in Caller, NewLoadStep(c)
        PROVE  ShapeInv'
    <2>1. TypeInv'
      BY <1>2 DEF NewLoadStep, ShapeInv, TypeInv, SoltStep, ActorStep, FreeStep, PostStep
    <2>2. RoleOf(use.slots, c, at'[c], local'[c]) /\ ActorStep(c) /\ use' = use
      BY <1>2, <1>a DEF NewLoadStep, ShapeInv, RoleInv, RoleOf, SameSlot, SameCall, SameIdx
    <2>3. RoleInv'
      BY <2>2, <1>a, RoleStep
    <2> QED BY <2>1, <2>3 DEF ShapeInv
  <1>3. ASSUME NEW c \in Caller, NewStoreStep(c)
        PROVE  ShapeInv'
    <2>1. TypeInv'
      BY <1>3, <1>a DEF NewStoreStep, ShapeInv, TypeInv, SoltStep, ActorStep, LocalType
    <2>2. RoleOf(use.slots, c, at'[c], local'[c]) /\ ActorStep(c) /\ use' = use
      BY <1>3, <1>a DEF NewStoreStep, ShapeInv, RoleInv, RoleOf, SameSlot, SameCall, SameIdx
    <2>3. RoleInv'
      BY <2>2, <1>a, RoleStep
    <2> QED BY <2>1, <2>3 DEF ShapeInv
  <1>4. ASSUME NEW c \in Caller, SetsoltStep(c)
        PROVE  ShapeInv'
    <2>1. TypeInv'
      BY <1>4 DEF SetsoltStep, ShapeInv, TypeInv, SoltStep, ActorStep, FreeStep, PostStep
    <2>2. RoleOf(use.slots, c, at'[c], local'[c]) /\ ActorStep(c) /\ use' = use
      BY <1>4, <1>a DEF SetsoltStep, ShapeInv, RoleInv, RoleOf, SameSlot, SameCall, SameIdx
    <2>3. RoleInv'
      BY <2>2, <1>a, RoleStep
    <2> QED BY <2>1, <2>3 DEF ShapeInv
  <1>5. ASSUME NEW c \in Caller, SendStep(c)
        PROVE  ShapeInv'
    <2>1. TypeInv'
      BY <1>5 DEF SendStep, ShapeInv, TypeInv, SoltStep, ActorStep, FreeStep, PostStep, RoleInv, RoleOf, Message, LocalType, Actor
    <2>2. RoleOf(use.slots, c, at'[c], local'[c]) /\ ActorStep(c) /\ use' = use
      BY <1>5, <1>a DEF SendStep, ShapeInv, RoleInv, RoleOf, SameSlot, SameCall, SameIdx
    <2>3. RoleInv'
      BY <2>2, <1>a, RoleStep
    <2> QED BY <2>1, <2>3 DEF ShapeInv
  <1>6. ASSUME NEW c \in Caller, FreeCallStep(c)
        PROVE  ShapeInv'
    <2>1. TypeInv'
      BY <1>6 DEF FreeCallStep, ShapeInv, TypeInv, SoltStep, ActorStep, FreeStep, PostStep
    <2>2. RoleOf(use.slots, c, at'[c], local'[c]) /\ ActorStep(c) /\ use' = use
      BY <1>6, <1>a DEF FreeCallStep, ShapeInv, RoleInv, RoleOf, SameSlot, SameCall, SameIdx
    <2>3. RoleInv'
      BY <2>2, <1>a, RoleStep
    <2> QED BY <2>1, <2>3 DEF ShapeInv
  <1>7. ASSUME NEW c \in Caller, WaitReturnStep(c)
        PROVE  ShapeInv'
    <2>1. TypeInv'
      BY <1>7 DEF WaitReturnStep, ShapeInv, TypeInv, SoltStep, ActorStep, FreeStep, PostStep
    <2>2. RoleOf(use.slots, c, at'[c], local'[c]) /\ ActorStep(c) /\ use' = use
      BY <1>7, <1>a DEF WaitReturnStep, ShapeInv, RoleInv, RoleOf, SameSlot, SameCall, SameIdx
    <2>3. RoleInv'
      BY <2>2, <1>a, RoleStep
    <2> QED BY <2>1, <2>3 DEF ShapeInv
  <1>8. ASSUME NEW a \in Caller \cup Poster, LockingStep(a)
        PROVE  ShapeInv'
    <2>1. TypeInv'
      BY <1>8 DEF LockingStep, ShapeInv, TypeInv, SoltStep, ActorStep, FreeStep, PostStep
    <2>2. RoleOf(use.slots, a, at'[a], local'[a]) /\ ActorStep(a) /\ use' = use
      BY <1>8, <1>a DEF LockingStep, ShapeInv, RoleInv, RoleOf, SameSlot, SameCall, SameIdx
    <2>3. RoleInv'
      BY <2>2, <1>a, RoleStep
    <2> QED BY <2>1, <2>3 DEF ShapeInv
  <1>9. ASSUME NEW p \in Poster, ReplyStep(p)
        PROVE  ShapeInv'
    <2>1. TypeInv'
      BY <1>9 DEF ReplyStep, ShapeInv, TypeInv, SoltStep, ActorStep, FreeStep, PostStep
    <2>2. RoleOf(use.slots, p, at'[p], local'[p]) /\ ActorStep(p) /\ use' = use
      BY <1>9, <1>a DEF ReplyStep, ShapeInv, TypeInv, RoleOf
    <2>3. RoleInv'
      BY <2>2, <1>a, RoleStep
    <2> QED BY <2>1, <2>3 DEF ShapeInv
  <1>10. ASSUME NEW p \in Poster, PostingStep(p)
         PROVE  ShapeInv'
    <2>1. TypeInv'
      BY <1>10 DEF PostingStep, ShapeInv, TypeInv, SoltStep, ActorStep, FreeStep, PostStep
    <2>2. RoleOf(use.slots, p, at'[p], local'[p]) /\ ActorStep(p) /\ use' = use
      BY <1>10, <1>a DEF PostingStep, ShapeInv, RoleInv, RoleOf, SameSlot, SameCall, SameIdx
    <2>3. RoleInv'
      BY <2>2, <1>a, RoleStep
    <2> QED BY <2>1, <2>3 DEF ShapeInv
  <1>11. ASSUME ScanningStep
         PROVE  ShapeInv'
    <2>1. TypeInv'
      BY <1>11 DEF ScanningStep, ShapeInv, TypeInv, SoltStep, ActorStep, FreeStep, PostStep
    <2>2. RoleOf(use.slots, Scanner, at'[Scanner], local'[Scanner]) /\ ActorStep(Scanner) /\ use' = use
      BY <1>11, <1>a DEF ScanningStep, ShapeInv, RoleInv, RoleOf, SameSlot, SameCall, SameIdx
    <2>3. RoleInv'
      BY <2>2, <1>a, RoleStep
    <2> QED BY <2>1, <2>3 DEF ShapeInv
  <1>12. ASSUME CheckingStep
         PROVE  ShapeInv'
    <2>1. TypeInv'
      BY <1>12 DEF CheckingStep, ShapeInv, TypeInv, SoltStep, ActorStep, FreeStep, PostStep
    <2>2. RoleOf(use.slots, Scanner, at'[Scanner], local'[Scanner]) /\ ActorStep(Scanner) /\ use' = use
      BY <1>12, <1>a DEF CheckingStep, ShapeInv, RoleInv, RoleOf, SameSlot, SameCall, SameIdx
    <2>3. RoleInv'
      BY <2>2, <1>a, RoleStep
    <2> QED BY <2>1, <2>3 DEF ShapeInv
  <1>13. ASSUME NEW r \in Resetter, ResetStartStep(r)
         PROVE  ShapeInv'
    <2>1. TypeInv'
      BY <1>13 DEF ResetStartStep, ShapeInv, TypeInv, SoltStep, ActorStep, FreeStep, PostStep
    <2>2. RoleOf(use.slots, r, at'[r], local'[r]) /\ ActorStep(r) /\ use' = use
      BY <1>13, <1>a, UseFacts DEF ResetStartStep, ShapeInv, TypeInv, RoleOf
    <2>3. RoleInv'
      BY <2>2, <1>a, RoleStep
    <2> QED BY <2>1, <2>3 DEF ShapeInv
  <1>14. ASSUME NEW r \in Resetter, ResettingStep(r)
         PROVE  ShapeInv'
    <2>1. TypeInv'
      BY <1>14 DEF ResettingStep, ShapeInv, TypeInv, SoltStep, ActorStep, FreeStep, PostStep
    <2>2. RoleOf(use.slots, r, at'[r], local'[r]) /\ ActorStep(r) /\ use' = use
      BY <1>14, <1>a DEF ResettingStep, ShapeInv, RoleInv, RoleOf, SameSlot, SameCall, SameIdx
    <2>3. RoleInv'
      BY <2>2, <1>a, RoleStep
    <2> QED BY <2>1, <2>3 DEF ShapeInv
  <1>15. CASE UNCHANGED vars
    BY <1>15 DEF vars, ShapeInv, TypeInv, RoleInv, RoleOf
  <1> QED
    BY <1>1, <1>2, <1>3, <1>4, <1>5, <1>6, <1>7, <1>8, <1>9, <1>10, <1>11, <1>12, <1>13,
       <1>14, <1>15, StepCases DEF AnyStep

(***************************************************************************)
(* A call is ended once and no slot leaks: on every table.                 *)
(***************************************************************************)

(* The caller has a slot that it has not armed yet.                        *)
Arming(c) ==
  local[c].op = "set" /\ at[c] \in {"new", "new_store", "check", "lock", "locked"}

(* The calls that slots and callers know have been numbered.               *)
NumberInv ==
  /\ \A s \in Slot : solt[s].arg # NoCall => solt[s].arg[2] <= calls
  /\ \A c \in Caller : local[c].call # NoCall =>
       local[c].call[1] = c /\ local[c].call[2] <= calls

(* A call is armed at its own slot only and has not been posted then; a    *)
(* call that is not armed yet has not been posted and will be armed once.  *)
OnceInv ==
  /\ \A s \in Slot, c \in Caller :
       solt[s].arg = local[c].call /\ local[c].call # NoCall =>
         s = local[c].idx /\ posted[c] = <<>>
  /\ \A c \in Caller : Arming(c) =>
       posted[c] = <<>> /\ \A s \in Slot : solt[s].arg # local[c].call
  /\ EndedOnce

(* A caller that will still free the slot: it has not been posted, and it  *)
(* knows the slot's fingerprint or is going to set one.                    *)
Owns(c, s) ==
  /\ local[c].idx = s /\ posted[c] = <<>>
  /\ at[c] \notin {"idle", "estale"}
  /\ at[c] \in {"new", "new_store"} \/ solt[s].fp = local[c].fp

OwnerInv == \A s \in Slot : solt[s].used => \E c \in Caller : Owns(c, s)

TableInv == ShapeInv /\ NumberInv /\ OnceInv /\ OwnerInv

LEMMA ActorFacts ==
  /\ \A c \in Caller : c \in Actor /\ c # Scanner /\ c \notin Poster /\ c \notin Resetter
  /\ \A p \in Poster : p \in Actor /\ p # Scanner /\ p \notin Caller /\ p \notin Resetter
  /\ \A r \in Resetter : r \in Actor /\ r # Scanner /\ r \notin Poster /\ r \notin Caller
  /\ Scanner \in Actor /\ Scanner \notin Caller /\ Scanner \notin Poster
  /\ Scanner \notin Resetter
  BY RpcTableAssumption DEF Actor

(* The callers go on where they were.                                      *)
CallersStay == \A c \in Caller : at'[c] = at[c] /\ local'[c] = local[c]

LEMMA OthersStay ==
  ASSUME NEW a \in Actor \ Caller, ActorStep(a)
  PROVE  CallersStay
  BY ActorFacts DEF CallersStay, ActorStep

(* Ending the call of a slot, by an answer, the scan or a reset.           *)
LEMMA EndOnce ==
  ASSUME ShapeInv, OnceInv, NEW s \in Slot, NEW answer \in AnswerOf, FreeStep(s),
         PostStep(s, answer), CallersStay
  PROVE  OnceInv'
PROOF
  <1>t. posted \in [Caller -> Seq(AnswerOf)]
    BY DEF ShapeInv, TypeInv
  <1>1. CASE posted' = posted
    <2>1. \A t \in Slot : solt'[t].arg = NoCall \/ solt'[t].arg = solt[t].arg
      BY DEF FreeStep, SoltStep
    <2>2. \A d \in Caller : Arming(d) => local[d].call # NoCall
      BY ActorFacts, NoCallIsNone DEF ShapeInv, RoleInv, RoleOf, Arming
    <2>3. \A d \in Caller : (Arming(d)' <=> Arming(d)) /\ local'[d] = local[d]
      BY DEF Arming, CallersStay
    <2> QED BY <1>1, <2>1, <2>2, <2>3 DEF OnceInv, EndedOnce
  <1>2. CASE posted' # posted
    <2>1. PICK c \in Caller :
             /\ solt[s].arg = local[c].call /\ solt[s].arg \in Call
             /\ posted'[c] = Append(posted[c], answer)
             /\ \A d \in Caller : d # c => posted'[d] = posted[d]
      BY <1>2 DEF PostStep
    <2>2. s = local[c].idx /\ posted[c] = <<>> /\ ~Arming(c) /\ local[c].call # NoCall
      BY <2>1, NoCallIsNone DEF OnceInv
    <2>3. Len(posted'[c]) = 1
      BY <2>1, <2>2, <1>t
    <2>4. \A t \in Slot : solt'[t].arg # local[c].call
      BY <2>1, <2>2 DEF OnceInv, FreeStep, SoltStep
    <2>5. \A d \in Caller, t \in Slot :
             solt'[t].arg = local[d].call /\ local[d].call # NoCall =>
               d # c /\ solt[t].arg = local[d].call
      BY <2>4 DEF FreeStep, SoltStep
    <2>6. EndedOnce'
      BY <2>1, <2>3 DEF OnceInv, EndedOnce
    <2>7. \A d \in Caller : Arming(d)' => Arming(d) /\ d # c
      BY <2>2 DEF Arming, CallersStay
    <2>8. \A d \in Caller : Arming(d)' =>
             posted'[d] = <<>> /\ \A t \in Slot : solt'[t].arg # local'[d].call
      <3> SUFFICES ASSUME NEW d \in Caller, Arming(d)'
                   PROVE  posted'[d] = <<>> /\ \A t \in Slot : solt'[t].arg # local'[d].call
        OBVIOUS
      <3>1. Arming(d) /\ d # c /\ posted[d] = <<>> /\ posted'[d] = <<>>
            /\ local'[d] = local[d] /\ \A t \in Slot : solt[t].arg # local[d].call
        BY <2>1, <2>7 DEF OnceInv, CallersStay
      <3>2. local[d].call # NoCall
        BY <3>1, ActorFacts, NoCallIsNone DEF ShapeInv, RoleInv, RoleOf, Arming
      <3> QED BY <3>1, <3>2 DEF FreeStep, SoltStep
    <2>9. \A t \in Slot, d \in Caller :
             solt'[t].arg = local'[d].call /\ local'[d].call # NoCall =>
               t = local'[d].idx /\ posted'[d] = <<>>
      BY <2>1, <2>5 DEF OnceInv, CallersStay
    <2> QED BY <2>6, <2>8, <2>9 DEF OnceInv
  <1> QED BY <1>1, <1>2

LEMMA EndOwner ==
  ASSUME ShapeInv, OnceInv, OwnerInv, NEW s \in Slot, NEW answer \in AnswerOf, FreeStep(s),
         PostStep(s, answer), CallersStay
  PROVE  OwnerInv'
PROOF
  <1> SUFFICES ASSUME NEW t \in Slot, solt'[t].used
               PROVE  \E c \in Caller : Owns(c, t)'
    BY DEF OwnerInv
  <1>1. t # s /\ solt'[t] = solt[t]
    BY DEF FreeStep, SoltStep
  <1>2. PICK c \in Caller : Owns(c, t)
    BY <1>1 DEF OwnerInv
  <1>3. posted'[c] = posted[c]
    <2>1. CASE posted' = posted
      BY <2>1
    <2>2. CASE posted' # posted
      <3>1. PICK e \in Caller :
              /\ solt[s].arg = local[e].call /\ solt[s].arg \in Call
              /\ \A d \in Caller : d # e => posted'[d] = posted[d]
        BY <2>2 DEF PostStep
      <3>2. local[e].idx = s
        BY <3>1, NoCallIsNone DEF OnceInv
      <3> QED BY <1>1, <1>2, <3>1, <3>2 DEF Owns
    <2> QED BY <2>1, <2>2
  <1>4. Owns(c, t)'
    BY <1>1, <1>2, <1>3 DEF Owns, CallersStay
  <1> QED BY <1>4

(* Locking or unlocking a slot, and leaving the callers alone.             *)
LEMMA TouchSlot ==
  ASSUME ShapeInv, OnceInv, OwnerInv, NEW s \in Slot, SoltStep(s), SameArm(s), SameFp(s),
         SameUse(s), CallersStay, posted' = posted
  PROVE  OnceInv' /\ OwnerInv'
  <1>1. \A t \in Slot : /\ solt'[t].arg = solt[t].arg /\ solt'[t].fp = solt[t].fp
                        /\ solt'[t].used = solt[t].used
    BY DEF SoltStep, SameArm, SameFp, SameUse
  <1>2. OnceInv'
    BY <1>1 DEF OnceInv, EndedOnce, Arming, CallersStay
  <1>3. OwnerInv'
    BY <1>1 DEF OwnerInv, Owns, CallersStay
  <1> QED BY <1>2, <1>3

LEMMA NumberNext ==
  ASSUME ShapeInv, NumberInv, [Next]_vars
  PROVE  NumberInv'
PROOF
  <1>1. ASSUME NEW c \in Caller, GetsoltStep(c)
        PROVE  NumberInv'
    <2>t. calls \in Nat /\ local \in [Actor -> LocalType] /\ solt \in [Slot -> SlotType]
          /\ calls' = calls + 1
      BY <1>1 DEF ShapeInv, TypeInv, GetsoltStep
    <2>a. \A s \in Slot : solt[s].arg # NoCall => solt[s].arg[2] \in Nat
      BY <2>t DEF SlotType, Call
    <2>b. \A d \in Caller : local[d].call # NoCall => local[d].call[2] \in Nat
      BY <2>t, ActorFacts DEF LocalType, Call
    <2>1. CASE UNCHANGED <<solt, local, at>>
      BY <2>t, <2>a, <2>b, <2>1 DEF NumberInv
    <2>2. CASE ~UNCHANGED <<solt, local, at>>
      <3>1. PICK s \in Slot : SoltStep(s) /\ SameArm(s) /\ ActorStep(c)
                              /\ local'[c].call = <<c, calls + 1>>
        BY <1>1, <2>2 DEF GetsoltStep
      <3>2. \A t \in Slot : solt'[t].arg = solt[t].arg
        BY <3>1 DEF SoltStep, SameArm
      <3>3. \A d \in Caller : d # c => local'[d] = local[d]
        BY <3>1, ActorFacts DEF ActorStep
      <3> QED BY <2>t, <2>a, <2>b, <3>1, <3>2, <3>3 DEF NumberInv
    <2> QED BY <2>1, <2>2
  <1>2. ASSUME NEW c \in Caller, NewLoadStep(c)
        PROVE  NumberInv'
    BY <1>2, ActorFacts DEF NewLoadStep, NumberInv, ShapeInv, TypeInv, SoltStep, ActorStep, FreeStep, PostStep, SameSlot, SameCall, SameIdx, SameArm, SameFp, SameUse
  <1>3. ASSUME NEW c \in Caller, NewStoreStep(c)
        PROVE  NumberInv'
    BY <1>3, ActorFacts DEF NewStoreStep, NumberInv, ShapeInv, TypeInv, SoltStep, ActorStep, FreeStep, PostStep, SameSlot, SameCall, SameIdx, SameArm, SameFp, SameUse
  <1>4. ASSUME NEW c \in Caller, SetsoltStep(c)
        PROVE  NumberInv'
    BY <1>4, ActorFacts DEF SetsoltStep, NumberInv, ShapeInv, TypeInv, SoltStep, ActorStep, FreeStep, PostStep, SameSlot, SameCall, SameIdx, SameArm, SameFp, SameUse
  <1>5. ASSUME NEW c \in Caller, SendStep(c)
        PROVE  NumberInv'
    BY <1>5, ActorFacts DEF SendStep, NumberInv, ShapeInv, TypeInv, SoltStep, ActorStep, FreeStep, PostStep, SameSlot, SameCall, SameIdx, SameArm, SameFp, SameUse
  <1>6. ASSUME NEW c \in Caller, FreeCallStep(c)
        PROVE  NumberInv'
    BY <1>6, ActorFacts DEF FreeCallStep, NumberInv, ShapeInv, TypeInv, SoltStep, ActorStep, FreeStep, PostStep, SameSlot, SameCall, SameIdx, SameArm, SameFp, SameUse
  <1>7. ASSUME NEW c \in Caller, WaitReturnStep(c)
        PROVE  NumberInv'
    BY <1>7, ActorFacts DEF WaitReturnStep, NumberInv, ShapeInv, TypeInv, SoltStep, ActorStep, FreeStep, PostStep, SameSlot, SameCall, SameIdx, SameArm, SameFp, SameUse
  <1>8. ASSUME NEW a \in Caller \cup Poster, LockingStep(a)
        PROVE  NumberInv'
    BY <1>8, ActorFacts DEF LockingStep, NumberInv, ShapeInv, TypeInv, SoltStep, ActorStep, FreeStep, PostStep, SameSlot, SameCall, SameIdx, SameArm, SameFp, SameUse
  <1>9. ASSUME NEW p \in Poster, ReplyStep(p)
        PROVE  NumberInv'
    BY <1>9, ActorFacts DEF ReplyStep, NumberInv, ShapeInv, TypeInv, SoltStep, ActorStep, FreeStep, PostStep, SameSlot, SameCall, SameIdx, SameArm, SameFp, SameUse
  <1>10. ASSUME NEW p \in Poster, PostingStep(p)
         PROVE  NumberInv'
    BY <1>10, ActorFacts DEF PostingStep, NumberInv, ShapeInv, TypeInv, SoltStep, ActorStep, FreeStep, PostStep, SameSlot, SameCall, SameIdx, SameArm, SameFp, SameUse
  <1>11. ASSUME ScanningStep
         PROVE  NumberInv'
    BY <1>11, ActorFacts DEF ScanningStep, NumberInv, ShapeInv, TypeInv, SoltStep, ActorStep, FreeStep, PostStep, SameSlot, SameCall, SameIdx, SameArm, SameFp, SameUse
  <1>12. ASSUME CheckingStep
         PROVE  NumberInv'
    BY <1>12, ActorFacts DEF CheckingStep, NumberInv, ShapeInv, TypeInv, SoltStep, ActorStep, FreeStep, PostStep, SameSlot, SameCall, SameIdx, SameArm, SameFp, SameUse
  <1>13. ASSUME NEW r \in Resetter, ResetStartStep(r)
         PROVE  NumberInv'
    BY <1>13, ActorFacts DEF ResetStartStep, NumberInv, ShapeInv, TypeInv, SoltStep, ActorStep, FreeStep, PostStep, SameSlot, SameCall, SameIdx, SameArm, SameFp, SameUse
  <1>14. ASSUME NEW r \in Resetter, ResettingStep(r)
         PROVE  NumberInv'
    <2>1. CallersStay /\ calls' = calls
      BY <1>14, ActorFacts, OthersStay DEF ResettingStep
    <2>2. \A t \in Slot : solt'[t].arg = NoCall \/ solt'[t].arg = solt[t].arg
      BY <1>14 DEF ResettingStep, FreeStep, SoltStep, SameArm
    <2> QED BY <2>1, <2>2 DEF NumberInv, CallersStay
  <1>15. CASE UNCHANGED vars
    BY <1>15 DEF vars, NumberInv
  <1> QED
    BY <1>1, <1>2, <1>3, <1>4, <1>5, <1>6, <1>7, <1>8, <1>9, <1>10, <1>11, <1>12, <1>13,
       <1>14, <1>15, StepCases DEF AnyStep

LEMMA OnceNext ==
  ASSUME ShapeInv, NumberInv, OnceInv, OwnerInv, [Next]_vars
  PROVE  OnceInv'
PROOF
  <1>1. ASSUME NEW c \in Caller, GetsoltStep(c)
        PROVE  OnceInv'
    <2>t. calls \in Nat /\ posted \in [Caller -> Seq(AnswerOf)] /\ solt \in [Slot -> SlotType]
      BY DEF ShapeInv, TypeInv
    <2>0. /\ posted'[c] = <<>> /\ \A d \in Caller : d # c => posted'[d] = posted[d]
      BY <1>1 DEF GetsoltStep
    <2>n. EndedOnce'
      BY <2>0 DEF OnceInv, EndedOnce
    <2>1. CASE UNCHANGED <<solt, local, at>>
      BY <2>0, <2>1, <2>n DEF OnceInv, Arming
    <2>2. CASE ~UNCHANGED <<solt, local, at>>
      <3>1. PICK s \in Slot :
              /\ SoltStep(s) /\ SameArm(s)
              /\ ActorStep(c) /\ at'[c] = "new" /\ local'[c].op = "set"
              /\ local'[c].idx = s /\ local'[c].call = <<c, calls + 1>>
        BY <1>1, <2>2 DEF GetsoltStep
      <3>2. \A t \in Slot : solt'[t].arg = solt[t].arg
        BY <3>1 DEF SoltStep, SameArm
      <3>3. \A t \in Slot : solt[t].arg # <<c, calls + 1>>
        <4> SUFFICES ASSUME NEW t \in Slot, solt[t].arg = <<c, calls + 1>>
                     PROVE  FALSE
          OBVIOUS
        <4>1. <<c, calls + 1>> \in Call
          BY <2>t DEF Call
        <4>2. solt[t].arg # NoCall
          BY <4>1, NoCallIsNone
        <4>3. solt[t].arg[2] = calls + 1
          OBVIOUS
        <4>4. solt[t].arg[2] <= calls
          BY <4>2 DEF NumberInv
        <4> QED BY <4>3, <4>4, <2>t
      <3>4. \A d \in Caller : d # c => at'[d] = at[d] /\ local'[d] = local[d]
        BY <3>1, ActorFacts DEF ActorStep
      <3> QED BY <2>0, <2>n, <3>1, <3>2, <3>3, <3>4 DEF OnceInv, Arming
    <2> QED BY <2>1, <2>2
  <1>2. ASSUME NEW c \in Caller, NewLoadStep(c)
        PROVE  OnceInv'
    <2>1. ActorStep(c) /\ SameCall(c) /\ SameIdx(c) /\ at[c] = "new" /\ at'[c] = "new_store"
          /\ solt' = solt /\ posted' = posted
      BY <1>2 DEF NewLoadStep
    <2>2. \A d \in Caller : /\ local'[d].call = local[d].call /\ local'[d].idx = local[d].idx
                            /\ Arming(d)' <=> Arming(d)
      BY <2>1, ActorFacts DEF ActorStep, SameIdx, SameCall, Arming
    <2> QED BY <2>1, <2>2 DEF OnceInv, EndedOnce
  <1>3. ASSUME NEW c \in Caller, NewStoreStep(c)
        PROVE  OnceInv'
    BY <1>3, ActorFacts DEF NewStoreStep, NumberInv, OnceInv, EndedOnce, Arming, ShapeInv, TypeInv, SoltStep, ActorStep, FreeStep, PostStep, SameSlot, SameCall, SameIdx, SameArm, SameFp, SameUse
  <1>4. ASSUME NEW c \in Caller, SetsoltStep(c)
        PROVE  OnceInv'
    <2>t. c \in Actor /\ local[c].idx \in Slot /\ local[c].call \in Call
      BY <1>4, ActorFacts DEF SetsoltStep, ShapeInv, TypeInv, LocalType, RoleInv, RoleOf
    <2>1. PICK s \in Slot : /\ s = local[c].idx /\ SoltStep(s) /\ solt'[s].arg = local[c].call
                            /\ local' = local /\ posted' = posted
      BY <1>4, <2>t DEF SetsoltStep
    <2>2. Arming(c) /\ ~Arming(c)' /\ \A d \in Caller : d # c => (Arming(d)' <=> Arming(d))
      BY <1>4, ActorFacts DEF SetsoltStep, ActorStep, Arming
    <2>3. posted[c] = <<>> /\ \A t \in Slot : solt[t].arg # local[c].call
      BY <2>2 DEF OnceInv
    <2>4. \A d \in Caller : d # c => local[d].call # local[c].call
      BY <2>t, NoCallIsNone DEF NumberInv
    <2>5. EndedOnce'
      BY <2>1 DEF OnceInv, EndedOnce
    <2> QED BY <2>1, <2>2, <2>3, <2>4, <2>5 DEF OnceInv, SoltStep
  <1>5. ASSUME NEW c \in Caller, SendStep(c)
        PROVE  OnceInv'
    <2>1. \A d \in Caller : /\ local'[d].call = local[d].call /\ local'[d].idx = local[d].idx
                            /\ Arming(d)' => Arming(d)
      BY <1>5, ActorFacts DEF SendStep, ActorStep, SameIdx, Arming
    <2>2. solt' = solt /\ posted' = posted
      BY <1>5 DEF SendStep
    <2> QED BY <2>1, <2>2 DEF OnceInv, EndedOnce
  <1>6. ASSUME NEW c \in Caller, FreeCallStep(c)
        PROVE  OnceInv'
    <2>1. local' = local /\ posted' = posted /\ FreeStep(local[c].idx)
      BY <1>6 DEF FreeCallStep
    <2>2. \A d \in Caller : Arming(d)' => Arming(d)
      BY <1>6, ActorFacts DEF FreeCallStep, ActorStep, Arming
    <2>3. \A d \in Caller : Arming(d) => local[d].call # NoCall
      BY ActorFacts, NoCallIsNone DEF ShapeInv, RoleInv, RoleOf, Arming
    <2>4. \A t \in Slot : solt'[t].arg = NoCall \/ solt'[t].arg = solt[t].arg
      BY <2>1 DEF FreeStep, SoltStep
    <2>5. \A d \in Caller : Arming(d)' => \A t \in Slot : solt'[t].arg # local'[d].call
      BY <2>1, <2>2, <2>3, <2>4 DEF OnceInv
    <2> QED BY <2>1, <2>2, <2>4, <2>5 DEF OnceInv, EndedOnce
  <1>7. ASSUME NEW c \in Caller, WaitReturnStep(c)
        PROVE  OnceInv'
    BY <1>7, ActorFacts DEF WaitReturnStep, NumberInv, OnceInv, EndedOnce, Arming, ShapeInv, TypeInv, SoltStep, ActorStep, FreeStep, PostStep, SameSlot, SameCall, SameIdx, SameArm, SameFp, SameUse
  <1>8. ASSUME NEW a \in Caller \cup Poster, LockingStep(a)
        PROVE  OnceInv'
    BY <1>8, ActorFacts, SMTT(30) DEF LockingStep, NumberInv, OnceInv, EndedOnce, Arming, ShapeInv, TypeInv, SoltStep, ActorStep, FreeStep, PostStep, SameSlot, SameCall, SameIdx, SameArm, SameFp, SameUse
  <1>9. ASSUME NEW p \in Poster, ReplyStep(p)
        PROVE  OnceInv'
    BY <1>9, ActorFacts DEF ReplyStep, NumberInv, OnceInv, EndedOnce, Arming, ShapeInv, TypeInv, SoltStep, ActorStep, FreeStep, PostStep, SameSlot, SameCall, SameIdx, SameArm, SameFp, SameUse
  <1>10. ASSUME NEW p \in Poster, PostingStep(p)
         PROVE  OnceInv'
    <2>1. local[p].idx \in Slot /\ local[p].call \in AnswerOf /\ CallersStay
      BY <1>10, ActorFacts, OthersStay
         DEF PostingStep, ShapeInv, TypeInv, LocalType, AnswerOf, RoleInv, RoleOf
    <2> QED BY <1>10, <2>1, EndOnce DEF PostingStep
  <1>11. ASSUME ScanningStep
         PROVE  OnceInv'
    <2>1. CallersStay /\ posted' = posted
      BY <1>11, ActorFacts, OthersStay DEF ScanningStep
    <2> QED BY <1>11, <2>1, TouchSlot DEF ScanningStep
  <1>12. ASSUME CheckingStep
         PROVE  OnceInv'
    <2>1. local[Scanner].idx \in Slot /\ <<"ETIMEDOUT">> \in AnswerOf /\ CallersStay
      BY <1>12, ActorFacts, OthersStay
         DEF CheckingStep, ShapeInv, TypeInv, LocalType, AnswerOf, RoleInv, RoleOf
    <2> QED BY <1>12, <2>1, EndOnce, TouchSlot DEF CheckingStep
  <1>13. ASSUME NEW r \in Resetter, ResetStartStep(r)
         PROVE  OnceInv'
    BY <1>13, ActorFacts DEF ResetStartStep, NumberInv, OnceInv, EndedOnce, Arming, ShapeInv, TypeInv, SoltStep, ActorStep, FreeStep, PostStep, SameSlot, SameCall, SameIdx, SameArm, SameFp, SameUse
  <1>14. ASSUME NEW r \in Resetter, ResettingStep(r)
         PROVE  OnceInv'
    <2>1. local[r].idx \in Slot /\ <<"ECONNRESET">> \in AnswerOf /\ CallersStay
      BY <1>14, ActorFacts, OthersStay DEF ResettingStep, ShapeInv, TypeInv, LocalType, AnswerOf
    <2>2. CASE solt' = solt /\ posted' = posted
      BY <2>1, <2>2 DEF OnceInv, EndedOnce, Arming, CallersStay
    <2>3. CASE ~(solt' = solt /\ posted' = posted)
      BY <1>14, <2>1, <2>3, EndOnce, TouchSlot DEF ResettingStep
    <2> QED BY <2>2, <2>3
  <1>15. CASE UNCHANGED vars
    BY <1>15 DEF vars, OnceInv, EndedOnce, Arming
  <1> QED
    BY <1>1, <1>2, <1>3, <1>4, <1>5, <1>6, <1>7, <1>8, <1>9, <1>10, <1>11, <1>12, <1>13,
       <1>14, <1>15, StepCases DEF AnyStep

LEMMA OwnerNext ==
  ASSUME ShapeInv, OnceInv, OwnerInv, [Next]_vars
  PROVE  OwnerInv'
PROOF
  <1>1. ASSUME NEW c \in Caller, GetsoltStep(c)
        PROVE  OwnerInv'
    <2> SUFFICES ASSUME NEW t \in Slot, solt'[t].used
                 PROVE  \E d \in Caller : Owns(d, t)'
      BY DEF OwnerInv
    <2>0. /\ posted'[c] = <<>> /\ \A d \in Caller : d # c => posted'[d] = posted[d]
          /\ at[c] = "idle"
      BY <1>1 DEF GetsoltStep
    <2>1. CASE UNCHANGED <<solt, local, at>>
      BY <2>0, <2>1 DEF OwnerInv, Owns
    <2>2. CASE ~UNCHANGED <<solt, local, at>>
      <3>1. PICK s \in Slot :
              /\ SoltStep(s) /\ ActorStep(c) /\ at'[c] = "new" /\ local'[c].idx = s
        BY <1>1, <2>2 DEF GetsoltStep
      <3>4. \A d \in Caller : d # c => at'[d] = at[d] /\ local'[d] = local[d]
        BY <3>1, ActorFacts DEF ActorStep
      <3>5. CASE t = s
        <4>1. Owns(c, t)'
          BY <3>1, <3>5, <2>0 DEF Owns
        <4> QED BY <4>1
      <3>6. CASE t # s
        <4>1. solt'[t] = solt[t]
          BY <3>1, <3>6 DEF SoltStep
        <4>2. PICK d \in Caller : Owns(d, t)
          BY <4>1 DEF OwnerInv
        <4>3. Owns(d, t)'
          BY <2>0, <3>4, <4>1, <4>2 DEF Owns
        <4> QED BY <4>3
      <3> QED BY <3>5, <3>6
    <2> QED BY <2>1, <2>2
  <1>2. ASSUME NEW c \in Caller, NewLoadStep(c)
        PROVE  OwnerInv'
    BY <1>2, ActorFacts DEF NewLoadStep, OwnerInv, Owns, OnceInv, Arming, ShapeInv, TypeInv, SoltStep, ActorStep, FreeStep, PostStep, SameSlot, SameCall, SameIdx, SameArm, SameFp, SameUse
  <1>3. ASSUME NEW c \in Caller, NewStoreStep(c)
        PROVE  OwnerInv'
    <2> SUFFICES ASSUME NEW t \in Slot, solt'[t].used
                 PROVE  \E d \in Caller : Owns(d, t)'
      BY DEF OwnerInv
    <2>0. /\ posted' = posted /\ local' = local /\ at[c] = "new_store"
          /\ at'[c] \in {"new", "check"}
      BY <1>3 DEF NewStoreStep
    <2>1. posted[c] = <<>>
      BY <2>0, ActorFacts DEF OnceInv, Arming, ShapeInv, RoleInv, RoleOf
    <2>2. \A d \in Caller : d # c => at'[d] = at[d]
      BY <1>3, ActorFacts DEF NewStoreStep, ActorStep
    <2>3. CASE t = local[c].idx
      <3>1. Owns(c, t)'
        BY <1>3, <2>0, <2>1, <2>3 DEF Owns, NewStoreStep
      <3> QED BY <3>1
    <2>4. CASE t # local[c].idx
      <3>1. solt'[t] = solt[t]
        BY <1>3, <2>4 DEF NewStoreStep, SoltStep
      <3>2. PICK d \in Caller : Owns(d, t)
        BY <3>1 DEF OwnerInv
      <3>3. Owns(d, t)'
        BY <2>0, <2>2, <2>4, <3>1, <3>2 DEF Owns
      <3> QED BY <3>3
    <2> QED BY <2>3, <2>4
  <1>4. ASSUME NEW c \in Caller, SetsoltStep(c)
        PROVE  OwnerInv'
    <2> SUFFICES ASSUME NEW t \in Slot, solt'[t].used
                 PROVE  \E d \in Caller : Owns(d, t)'
      BY DEF OwnerInv
    <2>1. solt'[t].fp = solt[t].fp /\ solt[t].used /\ posted' = posted
      BY <1>4 DEF SetsoltStep, SoltStep, SameFp, SameUse
    <2>a. ActorStep(c) /\ at'[c] = "send" /\ at[c] = "locked"
      BY <1>4 DEF SetsoltStep
    <2>2. \A d \in Caller : at'[d] = at[d] \/ (at'[d] = "send" /\ at[d] = "locked")
      BY <2>a, ActorFacts DEF ActorStep
    <2>3. local' = local
      BY <1>4 DEF SetsoltStep
    <2>8. PICK d \in Caller : Owns(d, t)
      BY <2>1 DEF OwnerInv
    <2>9. Owns(d, t)'
      BY <2>1, <2>2, <2>3, <2>8 DEF Owns
    <2> QED BY <2>9
  <1>5. ASSUME NEW c \in Caller, SendStep(c)
        PROVE  OwnerInv'
    <2> SUFFICES ASSUME NEW t \in Slot, solt'[t].used
                 PROVE  \E d \in Caller : Owns(d, t)'
      BY DEF OwnerInv
    <2>1. solt' = solt /\ solt[t].used /\ posted' = posted
      BY <1>5 DEF SendStep
    <2>2. \A d \in Caller : /\ local'[d].idx = local[d].idx /\ local'[d].fp = local[d].fp
                            /\ \/ at'[d] = at[d]
                               \/ at'[d] \in {"wait", "check"} /\ at[d] = "send"
      BY <1>5, ActorFacts DEF SendStep, ActorStep, SameIdx
    <2>8. PICK d \in Caller : Owns(d, t)
      BY <2>1 DEF OwnerInv
    <2>9. Owns(d, t)'
      BY <2>1, <2>2, <2>8 DEF Owns
    <2> QED BY <2>9
  <1>6. ASSUME NEW c \in Caller, FreeCallStep(c)
        PROVE  OwnerInv'
    <2> SUFFICES ASSUME NEW t \in Slot, solt'[t].used
                 PROVE  \E d \in Caller : Owns(d, t)'
      BY DEF OwnerInv
    <2>1. solt'[t] = solt[t] /\ solt[t].used /\ posted' = posted /\ local' = local
          /\ t # local[c].idx
      BY <1>6 DEF FreeCallStep, FreeStep, SoltStep
    <2>2. \A d \in Caller : d # c => at'[d] = at[d]
      BY <1>6, ActorFacts DEF FreeCallStep, ActorStep
    <2>8. PICK d \in Caller : Owns(d, t)
      BY <2>1 DEF OwnerInv
    <2>9. Owns(d, t)'
      BY <2>1, <2>2, <2>8 DEF Owns
    <2> QED BY <2>9
  <1>7. ASSUME NEW c \in Caller, WaitReturnStep(c)
        PROVE  OwnerInv'
    <2> SUFFICES ASSUME NEW t \in Slot, solt'[t].used
                 PROVE  \E d \in Caller : Owns(d, t)'
      BY DEF OwnerInv
    <2>1. solt' = solt /\ solt[t].used /\ posted' = posted /\ local' = local
          /\ posted[c] # <<>>
      BY <1>7 DEF WaitReturnStep
    <2>2. \A d \in Caller : d # c => at'[d] = at[d]
      BY <1>7, ActorFacts DEF WaitReturnStep, ActorStep
    <2>8. PICK d \in Caller : Owns(d, t)
      BY <2>1 DEF OwnerInv
    <2>9. Owns(d, t)'
      BY <2>1, <2>2, <2>8 DEF Owns
    <2> QED BY <2>9
  <1>8. ASSUME NEW a \in Caller \cup Poster, LockingStep(a)
        PROVE  OwnerInv'
    BY <1>8, ActorFacts DEF LockingStep, OwnerInv, Owns, OnceInv, Arming, ShapeInv, TypeInv, SoltStep, ActorStep, FreeStep, PostStep, SameSlot, SameCall, SameIdx, SameArm, SameFp, SameUse
  <1>9. ASSUME NEW p \in Poster, ReplyStep(p)
        PROVE  OwnerInv'
    <2> SUFFICES ASSUME NEW t \in Slot, solt'[t].used
                 PROVE  \E d \in Caller : Owns(d, t)'
      BY DEF OwnerInv
    <2>1. solt' = solt /\ solt[t].used /\ posted' = posted
      BY <1>9 DEF ReplyStep
    <2>2. \A d \in Caller : at'[d] = at[d] /\ local'[d] = local[d]
      BY <1>9, ActorFacts, OthersStay DEF ReplyStep, CallersStay
    <2>8. PICK d \in Caller : Owns(d, t)
      BY <2>1 DEF OwnerInv
    <2>9. Owns(d, t)'
      BY <2>1, <2>2, <2>8 DEF Owns
    <2> QED BY <2>9
  <1>10. ASSUME NEW p \in Poster, PostingStep(p)
         PROVE  OwnerInv'
    <2>1. local[p].idx \in Slot /\ local[p].call \in AnswerOf /\ CallersStay
      BY <1>10, ActorFacts, OthersStay
         DEF PostingStep, ShapeInv, TypeInv, LocalType, AnswerOf, RoleInv, RoleOf
    <2> QED BY <1>10, <2>1, EndOwner DEF PostingStep
  <1>11. ASSUME ScanningStep
         PROVE  OwnerInv'
    <2>1. CallersStay /\ posted' = posted
      BY <1>11, ActorFacts, OthersStay DEF ScanningStep
    <2>2. \A t \in Slot : solt'[t].used = solt[t].used /\ solt'[t].fp = solt[t].fp
      BY <1>11 DEF ScanningStep, SoltStep, SameFp, SameUse
    <2> QED BY <2>1, <2>2 DEF OwnerInv, Owns, CallersStay
  <1>12. ASSUME CheckingStep
         PROVE  OwnerInv'
    <2>1. local[Scanner].idx \in Slot /\ <<"ETIMEDOUT">> \in AnswerOf /\ CallersStay
      BY <1>12, ActorFacts, OthersStay
         DEF CheckingStep, ShapeInv, TypeInv, LocalType, AnswerOf, RoleInv, RoleOf
    <2> QED BY <1>12, <2>1, EndOwner, TouchSlot DEF CheckingStep
  <1>13. ASSUME NEW r \in Resetter, ResetStartStep(r)
         PROVE  OwnerInv'
    <2>1. CallersStay
      BY <1>13, ActorFacts, OthersStay DEF ResetStartStep
    <2>2. solt' = solt /\ posted' = posted
      BY <1>13 DEF ResetStartStep
    <2> QED BY <2>1, <2>2 DEF OwnerInv, Owns, CallersStay
  <1>14. ASSUME NEW r \in Resetter, ResettingStep(r)
         PROVE  OwnerInv'
    <2>1. local[r].idx \in Slot /\ <<"ECONNRESET">> \in AnswerOf /\ CallersStay
      BY <1>14, ActorFacts, OthersStay DEF ResettingStep, ShapeInv, TypeInv, LocalType, AnswerOf
    <2>2. CASE solt' = solt /\ posted' = posted
      BY <2>1, <2>2 DEF OwnerInv, Owns, CallersStay
    <2>3. CASE ~(solt' = solt /\ posted' = posted)
      BY <1>14, <2>1, <2>3, EndOwner, TouchSlot DEF ResettingStep
    <2> QED BY <2>2, <2>3
  <1>15. CASE UNCHANGED vars
    BY <1>15 DEF vars, OwnerInv, Owns
  <1> QED
    BY <1>1, <1>2, <1>3, <1>4, <1>5, <1>6, <1>7, <1>8, <1>9, <1>10, <1>11, <1>12, <1>13,
       <1>14, <1>15, StepCases DEF AnyStep

LEMMA TableInit == Init => TableInv
PROOF
  <1> SUFFICES ASSUME Init
               PROVE  TableInv
    OBVIOUS
  <1>1. /\ \A c \in Caller : c \in Actor /\ at[c] = "idle" /\ local[c].call = NoCall
        /\ \A s \in Slot : ~solt[s].used /\ solt[s].arg = NoCall
        /\ posted = [c \in Caller |-> <<>>]
    BY ActorFacts DEF Init
  <1>2. ShapeInv
    <2>1. use.slots \in 1..SlotMax /\ use \in Uses
      BY UseFacts DEF Init
    <2>2. 0 \in Fp /\ 0 \in Slot
      BY <2>1, RpcTableAssumption DEF Fp, Slot
    <2>3. solt \in [Slot -> SlotType]
      BY <2>2 DEF Init, SlotType
    <2>4. local \in [Actor -> LocalType]
      BY <2>2 DEF Init, LocalType
    <2>5. at \in [Actor -> Where] /\ wire \subseteq [idx : Slot, fp : Fp, call : Call]
          /\ calls \in Nat /\ sequence \in Fp
      BY DEF Init, Where, Fp
    <2>6. posted \in [Caller -> Seq(AnswerOf)]
      BY <1>1
    <2>7. RoleInv
      BY <2>1 DEF RoleInv, RoleOf, Init
    <2> QED BY <2>1, <2>3, <2>4, <2>5, <2>6, <2>7 DEF ShapeInv, TypeInv
  <1>3. NumberInv
    BY <1>1 DEF NumberInv
  <1>4. OnceInv
    BY <1>1 DEF OnceInv, Arming, EndedOnce
  <1>5. OwnerInv
    BY <1>1 DEF OwnerInv
  <1> QED BY <1>2, <1>3, <1>4, <1>5 DEF TableInv

LEMMA TableNext == TableInv /\ [Next]_vars => TableInv'
  BY ShapeNext, NumberNext, OnceNext, OwnerNext DEF TableInv

LEMMA TableAlways == Spec => []TableInv
  BY TableInit, TableNext, PTL DEF Spec

(* No call is ended twice (rpc_table_post, __rpc_table_check,              *)
(* __rpc_table_reset and rpc_table_free meeting at a slot), on a core's    *)
(* table and on that of all threads.                                       *)
THEOREM RpcEndedOnce == Spec => []EndedOnce
  <1>1. TableInv => EndedOnce
    BY DEF TableInv, OnceInv
  <1> QED BY <1>1, TableAlways, PTL

(* A slot in use always belongs to a call that has not returned, on both   *)
(* kinds of table: whoever loses a race for a slot leaves it to somebody   *)
(* that will free it.                                                      *)
THEOREM RpcNoLeakedSlot == Spec => []NoLeakedSlot
  <1>1. TableInv => NoLeakedSlot
    BY DEF TableInv, OwnerInv, Owns, NoLeakedSlot
  <1> QED BY <1>1, TableAlways, PTL

(***************************************************************************)
(* On a core's table nobody is interrupted inside an operation.            *)
(***************************************************************************)
Alone ==
  \A a, b \in Actor : a # b => at[a] \in {"idle", "wait"} \/ at[b] \in {"idle", "wait"}

SlotOk(s) ==
  /\ ~solt[s].used => solt[s].arg = NoCall
  /\ solt[s].timeout => solt[s].used

(* The caller's slot is armed for its call.                                *)
Armed(c) ==
  LET s == local[c].idx
  IN  solt[s].used /\ solt[s].fp = local[c].fp /\ solt[s].arg = local[c].call

Freeing(c) == at[c] \in {"check", "lock", "locked"} /\ local[c].op = "free"

CallerOk(c) ==
  /\ at[c] # "estale"
  /\ Arming(c) =>
       /\ solt[local[c].idx].used /\ solt[local[c].idx].arg = NoCall
       /\ at[c] \in {"check", "lock", "locked"} => solt[local[c].idx].fp = local[c].fp
  /\ at[c] = "send" \/ Freeing(c) => posted[c] = <<>>
  /\ at[c] \in {"send", "wait"} \/ Freeing(c) => posted[c] # <<>> \/ Armed(c)

ActorOk(a) ==
  /\ at[a] = "locked" => solt[local[a].idx].used
  /\ a \in Poster /\ at[a] \in {"lock", "locked"} => solt[local[a].idx].fp = local[a].fp

CoreInv ==
  /\ Alone
  /\ wrong = "no"
  /\ \A s \in Slot : SlotOk(s)
  /\ \A c \in Caller : CallerOk(c)
  /\ \A a \in Actor : ActorOk(a)

SlotKept(s) ==
  /\ solt'[s].used = solt[s].used /\ solt'[s].fp = solt[s].fp
  /\ solt'[s].arg = solt[s].arg

(* What is left to show of a step by one actor.                            *)
LEMMA CoreStep ==
  ASSUME ShapeInv, CoreInv, ~use.shared, NEW a \in Actor, ActorStep(a), Turn(a),
         wrong' = "no", ActorOk(a)', a \in Caller => CallerOk(a)',
         \A s \in Slot : SlotOk(s)',
         \A d \in Caller : d # a /\ at[d] = "wait" /\ posted'[d] = <<>> =>
            posted[d] = <<>> /\ (Armed(d) => SlotKept(local[d].idx))
  PROVE  CoreInv'
PROOF
  <1>1. \A b \in Actor : b # a => at[b] \in {"idle", "wait"} /\ at'[b] = at[b] /\ local'[b] = local[b]
    BY DEF Turn, ActorStep
  <1>2. Alone'
    BY <1>1 DEF Alone
  <1>3. \A b \in Actor : ActorOk(b)'
    BY <1>1 DEF ActorOk
  <1>4. ASSUME NEW d \in Caller, d # a
        PROVE  CallerOk(d)'
    <2>1. /\ at[d] \in {"idle", "wait"} /\ at'[d] = at[d] /\ local'[d] = local[d]
          /\ CallerOk(d)
      BY <1>1, <1>4, ActorFacts DEF CoreInv
    <2>2. at[d] = "wait" => posted'[d] # <<>> \/ Armed(d)'
      BY <1>4, <2>1 DEF CallerOk, Armed, SlotKept
    <2> QED BY <2>1, <2>2 DEF CallerOk, Arming, Freeing
  <1>5. \A d \in Caller : CallerOk(d)'
    BY <1>4
  <1> QED BY <1>2, <1>3, <1>5 DEF CoreInv

(* A slot is used by at most one of the calls.                             *)
LEMMA ArmedApart ==
  ASSUME ShapeInv, NumberInv, NEW c \in Caller, NEW d \in Caller, d # c,
         local[d].call \in Call, Armed(d)
  PROVE  /\ local[d].call # local[c].call /\ solt[local[d].idx].arg # NoCall
         /\ Armed(c) => local[d].idx # local[c].idx
  BY NoCallIsNone DEF NumberInv, Armed

(* The context that func is called on is that of a caller that waits.      *)
LEMMA CorePost ==
  ASSUME ShapeInv, NumberInv, OnceInv, OwnerInv, CoreInv, ~use.shared,
         NEW a \in Actor \ Caller, Turn(a), NEW s \in Slot, solt[s].used,
         NEW answer \in AnswerOf, PostStep(s, answer)
  PROVE  /\ wrong' = "no"
         /\ \E c \in Caller :
              /\ solt[s].arg = local[c].call /\ at[c] = "wait" /\ local[c].idx = s /\ Armed(c)
              /\ posted'[c] = <<answer>>
              /\ \A d \in Caller : d # c => posted'[d] = posted[d]
PROOF
  <1>1. PICK c \in Caller : Owns(c, s)
    BY DEF OwnerInv
  <1>2. at[c] = "wait" /\ posted[c] = <<>> /\ local[c].idx = s
    BY <1>1, ActorFacts DEF Owns, Turn
  <1>3. Armed(c) /\ solt[s].arg = local[c].call
    BY <1>2 DEF CoreInv, CallerOk, Armed
  <1>4. local[c].call \in Call /\ local[c].call[1] = c /\ local[c].call # NoCall
    BY <1>2, ActorFacts, NoCallIsNone DEF ShapeInv, RoleInv, RoleOf, NumberInv
  <1>5. Alive(solt[s].arg) /\ solt[s].arg # NoCall
    BY <1>2, <1>3, <1>4 DEF Alive
  <1>6. PICK e \in Caller :
             /\ solt[s].arg = local[e].call /\ wrong' = wrong
             /\ posted'[e] = Append(posted[e], answer)
             /\ \A d \in Caller : d # e => posted'[d] = posted[d]
    BY <1>5 DEF PostStep
  <1>7. e = c
    BY <1>3, <1>4, <1>6 DEF NumberInv
  <1>8. posted'[c] = <<answer>>
    BY <1>2, <1>6, <1>7
  <1> QED BY <1>2, <1>3, <1>6, <1>7, <1>8 DEF CoreInv

LEMMA CoreEnd ==
  ASSUME ShapeInv, NumberInv, OnceInv, OwnerInv, CoreInv, ~use.shared,
         NEW a \in Actor \ Caller, ActorStep(a), Turn(a), NEW s \in Slot, solt[s].used,
         NEW answer \in AnswerOf, FreeStep(s), PostStep(s, answer), ActorOk(a)'
  PROVE  CoreInv'
PROOF
  <1>1. PICK c \in Caller :
          /\ solt[s].arg = local[c].call /\ at[c] = "wait" /\ local[c].idx = s /\ Armed(c)
          /\ posted'[c] = <<answer>> /\ wrong' = "no"
          /\ \A d \in Caller : d # c => posted'[d] = posted[d]
    BY CorePost
  <1>2. \A t \in Slot : SlotOk(t)'
    BY DEF CoreInv, SlotOk, FreeStep, SoltStep
  <1>3. \A d \in Caller : d # a /\ at[d] = "wait" /\ posted'[d] = <<>> =>
            posted[d] = <<>> /\ (Armed(d) => SlotKept(local[d].idx))
    <2> SUFFICES ASSUME NEW d \in Caller, at[d] = "wait", posted'[d] = <<>>
                 PROVE  posted[d] = <<>> /\ (Armed(d) => SlotKept(local[d].idx))
      OBVIOUS
    <2>0. <<answer>> # <<>>
      OBVIOUS
    <2>1. d # c
      BY <1>1, <2>0
    <2>2. local[d].call \in Call /\ local[d].idx \in Slot
      BY ActorFacts DEF ShapeInv, TypeInv, LocalType, RoleInv, RoleOf
    <2>3. Armed(d) => local[d].idx # s
      BY <1>1, <2>1, <2>2, ArmedApart
    <2> QED BY <1>1, <2>1, <2>2, <2>3 DEF SlotKept, FreeStep, SoltStep
  <1> QED BY <1>1, <1>2, <1>3, CoreStep

LEMMA CoreNext ==
  ASSUME ShapeInv, NumberInv, OnceInv, OwnerInv, CoreInv, ~use.shared, [Next]_vars
  PROVE  CoreInv'
PROOF
  <1>1. ASSUME NEW c \in Caller, GetsoltStep(c)
        PROVE  CoreInv'
    <2>t. c \in Actor /\ local[c].idx \in Slot /\ CallerOk(c) /\ wrong = "no"
          /\ (\A s \in Slot : SlotOk(s))
      BY ActorFacts DEF ShapeInv, TypeInv, LocalType, CoreInv
    <2>w. \A d \in Caller : at[d] = "wait" => local[d].call \in Call
      BY ActorFacts DEF ShapeInv, RoleInv, RoleOf
    <2>0. /\ posted'[c] = <<>> /\ \A d \in Caller : d # c => posted'[d] = posted[d]
          /\ at[c] = "idle" /\ Turn(c) /\ wrong' = wrong
      BY <1>1 DEF GetsoltStep
    <2>1. CASE UNCHANGED <<solt, local, at>>
      <3>1. \A d \in Caller : CallerOk(d)'
        BY <2>0, <2>1 DEF CoreInv, CallerOk, Arming, Freeing, Armed
      <3> QED BY <2>0, <2>1, <3>1 DEF CoreInv, Alone, SlotOk, ActorOk
    <2>2. CASE ~UNCHANGED <<solt, local, at>>
      <3>1. PICK s \in Slot :
              /\ ~solt[s].used /\ SoltStep(s) /\ solt'[s].used /\ SameArm(s)
              /\ ActorStep(c) /\ at'[c] = "new" /\ local'[c].op = "set" /\ local'[c].idx = s
        BY <1>1, <2>2 DEF GetsoltStep
      <3>2. solt'[s].arg = NoCall
        BY <2>t, <3>1 DEF SameArm, SlotOk
      <3>3. CallerOk(c)' /\ ActorOk(c)'
        BY <3>1, <3>2 DEF CallerOk, Arming, Freeing, ActorOk
      <3>4. \A t \in Slot : SlotOk(t)'
        BY <2>t, <3>1 DEF SlotOk, SoltStep
      <3>5. \A d \in Caller : Armed(d) => SlotKept(local[d].idx)
        BY <3>1, ActorFacts DEF Armed, SlotKept, SoltStep, ShapeInv, TypeInv, LocalType
      <3> QED BY <2>0, <2>t, <3>1, <3>3, <3>4, <3>5, CoreStep
    <2> QED BY <2>1, <2>2
  <1>2. ASSUME NEW c \in Caller, NewLoadStep(c)
        PROVE  CoreInv'
    <2>t. c \in Actor /\ local[c].idx \in Slot /\ CallerOk(c) /\ wrong = "no"
          /\ (\A s \in Slot : SlotOk(s))
      BY ActorFacts DEF ShapeInv, TypeInv, LocalType, CoreInv
    <2>w. \A d \in Caller : at[d] = "wait" => local[d].call \in Call
      BY ActorFacts DEF ShapeInv, RoleInv, RoleOf
    <2>0. /\ solt' = solt /\ posted' = posted /\ wrong' = wrong /\ ActorStep(c) /\ Turn(c)
          /\ at[c] = "new" /\ at'[c] = "new_store" /\ SameCall(c) /\ SameIdx(c)
      BY <1>2 DEF NewLoadStep
    <2>1. CallerOk(c)' /\ ActorOk(c)'
      BY <2>0, <2>t DEF CallerOk, Arming, Freeing, ActorOk, SameCall, SameIdx
    <2>2. \A s \in Slot : SlotOk(s)' /\ SlotKept(s)
      BY <2>0, <2>t DEF SlotOk, SlotKept
    <2> QED BY <2>0, <2>t, <2>1, <2>2, CoreStep, ActorFacts DEF ShapeInv, TypeInv, LocalType
  <1>3. ASSUME NEW c \in Caller, NewStoreStep(c)
        PROVE  CoreInv'
    <2>t. c \in Actor /\ local[c].idx \in Slot /\ CallerOk(c) /\ wrong = "no"
          /\ (\A s \in Slot : SlotOk(s))
      BY ActorFacts DEF ShapeInv, TypeInv, LocalType, CoreInv
    <2>w. \A d \in Caller : at[d] = "wait" => local[d].call \in Call
      BY ActorFacts DEF ShapeInv, RoleInv, RoleOf
    <2>0. /\ posted' = posted /\ wrong' = wrong /\ ActorStep(c) /\ Turn(c)
          /\ at[c] = "new_store" /\ local' = local
      BY <1>3 DEF NewStoreStep
    <2>1. PICK s \in Slot : s = local[c].idx
      BY <2>t
    <2>2. Arming(c) /\ solt[s].used /\ solt[s].arg = NoCall
      BY <2>0, <2>t, <2>1, ActorFacts DEF Arming, ShapeInv, RoleInv, RoleOf, CallerOk
    <2>3. CASE at'[c] = "new" /\ solt' = solt
      <3>1. CallerOk(c)' /\ ActorOk(c)'
        BY <2>0, <2>t, <2>1, <2>2, <2>3 DEF CallerOk, Arming, Freeing, ActorOk
      <3>2. \A t \in Slot : SlotOk(t)' /\ SlotKept(t)
        BY <2>3, <2>t DEF SlotOk, SlotKept
      <3> QED BY <2>0, <2>t, <3>1, <3>2, CoreStep, ActorFacts DEF ShapeInv, TypeInv, LocalType
    <2>4. CASE ~(at'[c] = "new" /\ solt' = solt)
      <3>0. at'[c] = "check" /\ SoltStep(s) /\ SameArm(s) /\ SameUse(s) /\ solt'[s].fp = local[c].fp
        BY <1>3, <2>1, <2>4 DEF NewStoreStep
      <3>1. CallerOk(c)' /\ ActorOk(c)'
        BY <2>0, <2>1, <2>2, <3>0, ActorFacts
           DEF CallerOk, Arming, Freeing, ActorOk, SameArm, SameUse
      <3>2. \A t \in Slot : SlotOk(t)'
        BY <3>0, <2>t DEF SlotOk, SoltStep, SameArm, SameUse
      <3>3. \A d \in Caller : d # c /\ at[d] = "wait" /\ Armed(d) => SlotKept(local[d].idx)
        <4> SUFFICES ASSUME NEW d \in Caller, d # c, at[d] = "wait", Armed(d)
                     PROVE  SlotKept(local[d].idx)
          OBVIOUS
        <4>1. local[d].idx # s /\ local[d].idx \in Slot
          BY <2>w, <2>2, ArmedApart, ActorFacts DEF ShapeInv, TypeInv, LocalType
        <4> QED BY <3>0, <4>1 DEF SlotKept, SoltStep
      <3> QED BY <2>0, <2>t, <3>1, <3>2, <3>3, CoreStep
    <2> QED BY <2>3, <2>4
  <1>4. ASSUME NEW c \in Caller, SetsoltStep(c)
        PROVE  CoreInv'
    <2>t. c \in Actor /\ local[c].idx \in Slot /\ CallerOk(c) /\ wrong = "no"
          /\ (\A s \in Slot : SlotOk(s))
      BY ActorFacts DEF ShapeInv, TypeInv, LocalType, CoreInv
    <2>w. \A d \in Caller : at[d] = "wait" => local[d].call \in Call
      BY ActorFacts DEF ShapeInv, RoleInv, RoleOf
    <2>0. /\ posted' = posted /\ wrong' = wrong /\ ActorStep(c) /\ Turn(c) /\ local' = local
          /\ at[c] = "locked" /\ at'[c] = "send" /\ local[c].op = "set"
      BY <1>4 DEF SetsoltStep
    <2>1. PICK s \in Slot :
            /\ s = local[c].idx /\ SoltStep(s) /\ SameFp(s) /\ SameUse(s)
            /\ solt'[s].arg = local[c].call
      BY <1>4, <2>t DEF SetsoltStep
    <2>2. Arming(c) /\ solt[s].used /\ solt[s].arg = NoCall /\ solt[s].fp = local[c].fp
          /\ posted[c] = <<>>
      BY <2>0, <2>t, <2>1 DEF Arming, CallerOk, OnceInv
    <2>3. CallerOk(c)' /\ ActorOk(c)'
      BY <2>0, <2>1, <2>2 DEF CallerOk, Arming, Freeing, Armed, ActorOk, SameFp, SameUse
    <2>4. \A t \in Slot : SlotOk(t)'
      BY <2>1, <2>2, <2>t DEF SlotOk, SoltStep, SameUse
    <2>5. \A d \in Caller : d # c /\ at[d] = "wait" /\ Armed(d) => SlotKept(local[d].idx)
      <3> SUFFICES ASSUME NEW d \in Caller, d # c, at[d] = "wait", Armed(d)
                   PROVE  SlotKept(local[d].idx)
        OBVIOUS
      <3>1. local[d].idx # s /\ local[d].idx \in Slot
        BY <2>w, <2>2, ArmedApart, ActorFacts DEF ShapeInv, TypeInv, LocalType
      <3> QED BY <2>1, <3>1 DEF SlotKept, SoltStep
    <2> QED BY <2>0, <2>t, <2>3, <2>4, <2>5, CoreStep
  <1>5. ASSUME NEW c \in Caller, SendStep(c)
        PROVE  CoreInv'
    <2>t. c \in Actor /\ local[c].idx \in Slot /\ CallerOk(c) /\ wrong = "no"
          /\ (\A s \in Slot : SlotOk(s))
      BY ActorFacts DEF ShapeInv, TypeInv, LocalType, CoreInv
    <2>w. \A d \in Caller : at[d] = "wait" => local[d].call \in Call
      BY ActorFacts DEF ShapeInv, RoleInv, RoleOf
    <2>0. /\ solt' = solt /\ posted' = posted /\ wrong' = wrong /\ ActorStep(c) /\ Turn(c)
          /\ at[c] = "send" /\ SameIdx(c) /\ local'[c].call = local[c].call
          /\ local'[c].fp = local[c].fp
      BY <1>5 DEF SendStep
    <2>1. \/ at'[c] = "wait"
          \/ at'[c] = "check" /\ local'[c].op = "free"
      BY <1>5 DEF SendStep
    <2>2. posted[c] = <<>> /\ Armed(c)
      BY <2>0, <2>t DEF CallerOk
    <2>3. CallerOk(c)' /\ ActorOk(c)'
      BY <2>0, <2>1, <2>2, ActorFacts DEF CallerOk, Arming, Freeing, Armed, ActorOk, SameIdx
    <2>4. \A s \in Slot : SlotOk(s)' /\ SlotKept(s)
      BY <2>0, <2>t DEF SlotOk, SlotKept
    <2> QED BY <2>0, <2>t, <2>3, <2>4, CoreStep, ActorFacts DEF ShapeInv, TypeInv, LocalType
  <1>6. ASSUME NEW c \in Caller, FreeCallStep(c)
        PROVE  CoreInv'
    <2>t. c \in Actor /\ local[c].idx \in Slot /\ CallerOk(c) /\ wrong = "no"
          /\ (\A s \in Slot : SlotOk(s))
      BY ActorFacts DEF ShapeInv, TypeInv, LocalType, CoreInv
    <2>w. \A d \in Caller : at[d] = "wait" => local[d].call \in Call
      BY ActorFacts DEF ShapeInv, RoleInv, RoleOf
    <2>0. /\ posted' = posted /\ wrong' = wrong /\ ActorStep(c) /\ Turn(c) /\ local' = local
          /\ at[c] = "locked" /\ at'[c] = "idle" /\ local[c].op = "free"
          /\ FreeStep(local[c].idx)
      BY <1>6 DEF FreeCallStep
    <2>1. Armed(c)
      BY <2>0, <2>t DEF CallerOk, Freeing
    <2>2. CallerOk(c)' /\ ActorOk(c)'
      BY <2>0 DEF CallerOk, Arming, Freeing, ActorOk
    <2>3. \A t \in Slot : SlotOk(t)'
      BY <2>0, <2>t DEF SlotOk, FreeStep, SoltStep
    <2>4. \A d \in Caller : d # c /\ at[d] = "wait" /\ Armed(d) => SlotKept(local[d].idx)
      <3> SUFFICES ASSUME NEW d \in Caller, d # c, at[d] = "wait", Armed(d)
                   PROVE  SlotKept(local[d].idx)
        OBVIOUS
      <3>1. local[d].idx # local[c].idx /\ local[d].idx \in Slot
        BY <2>w, <2>1, ArmedApart, ActorFacts DEF ShapeInv, TypeInv, LocalType
      <3> QED BY <2>0, <3>1 DEF SlotKept, FreeStep, SoltStep
    <2> QED BY <2>0, <2>t, <2>2, <2>3, <2>4, CoreStep
  <1>7. ASSUME NEW c \in Caller, WaitReturnStep(c)
        PROVE  CoreInv'
    <2>t. c \in Actor /\ local[c].idx \in Slot /\ CallerOk(c) /\ wrong = "no"
          /\ (\A s \in Slot : SlotOk(s))
      BY ActorFacts DEF ShapeInv, TypeInv, LocalType, CoreInv
    <2>w. \A d \in Caller : at[d] = "wait" => local[d].call \in Call
      BY ActorFacts DEF ShapeInv, RoleInv, RoleOf
    <2>0. /\ solt' = solt /\ posted' = posted /\ wrong' = wrong /\ ActorStep(c) /\ Turn(c)
          /\ at'[c] = "idle"
      BY <1>7 DEF WaitReturnStep
    <2>1. CallerOk(c)' /\ ActorOk(c)'
      BY <2>0 DEF CallerOk, Arming, Freeing, ActorOk
    <2>2. \A s \in Slot : SlotOk(s)' /\ SlotKept(s)
      BY <2>0, <2>t DEF SlotOk, SlotKept
    <2> QED BY <2>0, <2>t, <2>1, <2>2, CoreStep, ActorFacts DEF ShapeInv, TypeInv, LocalType
  <1>8. ASSUME NEW a \in Caller \cup Poster, LockingStep(a)
        PROVE  CoreInv'
    <2>t. /\ a \in Actor /\ local[a].idx \in Slot /\ wrong = "no" /\ ActorOk(a)
          /\ (a \in Caller => CallerOk(a)) /\ \A s \in Slot : SlotOk(s)
      BY ActorFacts DEF ShapeInv, TypeInv, LocalType, CoreInv
    <2>0. /\ posted' = posted /\ ActorStep(a) /\ Turn(a) /\ local' = local
      BY <1>8 DEF LockingStep
    <2>r. /\ a \in Caller /\ at[a] # "idle" => local[a].op \in {"set", "free"}
          /\ a \in Poster /\ at[a] # "idle" => local[a].op = "post"
          /\ a \in Caller <=> a \notin Poster
      BY <2>t, ActorFacts DEF ShapeInv, RoleInv, RoleOf
    <2>1. PICK s \in Slot : s = local[a].idx
      BY <2>t
    <2>2. at[a] \in {"check", "lock"} /\ a \in Caller => solt[s].used /\ solt[s].fp = local[a].fp
      BY <2>t, <2>r, <2>1 DEF CallerOk, Arming, Freeing, Armed
    <2>3. \A t \in Slot : SlotOk(t)' /\ SlotKept(t)
      BY <1>8, <2>t, <2>1 DEF LockingStep, SlotOk, SlotKept, SoltStep, SameArm, SameUse, SameFp
    <2>4. wrong' = "no"
      BY <1>8, <2>t, <2>r DEF LockingStep, CallerOk
    <2>5. ActorOk(a)'
      BY <1>8, <2>t, <2>0, <2>1, <2>2, <2>3 DEF LockingStep, ActorOk, SlotKept
    <2>6. a \in Caller => CallerOk(a)'
      <3> SUFFICES ASSUME a \in Caller
                   PROVE  CallerOk(a)'
        OBVIOUS
      <3>1. \/ at[a] = "check" /\ at'[a] = "lock"
            \/ at[a] = "lock" /\ at'[a] = "locked"
        BY <1>8, <2>t, <2>1, <2>2 DEF LockingStep, CallerOk
      <3>2. SlotKept(s)
        BY <2>3
      <3> QED BY <2>0, <2>t, <2>r, <2>1, <3>1, <3>2
              DEF CallerOk, Arming, Freeing, Armed, SlotKept
    <2> QED BY <2>0, <2>t, <2>3, <2>4, <2>5, <2>6, CoreStep, ActorFacts
            DEF ShapeInv, TypeInv, LocalType
  <1>9. ASSUME NEW p \in Poster, ReplyStep(p)
        PROVE  CoreInv'
    <2>t. /\ p \in Actor \ Caller /\ local[p].idx \in Slot /\ wrong = "no" /\ ActorOk(p)
          /\ \A s \in Slot : SlotOk(s)
      BY ActorFacts DEF ShapeInv, TypeInv, LocalType, CoreInv
    <2>0. /\ solt' = solt /\ posted' = posted /\ wrong' = wrong /\ ActorStep(p) /\ Turn(p)
          /\ at'[p] = "check"
      BY <1>9 DEF ReplyStep
    <2>1. ActorOk(p)'
      BY <2>0 DEF ActorOk
    <2>2. \A s \in Slot : SlotOk(s)' /\ SlotKept(s)
      BY <2>0, <2>t DEF SlotOk, SlotKept
    <2> QED BY <2>0, <2>t, <2>1, <2>2, CoreStep, ActorFacts DEF ShapeInv, TypeInv, LocalType
  <1>10. ASSUME NEW p \in Poster, PostingStep(p)
         PROVE  CoreInv'
    <2>t. /\ p \in Actor \ Caller /\ local[p].idx \in Slot /\ wrong = "no" /\ ActorOk(p)
          /\ \A s \in Slot : SlotOk(s)
      BY ActorFacts DEF ShapeInv, TypeInv, LocalType, CoreInv
    <2>0. /\ ActorStep(p) /\ Turn(p) /\ at[p] = "locked" /\ at'[p] = "idle"
          /\ FreeStep(local[p].idx) /\ PostStep(local[p].idx, local[p].call)
      BY <1>10 DEF PostingStep
    <2>1. solt[local[p].idx].used /\ local[p].call \in AnswerOf
      BY <2>0, <2>t, ActorFacts DEF ActorOk, ShapeInv, RoleInv, RoleOf, AnswerOf
    <2>2. ActorOk(p)'
      BY <2>0 DEF ActorOk
    <2> QED BY <2>0, <2>t, <2>1, <2>2, CoreEnd
  <1>11. ASSUME ScanningStep
         PROVE  CoreInv'
    <2>t. /\ Scanner \in Actor \ Caller /\ local[Scanner].idx \in Slot /\ wrong = "no" /\ ActorOk(Scanner)
          /\ \A s \in Slot : SlotOk(s)
      BY ActorFacts DEF ShapeInv, TypeInv, LocalType, CoreInv
    <2>0. /\ posted' = posted /\ wrong' = wrong /\ ActorStep(Scanner) /\ Turn(Scanner)
      BY <1>11 DEF ScanningStep
    <2>1. PICK s \in Slot : /\ solt[s].used /\ local'[Scanner].idx = s
                            /\ SoltStep(s) /\ SameArm(s) /\ SameFp(s) /\ SameUse(s)
      BY <1>11 DEF ScanningStep
    <2>2. \A t \in Slot : SlotOk(t)' /\ SlotKept(t)
      BY <2>1, <2>t DEF SlotOk, SlotKept, SoltStep, SameArm, SameFp, SameUse
    <2>3. ActorOk(Scanner)'
      BY <2>1, ActorFacts DEF ActorOk, SameUse
    <2> QED BY <2>0, <2>t, <2>2, <2>3, CoreStep, ActorFacts DEF ShapeInv, TypeInv, LocalType
  <1>12. ASSUME CheckingStep
         PROVE  CoreInv'
    <2>t. /\ Scanner \in Actor \ Caller /\ local[Scanner].idx \in Slot /\ wrong = "no" /\ ActorOk(Scanner)
          /\ \A s \in Slot : SlotOk(s)
      BY ActorFacts DEF ShapeInv, TypeInv, LocalType, CoreInv
    <2>0. /\ ActorStep(Scanner) /\ Turn(Scanner) /\ at[Scanner] = "locked"
          /\ at'[Scanner] = "idle"
      BY <1>12 DEF CheckingStep
    <2>1. solt[local[Scanner].idx].used /\ <<"ETIMEDOUT">> \in AnswerOf
      BY <2>0, <2>t DEF ActorOk, AnswerOf
    <2>2. ActorOk(Scanner)'
      BY <2>0 DEF ActorOk
    <2>3. CASE FreeStep(local[Scanner].idx) /\ PostStep(local[Scanner].idx, <<"ETIMEDOUT">>)
      BY <2>0, <2>t, <2>1, <2>2, <2>3, CoreEnd
    <2>4. CASE ~(FreeStep(local[Scanner].idx) /\ PostStep(local[Scanner].idx, <<"ETIMEDOUT">>))
      <3>1. PICK s \in Slot : /\ SoltStep(s) /\ SameArm(s) /\ SameFp(s) /\ SameUse(s)
                              /\ posted' = posted /\ wrong' = wrong
        BY <1>12, <2>t, <2>4 DEF CheckingStep
      <3>2. \A t \in Slot : SlotOk(t)' /\ SlotKept(t)
        BY <3>1, <2>t DEF SlotOk, SlotKept, SoltStep, SameArm, SameFp, SameUse
      <3> QED BY <2>0, <2>t, <2>2, <3>1, <3>2, CoreStep, ActorFacts DEF ShapeInv, TypeInv, LocalType
    <2> QED BY <2>3, <2>4
  <1>13. ASSUME NEW r \in Resetter, ResetStartStep(r)
         PROVE  CoreInv'
    <2>t. /\ r \in Actor \ Caller /\ local[r].idx \in Slot /\ wrong = "no" /\ ActorOk(r)
          /\ \A s \in Slot : SlotOk(s)
      BY ActorFacts DEF ShapeInv, TypeInv, LocalType, CoreInv
    <2>0. /\ solt' = solt /\ posted' = posted /\ wrong' = wrong /\ ActorStep(r) /\ Turn(r)
          /\ at'[r] = "visit"
      BY <1>13 DEF ResetStartStep
    <2>1. ActorOk(r)'
      BY <2>0 DEF ActorOk
    <2>2. \A s \in Slot : SlotOk(s)' /\ SlotKept(s)
      BY <2>0, <2>t DEF SlotOk, SlotKept
    <2> QED BY <2>0, <2>t, <2>1, <2>2, CoreStep, ActorFacts DEF ShapeInv, TypeInv, LocalType
  <1>14. ASSUME NEW r \in Resetter, ResettingStep(r)
         PROVE  CoreInv'
    <2>t. /\ r \in Actor \ Caller /\ local[r].idx \in Slot /\ wrong = "no" /\ ActorOk(r)
          /\ \A s \in Slot : SlotOk(s)
      BY ActorFacts DEF ShapeInv, TypeInv, LocalType, CoreInv
    <2>0. ActorStep(r) /\ Turn(r)
      BY <1>14 DEF ResettingStep
    <2>1. at[r] = "locked" => solt[local[r].idx].used
      BY <2>t DEF ActorOk
    <2>3. CASE /\ FreeStep(local[r].idx) /\ PostStep(local[r].idx, <<"ECONNRESET">>)
               /\ at'[r] \in {"idle", "visit"} /\ at[r] = "locked"
      <3>1. ActorOk(r)' /\ <<"ECONNRESET">> \in AnswerOf
        BY <2>3 DEF ActorOk, AnswerOf
      <3> QED BY <2>0, <2>t, <2>1, <2>3, <3>1, CoreEnd
    <2>4. CASE ~(/\ FreeStep(local[r].idx) /\ PostStep(local[r].idx, <<"ECONNRESET">>)
                 /\ at'[r] \in {"idle", "visit"} /\ at[r] = "locked")
      <3>1. /\ posted' = posted /\ wrong' = wrong
            /\ \/ solt' = solt
               \/ /\ SoltStep(local[r].idx) /\ SameArm(local[r].idx) /\ SameFp(local[r].idx)
                  /\ SameUse(local[r].idx)
            /\ \/ at'[r] \in {"idle", "visit"}
               \/ solt[local[r].idx].used /\ local' = local
        BY <1>14, <2>4 DEF ResettingStep
      <3>2. \A t \in Slot : SlotOk(t)' /\ SlotKept(t)
        BY <3>1, <2>t DEF SlotOk, SlotKept, SoltStep, SameArm, SameFp, SameUse
      <3>3. ActorOk(r)'
        BY <2>t, <3>1, <3>2, ActorFacts DEF ActorOk, SlotKept
      <3> QED BY <2>0, <2>t, <3>1, <3>2, <3>3, CoreStep, ActorFacts DEF ShapeInv, TypeInv, LocalType
    <2> QED BY <2>3, <2>4
  <1>15. CASE UNCHANGED vars
    BY <1>15 DEF vars, CoreInv, Alone, SlotOk, CallerOk, ActorOk, Arming, Freeing, Armed
  <1> QED
    BY <1>1, <1>2, <1>3, <1>4, <1>5, <1>6, <1>7, <1>8, <1>9, <1>10, <1>11, <1>12, <1>13,
       <1>14, <1>15, StepCases DEF AnyStep

LEMMA UseNever ==
  ASSUME ShapeInv, [Next]_vars
  PROVE  use' = use
  BY StepCases DEF AnyStep, GetsoltStep, NewLoadStep, NewStoreStep, SetsoltStep, SendStep,
     FreeCallStep, WaitReturnStep, LockingStep, ReplyStep, PostingStep, ScanningStep,
     CheckingStep, ResetStartStep, ResettingStep, vars

CoreTableInv == TableInv /\ (~use.shared => CoreInv)

LEMMA CoreInit ==
  ASSUME Init
  PROVE  CoreTableInv
PROOF
  <1>1. TableInv
    BY TableInit
  <1>2. \A a \in Actor : at[a] = "idle"
    BY DEF Init
  <1>3. \A s \in Slot : ~solt[s].used /\ solt[s].arg = NoCall /\ ~solt[s].timeout
    BY DEF Init
  <1>4. CoreInv
    BY <1>2, <1>3, ActorFacts
       DEF CoreInv, Alone, SlotOk, CallerOk, ActorOk, Arming, Freeing, Armed, Init
  <1> QED BY <1>1, <1>4 DEF CoreTableInv

LEMMA CoreAlways == Spec => []CoreTableInv
PROOF
  <1>1. Init => CoreTableInv
    BY CoreInit
  <1>2. CoreTableInv /\ [Next]_vars => CoreTableInv'
    BY TableNext, CoreNext, UseNever DEF CoreTableInv, TableInv
  <1> QED BY <1>1, <1>2, PTL DEF Spec

(* On a core's table the callback of a slot is never NULL, never runs on   *)
(* the context of a call that has returned, and rpc_table_setsolt never    *)
(* fails.                                                                  *)
THEOREM RpcContextsSafe == Spec => []ContextsSafe
  <1>1. CoreTableInv => ContextsSafe
    BY DEF CoreTableInv, CoreInv, ContextsSafe
  <1> QED BY <1>1, CoreAlways, PTL

(***************************************************************************)
(* A core's answers are its own, as long as the fingerprints have not gone *)
(* round: a call takes the next one, and skips at most the 0 that a slot   *)
(* remembers from the start.                                               *)
(***************************************************************************)

(* How many fingerprints ago x was given out, when q is the last one.      *)
Age(q, x) == IF x <= q THEN q - x ELSE q + Modulus - x

(* The actors that carry the fingerprint of a call.                        *)
Holds(c) == at[c] \in {"check", "lock", "locked", "send", "wait"}
Answers(p) == at[p] \in {"check", "lock", "locked"}

(* The last t fingerprints are the ones that were given out, one for each  *)
(* call, and the 0 when it was skipped.                                    *)
Given(t, q, n) == t <= IF Age(q, 0) < t THEN n + 1 ELSE n

AgeInv(t) ==
  /\ \A m \in wire : Age(sequence, m.fp) < t
  /\ \A p \in Poster : Answers(p) => Age(sequence, local[p].fp) < t
  /\ \A c \in Caller : Holds(c) => Age(sequence, local[c].fp) < t
  /\ \A s \in Slot : solt[s].fp = 0 \/ Age(sequence, solt[s].fp) < t
  /\ \A s \in Slot : solt[s].prev = 0 \/ Age(sequence, solt[s].prev) < t
  /\ \A c \in Caller : at[c] = "new_store" => local[c].fp = (sequence + 1) % Modulus
  /\ Given(t, sequence, calls)
  /\ \A c \in Caller : at[c] \in {"new", "new_store"} => Given(t, sequence, calls - 1)

UniqueInv ==
  \A c \in Caller : Holds(c) =>
     /\ \A m \in wire : m.fp = local[c].fp => m.call = local[c].call
     /\ \A p \in Poster : Answers(p) /\ local[p].fp = local[c].fp =>
                            local[p].call = local[c].call
     /\ \A d \in Caller : d # c /\ Holds(d) => local[d].fp # local[c].fp

LEMMA NextFp ==
  ASSUME NEW q \in Fp
  PROVE  (q + 1) % Modulus = IF q + 1 = Modulus THEN 0 ELSE q + 1
  <1>1. Modulus \in Nat \ {0} /\ q \in Nat /\ q + 1 <= Modulus
    BY RpcTableAssumption DEF Fp
  <1>2. CASE q + 1 = Modulus
    BY <1>1, <1>2
  <1>3. CASE q + 1 < Modulus
    BY <1>1, <1>3
  <1> QED BY <1>1, <1>2, <1>3

(* The next fingerprint is not one of the last t, which grow by it.        *)
LEMMA AgeStep ==
  ASSUME NEW q \in Fp, NEW t \in Nat, t < Modulus, NEW r \in Fp, r = (q + 1) % Modulus
  PROVE  /\ \A x \in Fp : Age(q, x) < t => x # r /\ Age(r, x) < t + 1
         /\ Age(r, r) < t + 1
  BY NextFp, RpcTableAssumption DEF Age, Fp

LEMMA AgeOld ==
  ASSUME NEW q \in Fp, NEW t \in Nat, t < Modulus, NEW r \in Fp, r = (q + 1) % Modulus,
         NEW n \in Int
  PROVE  /\ Given(t, q, n - 1) => Given(t + 1, r, n)
         /\ Given(t, q, n - 1) /\ r = 0 => Given(t + 1, r, n - 1)
  BY NextFp, RpcTableAssumption DEF Age, Fp, Given


LEMMA GivenMore ==
  ASSUME NEW q \in Fp, NEW t \in Nat, NEW n \in Int, Given(t, q, n)
  PROVE  Given(t, q, n + 1) /\ Given(t, q, (n + 1) - 1)
  BY RpcTableAssumption DEF Given, Age, Fp

LEMMA AgeNext ==
  ASSUME ShapeInv, NumberInv, CoreInv, ~use.shared, NEW t \in Nat, calls < Modulus, AgeInv(t), [Next]_vars
  PROVE  \E u \in Nat : AgeInv(u)'
PROOF
  <1>1. ASSUME NEW c \in Caller, GetsoltStep(c)
        PROVE  \E u \in Nat : AgeInv(u)'
    <2>0. /\ at[c] = "idle" /\ Turn(c) /\ calls' = calls + 1 /\ sequence' = sequence
          /\ wire' = wire
      BY <1>1 DEF GetsoltStep
    <2>1. \/ UNCHANGED <<solt, local, at>>
          \/ ActorStep(c) /\ at'[c] = "new"
      BY <1>1 DEF GetsoltStep
    <2>2. \A b \in Actor : b # c => at[b] \in {"idle", "wait"} /\ at'[b] = at[b] /\ local'[b] = local[b]
      BY <2>0, <2>1 DEF Turn, ActorStep
    <2>3. /\ \A d \in Caller : (Holds(d)' <=> Holds(d)) /\ (Holds(d) => d # c)
          /\ \A p \in Poster : (Answers(p)' <=> Answers(p)) /\ p # c
      BY <2>0, <2>1, <2>2, ActorFacts DEF Holds, Answers
    <2>4. \A s \in Slot : solt'[s].fp = solt[s].fp /\ solt'[s].prev = solt[s].prev
      BY <1>1 DEF GetsoltStep, SoltStep, SameFp
    <2>5. Given(t, sequence, calls + 1) /\ Given(t, sequence, (calls + 1) - 1)
      BY GivenMore DEF AgeInv, ShapeInv, TypeInv
    <2>6. \A d \in Caller : at'[d] # "new_store"
      BY <2>0, <2>1, <2>2, ActorFacts
    <2>7. AgeInv(t)'
      BY <2>0, <2>2, <2>3, <2>4, <2>5, <2>6, ActorFacts DEF AgeInv
    <2> QED BY <2>7
  <1>2. ASSUME NEW c \in Caller, NewLoadStep(c)
        PROVE  \E u \in Nat : AgeInv(u)'
    <2>1. AgeInv(t)'
      BY <1>2, ActorFacts DEF NewLoadStep, AgeInv, Holds, Answers, ShapeInv, TypeInv, SoltStep, ActorStep, FreeStep, SameSlot, SameCall, SameIdx, SameFp
    <2> QED BY <2>1
  <1>3. ASSUME NEW c \in Caller, NewStoreStep(c)
        PROVE  \E u \in Nat : AgeInv(u)'
    <2>t. /\ calls \in Nat /\ sequence \in Fp /\ local[c].idx \in Slot /\ c \in Actor
          /\ \A m \in wire : m.fp \in Fp
          /\ \A a \in Actor : local[a].fp \in Fp
          /\ \A s \in Slot : solt[s].fp \in Fp /\ solt[s].prev \in Fp
          /\ local[c].fp \in Fp
      BY ActorFacts DEF ShapeInv, TypeInv, LocalType, SlotType
    <2>0. /\ at[c] = "new_store" /\ sequence' = local[c].fp /\ local' = local /\ ActorStep(c)
          /\ Turn(c) /\ UNCHANGED <<wire, calls>>
      BY <1>3 DEF NewStoreStep
    <2>1. PICK r \in Fp : r = local[c].fp /\ r = (sequence + 1) % Modulus
      BY <2>t, <2>0 DEF AgeInv
    <2>2. \A b \in Actor : b # c => at'[b] = at[b] /\ at[b] \in {"idle", "wait"}
      BY <2>0 DEF ActorStep, Turn
    <2>3. Given(t, sequence, calls - 1)
      BY <2>0 DEF AgeInv
    <2>m. t < Modulus
      BY <2>t, <2>3, RpcTableAssumption DEF Given
    <2>4. /\ \A x \in Fp : Age(sequence, x) < t => x # r /\ Age(r, x) < t + 1
          /\ Age(r, r) < t + 1
      BY <2>t, <2>m, <2>1, AgeStep
    <2>5. Given(t + 1, r, calls) /\ (r = 0 => Given(t + 1, r, calls - 1))
      BY <2>t, <2>m, <2>1, <2>3, AgeOld
    <2>6. PICK s \in Slot : s = local[c].idx
      BY <2>t
    <2>7. \/ at'[c] = "new" /\ solt' = solt /\ r = solt[s].prev
          \/ at'[c] = "check" /\ SoltStep(s) /\ solt'[s].fp = r /\ solt'[s].prev = solt[s].prev
      BY <1>3, <2>1, <2>6 DEF NewStoreStep
    <2>8. at'[c] = "new" => Given(t + 1, r, calls - 1)
      BY <2>t, <2>4, <2>5, <2>7 DEF AgeInv
    <2>9. \A d \in Caller : at'[d] \in {"new", "new_store"} => d = c /\ at'[c] = "new"
      BY <2>2, <2>7, ActorFacts
    <2>10. \A u \in Slot : /\ solt'[u].fp = solt[u].fp \/ solt'[u].fp = r
                           /\ solt'[u].prev = solt[u].prev
      BY <2>7 DEF SoltStep
    <2>11. \A u \in Slot : /\ solt'[u].fp = 0 \/ Age(r, solt'[u].fp) < t + 1
                           /\ solt'[u].prev = 0 \/ Age(r, solt'[u].prev) < t + 1
      BY <2>t, <2>4, <2>10 DEF AgeInv
    <2>12. \A d \in Caller : Holds(d)' => Age(r, local[d].fp) < t + 1
      BY <2>t, <2>1, <2>2, <2>4, ActorFacts DEF AgeInv, Holds
    <2>13. \A p \in Poster : Answers(p)' => Age(r, local[p].fp) < t + 1
      BY <2>t, <2>2, <2>4, ActorFacts DEF AgeInv, Answers
    <2>14. \A m \in wire : Age(r, m.fp) < t + 1
      BY <2>t, <2>4 DEF AgeInv
    <2>15. AgeInv(t + 1)'
      <3>1. sequence' = r
        BY <2>0, <2>1
      <3>2. \A d \in Caller : at'[d] \in {"new", "new_store"} => Given(t + 1, r, calls - 1)
        BY <2>8, <2>9
      <3>3. \A d \in Caller : at'[d] # "new_store"
        BY <2>9, <2>7
      <3> QED BY <2>0, <2>5, <2>11, <2>12, <2>13, <2>14, <3>1, <3>2, <3>3 DEF AgeInv
    <2> QED BY <2>15
  <1>4. ASSUME NEW c \in Caller, SetsoltStep(c)
        PROVE  \E u \in Nat : AgeInv(u)'
    <2>1. AgeInv(t)'
      BY <1>4, ActorFacts, ZenonT(40) DEF SetsoltStep, AgeInv, Holds, Answers, ShapeInv, TypeInv, SoltStep, ActorStep, FreeStep, SameSlot, SameCall, SameIdx, SameFp
    <2> QED BY <2>1
  <1>5. ASSUME NEW c \in Caller, SendStep(c)
        PROVE  \E u \in Nat : AgeInv(u)'
    <2>0. /\ at[c] = "send" /\ solt' = solt /\ UNCHANGED <<sequence, calls>>
          /\ ActorStep(c) /\ local'[c].call = local[c].call /\ local'[c].fp = local[c].fp
          /\ at'[c] \in {"wait", "check"}
      BY <1>5 DEF SendStep
    <2>1. \A m \in wire' : m \in wire \/ (m.fp = local[c].fp /\ m.call = local[c].call)
      BY <1>5 DEF SendStep, Message
    <2>2. \A b \in Actor : /\ local'[b].call = local[b].call /\ local'[b].fp = local[b].fp
                           /\ b # c => at'[b] = at[b]
      BY <2>0 DEF ActorStep
    <2>3. /\ \A d \in Caller : (Holds(d)' <=> Holds(d)) /\ Holds(c)
          /\ \A p \in Poster : (Answers(p)' <=> Answers(p)) /\ p # c
          /\ \A d \in Caller : at'[d] \in {"new", "new_store"} => at'[d] = at[d]
      BY <2>0, <2>2, ActorFacts DEF Holds, Answers
    <2>4. \A m \in wire' : Age(sequence, m.fp) < t
      BY <2>1, <2>3 DEF AgeInv
    <2>5. AgeInv(t)'
      BY <2>0, <2>2, <2>3, <2>4, ActorFacts DEF AgeInv
    <2> QED BY <2>5
  <1>6. ASSUME NEW c \in Caller, FreeCallStep(c)
        PROVE  \E u \in Nat : AgeInv(u)'
    <2>1. AgeInv(t)'
      BY <1>6, ActorFacts DEF FreeCallStep, AgeInv, Holds, Answers, ShapeInv, TypeInv, SoltStep, ActorStep, FreeStep, SameSlot, SameCall, SameIdx, SameFp
    <2> QED BY <2>1
  <1>7. ASSUME NEW c \in Caller, WaitReturnStep(c)
        PROVE  \E u \in Nat : AgeInv(u)'
    <2>1. AgeInv(t)'
      BY <1>7, ActorFacts DEF WaitReturnStep, AgeInv, Holds, Answers, ShapeInv, TypeInv, SoltStep, ActorStep, FreeStep, SameSlot, SameCall, SameIdx, SameFp
    <2> QED BY <2>1
  <1>8. ASSUME NEW a \in Caller \cup Poster, LockingStep(a)
        PROVE  \E u \in Nat : AgeInv(u)'
    <2>1. AgeInv(t)'
      BY <1>8, ActorFacts, ZenonT(40) DEF LockingStep, AgeInv, Holds, Answers, ShapeInv, TypeInv, SoltStep, ActorStep, FreeStep, SameSlot, SameCall, SameIdx, SameFp
    <2> QED BY <2>1
  <1>9. ASSUME NEW p \in Poster, ReplyStep(p)
        PROVE  \E u \in Nat : AgeInv(u)'
    <2>1. AgeInv(t)'
      BY <1>9, ActorFacts DEF ReplyStep, AgeInv, Holds, Answers, ShapeInv, TypeInv, SoltStep, ActorStep, FreeStep, SameSlot, SameCall, SameIdx, SameFp
    <2> QED BY <2>1
  <1>10. ASSUME NEW p \in Poster, PostingStep(p)
         PROVE  \E u \in Nat : AgeInv(u)'
    <2>1. AgeInv(t)'
      BY <1>10, ActorFacts DEF PostingStep, AgeInv, Holds, Answers, ShapeInv, TypeInv, SoltStep, ActorStep, FreeStep, SameSlot, SameCall, SameIdx, SameFp
    <2> QED BY <2>1
  <1>11. ASSUME ScanningStep
         PROVE  \E u \in Nat : AgeInv(u)'
    <2>1. AgeInv(t)'
      BY <1>11, ActorFacts DEF ScanningStep, AgeInv, Holds, Answers, ShapeInv, TypeInv, SoltStep, ActorStep, FreeStep, SameSlot, SameCall, SameIdx, SameFp
    <2> QED BY <2>1
  <1>12. ASSUME CheckingStep
         PROVE  \E u \in Nat : AgeInv(u)'
    <2>1. AgeInv(t)'
      BY <1>12, ActorFacts DEF CheckingStep, AgeInv, Holds, Answers, ShapeInv, TypeInv, SoltStep, ActorStep, FreeStep, SameSlot, SameCall, SameIdx, SameFp
    <2> QED BY <2>1
  <1>13. ASSUME NEW r \in Resetter, ResetStartStep(r)
         PROVE  \E u \in Nat : AgeInv(u)'
    <2>1. AgeInv(t)'
      BY <1>13, ActorFacts DEF ResetStartStep, AgeInv, Holds, Answers, ShapeInv, TypeInv, SoltStep, ActorStep, FreeStep, SameSlot, SameCall, SameIdx, SameFp
    <2> QED BY <2>1
  <1>14. ASSUME NEW r \in Resetter, ResettingStep(r)
         PROVE  \E u \in Nat : AgeInv(u)'
    <2>1. AgeInv(t)'
      BY <1>14, ActorFacts DEF ResettingStep, AgeInv, Holds, Answers, ShapeInv, TypeInv, SoltStep, ActorStep, FreeStep, SameSlot, SameCall, SameIdx, SameFp
    <2> QED BY <2>1
  <1>15. CASE UNCHANGED vars
    BY <1>15 DEF vars, AgeInv, Holds, Answers
  <1> QED
    BY <1>1, <1>2, <1>3, <1>4, <1>5, <1>6, <1>7, <1>8, <1>9, <1>10, <1>11, <1>12, <1>13,
       <1>14, <1>15, StepCases DEF AnyStep

LEMMA UniqueNext ==
  ASSUME ShapeInv, NumberInv, CoreInv, ~use.shared, NEW t \in Nat, calls < Modulus, AgeInv(t), UniqueInv,
         [Next]_vars
  PROVE  UniqueInv'
PROOF
  <1>1. ASSUME NEW c \in Caller, GetsoltStep(c)
        PROVE  UniqueInv'
    <2>0. /\ at[c] = "idle" /\ Turn(c) /\ calls' = calls + 1 /\ sequence' = sequence
          /\ wire' = wire
      BY <1>1 DEF GetsoltStep
    <2>1. \/ UNCHANGED <<solt, local, at>>
          \/ ActorStep(c) /\ at'[c] = "new"
      BY <1>1 DEF GetsoltStep
    <2>2. \A b \in Actor : b # c => at[b] \in {"idle", "wait"} /\ at'[b] = at[b] /\ local'[b] = local[b]
      BY <2>0, <2>1 DEF Turn, ActorStep
    <2>3. /\ \A d \in Caller : (Holds(d)' <=> Holds(d)) /\ (Holds(d) => d # c)
          /\ \A p \in Poster : (Answers(p)' <=> Answers(p)) /\ p # c
      BY <2>0, <2>1, <2>2, ActorFacts DEF Holds, Answers
    <2> QED BY <2>0, <2>2, <2>3, ActorFacts DEF UniqueInv
  <1>2. ASSUME NEW c \in Caller, NewLoadStep(c)
        PROVE  UniqueInv'
    BY <1>2, ActorFacts DEF NewLoadStep, UniqueInv, Holds, Answers, SoltStep, ActorStep, FreeStep, SameSlot, SameCall, SameIdx, SameFp
  <1>3. ASSUME NEW c \in Caller, NewStoreStep(c)
        PROVE  UniqueInv'
    <2>t. /\ sequence \in Fp /\ local[c].idx \in Slot /\ c \in Actor
          /\ \A m \in wire : m.fp \in Fp
          /\ \A a \in Actor : local[a].fp \in Fp
      BY ActorFacts DEF ShapeInv, TypeInv, LocalType
    <2>0. /\ at[c] = "new_store" /\ local' = local /\ ActorStep(c) /\ Turn(c) /\ wire' = wire
      BY <1>3 DEF NewStoreStep
    <2>1. PICK r \in Fp : r = local[c].fp /\ r = (sequence + 1) % Modulus
      BY <2>t, <2>0 DEF AgeInv
    <2>2. \A b \in Actor : b # c => at'[b] = at[b]
      BY <2>0 DEF ActorStep
    <2>m. t < Modulus
      <3>1. Given(t, sequence, calls - 1) /\ calls \in Nat
        BY <2>0 DEF AgeInv, ShapeInv, TypeInv
      <3> QED BY <3>1, RpcTableAssumption DEF Given
    <2>4. \A x \in Fp : Age(sequence, x) < t => x # r
      BY <2>t, <2>m, <2>1, AgeStep
    <2>5. /\ \A m \in wire : m.fp # r
          /\ \A p \in Poster : Answers(p) => local[p].fp # r
          /\ \A d \in Caller : Holds(d) => local[d].fp # r
      BY <2>t, <2>4, ActorFacts DEF AgeInv
    <2>6. /\ \A d \in Caller : d # c => (Holds(d)' <=> Holds(d))
          /\ \A p \in Poster : Answers(p)' <=> Answers(p)
      BY <2>2, ActorFacts DEF Holds, Answers
    <2> QED BY <2>0, <2>1, <2>5, <2>6 DEF UniqueInv
  <1>4. ASSUME NEW c \in Caller, SetsoltStep(c)
        PROVE  UniqueInv'
    BY <1>4, ActorFacts DEF SetsoltStep, UniqueInv, Holds, Answers, SoltStep, ActorStep, FreeStep, SameSlot, SameCall, SameIdx, SameFp
  <1>5. ASSUME NEW c \in Caller, SendStep(c)
        PROVE  UniqueInv'
    <2>0. /\ at[c] = "send" /\ solt' = solt /\ UNCHANGED <<sequence, calls>>
          /\ ActorStep(c) /\ local'[c].call = local[c].call /\ local'[c].fp = local[c].fp
          /\ at'[c] \in {"wait", "check"}
      BY <1>5 DEF SendStep
    <2>1. \A m \in wire' : m \in wire \/ (m.fp = local[c].fp /\ m.call = local[c].call)
      BY <1>5 DEF SendStep, Message
    <2>2. \A b \in Actor : /\ local'[b].call = local[b].call /\ local'[b].fp = local[b].fp
                           /\ b # c => at'[b] = at[b]
      BY <2>0 DEF ActorStep
    <2>3. /\ \A d \in Caller : (Holds(d)' <=> Holds(d)) /\ Holds(c)
          /\ \A p \in Poster : (Answers(p)' <=> Answers(p)) /\ p # c
          /\ \A d \in Caller : at'[d] \in {"new", "new_store"} => at'[d] = at[d]
      BY <2>0, <2>2, ActorFacts DEF Holds, Answers
    <2>4. \A d \in Caller : Holds(d) => \A m \in wire' : m.fp = local[d].fp => m.call = local[d].call
      BY <2>1, <2>3 DEF UniqueInv
    <2> QED BY <2>2, <2>3, <2>4, ActorFacts DEF UniqueInv
  <1>6. ASSUME NEW c \in Caller, FreeCallStep(c)
        PROVE  UniqueInv'
    BY <1>6, ActorFacts DEF FreeCallStep, UniqueInv, Holds, Answers, SoltStep, ActorStep, FreeStep, SameSlot, SameCall, SameIdx, SameFp
  <1>7. ASSUME NEW c \in Caller, WaitReturnStep(c)
        PROVE  UniqueInv'
    BY <1>7, ActorFacts DEF WaitReturnStep, UniqueInv, Holds, Answers, SoltStep, ActorStep, FreeStep, SameSlot, SameCall, SameIdx, SameFp
  <1>8. ASSUME NEW a \in Caller \cup Poster, LockingStep(a)
        PROVE  UniqueInv'
    BY <1>8, ActorFacts DEF LockingStep, UniqueInv, Holds, Answers, SoltStep, ActorStep, FreeStep, SameSlot, SameCall, SameIdx, SameFp
  <1>9. ASSUME NEW p \in Poster, ReplyStep(p)
        PROVE  UniqueInv'
    BY <1>9, ActorFacts DEF ReplyStep, UniqueInv, Holds, Answers, SoltStep, ActorStep, FreeStep, SameSlot, SameCall, SameIdx, SameFp
  <1>10. ASSUME NEW p \in Poster, PostingStep(p)
         PROVE  UniqueInv'
    BY <1>10, ActorFacts DEF PostingStep, UniqueInv, Holds, Answers, SoltStep, ActorStep, FreeStep, SameSlot, SameCall, SameIdx, SameFp
  <1>11. ASSUME ScanningStep
         PROVE  UniqueInv'
    BY <1>11, ActorFacts DEF ScanningStep, UniqueInv, Holds, Answers, SoltStep, ActorStep, FreeStep, SameSlot, SameCall, SameIdx, SameFp
  <1>12. ASSUME CheckingStep
         PROVE  UniqueInv'
    BY <1>12, ActorFacts DEF CheckingStep, UniqueInv, Holds, Answers, SoltStep, ActorStep, FreeStep, SameSlot, SameCall, SameIdx, SameFp
  <1>13. ASSUME NEW r \in Resetter, ResetStartStep(r)
         PROVE  UniqueInv'
    BY <1>13, ActorFacts DEF ResetStartStep, UniqueInv, Holds, Answers, SoltStep, ActorStep, FreeStep, SameSlot, SameCall, SameIdx, SameFp
  <1>14. ASSUME NEW r \in Resetter, ResettingStep(r)
         PROVE  UniqueInv'
    BY <1>14, ActorFacts DEF ResettingStep, UniqueInv, Holds, Answers, SoltStep, ActorStep, FreeStep, SameSlot, SameCall, SameIdx, SameFp
  <1>15. CASE UNCHANGED vars
    BY <1>15 DEF vars, UniqueInv, Holds, Answers
  <1> QED
    BY <1>1, <1>2, <1>3, <1>4, <1>5, <1>6, <1>7, <1>8, <1>9, <1>10, <1>11, <1>12, <1>13,
       <1>14, <1>15, StepCases DEF AnyStep

(* What the callers were posted is theirs.                                 *)
OwnInv ==
  \A c \in Caller : \A i \in DOMAIN posted[c] : posted[c][i] \in Outcome(local[c].call)

LEMMA OwnEnd ==
  ASSUME ShapeInv, NumberInv, OnceInv, OwnerInv, CoreInv, OwnInv, ~use.shared,
         NEW a \in Actor \ Caller, ActorStep(a), Turn(a), NEW s \in Slot, solt[s].used,
         NEW answer \in AnswerOf, PostStep(s, answer),
         \A c \in Caller : at[c] = "wait" /\ Armed(c) /\ local[c].idx = s =>
                             answer \in Outcome(local[c].call)
  PROVE  OwnInv'
PROOF
  <1>1. PICK c \in Caller :
          /\ at[c] = "wait" /\ local[c].idx = s /\ Armed(c)
          /\ posted'[c] = <<answer>>
          /\ \A d \in Caller : d # c => posted'[d] = posted[d]
    BY CorePost, SMTT(30)
  <1>2. \A d \in Caller : local'[d] = local[d]
    BY ActorFacts DEF ActorStep
  <1>3. \A i \in DOMAIN posted'[c] : posted'[c][i] = answer
    BY <1>1
  <1>4. answer \in Outcome(local[c].call)
    BY <1>1
  <1> QED BY <1>1, <1>2, <1>3, <1>4 DEF OwnInv, Outcome

LEMMA OwnNext ==
  ASSUME ShapeInv, NumberInv, OnceInv, OwnerInv, CoreInv, UniqueInv, OwnInv, ~use.shared,
         [Next]_vars
  PROVE  OwnInv'
PROOF
  <1>1. ASSUME NEW c \in Caller, GetsoltStep(c)
        PROVE  OwnInv'
    <2>0. /\ posted'[c] = <<>> /\ \A d \in Caller : d # c => posted'[d] = posted[d]
      BY <1>1 DEF GetsoltStep
    <2>1. \A d \in Caller : d # c => local'[d] = local[d]
      BY <1>1, ActorFacts DEF GetsoltStep, ActorStep
    <2>2. DOMAIN posted'[c] = {}
      BY <2>0
    <2> QED BY <2>0, <2>1, <2>2 DEF OwnInv, Outcome
  <1>2. ASSUME NEW c \in Caller, NewLoadStep(c)
        PROVE  OwnInv'
    <2>1. posted' = posted /\ \A d \in Caller : local'[d].call = local[d].call
      BY <1>2, ActorFacts DEF NewLoadStep, ActorStep, SameCall
    <2> QED BY <2>1 DEF OwnInv, Outcome
  <1>3. ASSUME NEW c \in Caller, NewStoreStep(c)
        PROVE  OwnInv'
    <2>1. posted' = posted /\ \A d \in Caller : local'[d].call = local[d].call
      BY <1>3, ActorFacts DEF NewStoreStep, ActorStep, SameCall
    <2> QED BY <2>1 DEF OwnInv, Outcome
  <1>4. ASSUME NEW c \in Caller, SetsoltStep(c)
        PROVE  OwnInv'
    <2>1. posted' = posted /\ \A d \in Caller : local'[d].call = local[d].call
      BY <1>4, ActorFacts DEF SetsoltStep, ActorStep, SameCall
    <2> QED BY <2>1 DEF OwnInv, Outcome
  <1>5. ASSUME NEW c \in Caller, SendStep(c)
        PROVE  OwnInv'
    <2>1. posted' = posted /\ \A d \in Caller : local'[d].call = local[d].call
      BY <1>5, ActorFacts DEF SendStep, ActorStep, SameCall
    <2> QED BY <2>1 DEF OwnInv, Outcome
  <1>6. ASSUME NEW c \in Caller, FreeCallStep(c)
        PROVE  OwnInv'
    <2>1. posted' = posted /\ \A d \in Caller : local'[d].call = local[d].call
      BY <1>6, ActorFacts DEF FreeCallStep, ActorStep, SameCall
    <2> QED BY <2>1 DEF OwnInv, Outcome
  <1>7. ASSUME NEW c \in Caller, WaitReturnStep(c)
        PROVE  OwnInv'
    <2>1. posted' = posted /\ \A d \in Caller : local'[d].call = local[d].call
      BY <1>7, ActorFacts DEF WaitReturnStep, ActorStep, SameCall
    <2> QED BY <2>1 DEF OwnInv, Outcome
  <1>8. ASSUME NEW a \in Caller \cup Poster, LockingStep(a)
        PROVE  OwnInv'
    <2>1. posted' = posted /\ \A d \in Caller : local'[d].call = local[d].call
      BY <1>8, ActorFacts DEF LockingStep, ActorStep, SameCall
    <2> QED BY <2>1 DEF OwnInv, Outcome
  <1>9. ASSUME NEW p \in Poster, ReplyStep(p)
        PROVE  OwnInv'
    <2>1. posted' = posted /\ \A d \in Caller : local'[d].call = local[d].call
      BY <1>9, ActorFacts DEF ReplyStep, ActorStep, SameCall
    <2> QED BY <2>1 DEF OwnInv, Outcome
  <1>10. ASSUME NEW p \in Poster, PostingStep(p)
         PROVE  OwnInv'
    <2>t. p \in Actor \ Caller /\ local[p].idx \in Slot /\ ActorOk(p)
      BY ActorFacts DEF ShapeInv, TypeInv, LocalType, CoreInv
    <2>0. /\ ActorStep(p) /\ Turn(p) /\ at[p] = "locked"
          /\ PostStep(local[p].idx, local[p].call)
      BY <1>10 DEF PostingStep
    <2>1. solt[local[p].idx].used /\ local[p].call \in AnswerOf
          /\ solt[local[p].idx].fp = local[p].fp
      BY <2>0, <2>t, ActorFacts DEF ActorOk, ShapeInv, RoleInv, RoleOf, AnswerOf
    <2>2. \A c \in Caller : at[c] = "wait" /\ Armed(c) /\ local[c].idx = local[p].idx =>
                              local[p].call \in Outcome(local[c].call)
      BY <2>0, <2>1 DEF Armed, UniqueInv, Holds, Answers, Outcome
    <2> QED BY <2>0, <2>t, <2>1, <2>2, OwnEnd
  <1>11. ASSUME ScanningStep
         PROVE  OwnInv'
    <2>1. posted' = posted /\ \A d \in Caller : local'[d].call = local[d].call
      BY <1>11, ActorFacts DEF ScanningStep, ActorStep, SameCall
    <2> QED BY <2>1 DEF OwnInv, Outcome
  <1>12. ASSUME CheckingStep
         PROVE  OwnInv'
    <2>t. Scanner \in Actor \ Caller /\ local[Scanner].idx \in Slot /\ ActorOk(Scanner)
      BY ActorFacts DEF ShapeInv, TypeInv, LocalType, CoreInv
    <2>0. ActorStep(Scanner) /\ Turn(Scanner) /\ at[Scanner] = "locked" /\ local' = local
      BY <1>12 DEF CheckingStep
    <2>1. solt[local[Scanner].idx].used /\ <<"ETIMEDOUT">> \in AnswerOf
          /\ \A c \in Caller : <<"ETIMEDOUT">> \in Outcome(local[c].call)
      BY <2>0, <2>t DEF ActorOk, AnswerOf, Outcome
    <2>2. CASE PostStep(local[Scanner].idx, <<"ETIMEDOUT">>)
      BY <2>0, <2>t, <2>1, <2>2, OwnEnd
    <2>3. CASE posted' = posted
      BY <2>0, <2>3 DEF OwnInv, Outcome
    <2> QED BY <1>12, <2>2, <2>3 DEF CheckingStep
  <1>13. ASSUME NEW r \in Resetter, ResetStartStep(r)
         PROVE  OwnInv'
    <2>1. posted' = posted /\ \A d \in Caller : local'[d].call = local[d].call
      BY <1>13, ActorFacts DEF ResetStartStep, ActorStep, SameCall
    <2> QED BY <2>1 DEF OwnInv, Outcome
  <1>14. ASSUME NEW r \in Resetter, ResettingStep(r)
         PROVE  OwnInv'
    <2>t. r \in Actor \ Caller /\ local[r].idx \in Slot /\ ActorOk(r)
      BY ActorFacts DEF ShapeInv, TypeInv, LocalType, CoreInv
    <2>0. ActorStep(r) /\ Turn(r) /\ \A c \in Caller : local'[c] = local[c]
      BY <1>14, ActorFacts DEF ResettingStep, ActorStep
    <2>1. /\ at[r] = "locked" => solt[local[r].idx].used
          /\ <<"ECONNRESET">> \in AnswerOf
          /\ \A c \in Caller : <<"ECONNRESET">> \in Outcome(local[c].call)
      BY <2>t DEF ActorOk, AnswerOf, Outcome
    <2>2. CASE at[r] = "locked" /\ PostStep(local[r].idx, <<"ECONNRESET">>)
      BY <2>0, <2>t, <2>1, <2>2, OwnEnd
    <2>3. CASE posted' = posted
      BY <2>0, <2>3 DEF OwnInv, Outcome
    <2> QED BY <1>14, <2>2, <2>3 DEF ResettingStep
  <1>15. CASE UNCHANGED vars
    BY <1>15 DEF vars, OwnInv, Outcome
  <1> QED
    BY <1>1, <1>2, <1>3, <1>4, <1>5, <1>6, <1>7, <1>8, <1>9, <1>10, <1>11, <1>12, <1>13,
       <1>14, <1>15, StepCases DEF AnyStep

LEMMA CallsNext ==
  ASSUME ShapeInv, calls <= use.calls, [Next]_vars
  PROVE  calls' <= use.calls
  <1>1. CASE calls' = calls
    BY <1>1
  <1>2. CASE calls' # calls
    <2>1. \E c \in Caller : GetsoltStep(c)
      BY <1>2, StepCases DEF AnyStep, NewLoadStep, NewStoreStep, SetsoltStep, SendStep,
         FreeCallStep, WaitReturnStep, LockingStep, ReplyStep, PostingStep, ScanningStep,
         CheckingStep, ResetStartStep, ResettingStep, vars
    <2>2. calls < use.calls /\ calls' = calls + 1 /\ calls \in Nat /\ use.calls \in Nat
      BY <2>1, UseFacts DEF GetsoltStep, ShapeInv, TypeInv
    <2> QED BY <2>2
  <1> QED BY <1>1, <1>2

(* Fingerprints do not go round within the calls that are made on a core's *)
(* table: without this an answer that was on its way for 2^32 calls would  *)
(* be taken for that of another call.                                      *)
FewCalls == \A u \in Uses : ~u.shared => u.calls < Modulus

AnswerInv ==
  /\ CoreTableInv
  /\ ~use.shared => /\ calls <= use.calls /\ UniqueInv /\ OwnInv
                    /\ \E t \in Nat : AgeInv(t)

LEMMA AnswerNext ==
  ASSUME FewCalls, AnswerInv, [Next]_vars
  PROVE  AnswerInv'
PROOF
  <1>1. CoreTableInv' /\ use' = use /\ ShapeInv
    BY TableNext, CoreNext, UseNever DEF AnswerInv, CoreTableInv, TableInv
  <1>2. CASE ~use.shared
    <2>1. /\ ShapeInv /\ NumberInv /\ OnceInv /\ OwnerInv /\ CoreInv /\ UniqueInv /\ OwnInv
          /\ calls <= use.calls
      BY <1>2 DEF AnswerInv, CoreTableInv, TableInv
    <2>2. PICK t \in Nat : AgeInv(t)
      BY <1>2 DEF AnswerInv
    <2>3. calls < Modulus
      <3>1. calls \in Nat /\ use.calls \in Nat /\ use.calls < Modulus
        BY <1>2, <2>1, UseFacts DEF ShapeInv, TypeInv, FewCalls
      <3> QED BY <2>1, <3>1, RpcTableAssumption
    <2>4. UniqueInv' /\ OwnInv' /\ \E u \in Nat : AgeInv(u)'
      BY <1>2, <2>1, <2>2, <2>3, UniqueNext, OwnNext, AgeNext
    <2>5. calls' <= use'.calls
      BY <1>1, <2>1, CallsNext
    <2> QED BY <1>1, <2>4, <2>5 DEF AnswerInv
  <1>3. CASE use.shared
    BY <1>1, <1>3 DEF AnswerInv
  <1> QED BY <1>2, <1>3

LEMMA AnswerInit ==
  ASSUME Init
  PROVE  AnswerInv
PROOF
  <1>1. CoreTableInv
    BY CoreInit
  <1>2. /\ \A a \in Actor : at[a] = "idle"
        /\ \A c \in Caller : posted[c] = <<>>
        /\ \A s \in Slot : solt[s].fp = 0 /\ solt[s].prev = 0
        /\ wire = {} /\ calls = 0 /\ sequence \in Fp /\ use \in Uses
    BY DEF Init, Fp
  <1>3. UniqueInv
    BY <1>2, ActorFacts DEF UniqueInv, Holds
  <1>4. OwnInv
    <2>1. \A c \in Caller : DOMAIN posted[c] = {}
      BY <1>2
    <2> QED BY <2>1 DEF OwnInv
  <1>5. Given(0, sequence, 0)
    BY <1>2, RpcTableAssumption DEF Given, Age, Fp
  <1>6. AgeInv(0)
    BY <1>2, <1>5, ActorFacts DEF AgeInv, Holds, Answers
  <1>7. calls <= use.calls
    BY <1>2, UseFacts
  <1> QED BY <1>1, <1>3, <1>4, <1>6, <1>7 DEF AnswerInv

(* On a core's table, when the fingerprints do not go round within the     *)
(* calls that are made, a call ends with its own answer, a timeout or a    *)
(* reset, never with the answer to another call: what                      *)
(* __rpc_table_lock_solt compares the fingerprint for.                     *)
THEOREM RpcAnswerIsOwn == FewCalls => (Spec => []AnswerIsOwn)
PROOF
  <1> SUFFICES ASSUME FewCalls
               PROVE  Spec => []AnswerIsOwn
    OBVIOUS
  <1>1. Init => AnswerInv
    BY AnswerInit
  <1>2. AnswerInv /\ [Next]_vars => AnswerInv'
    BY AnswerNext
  <1>3. AnswerInv => AnswerIsOwn
    BY DEF AnswerInv, OwnInv, AnswerIsOwn
  <1> QED BY <1>1, <1>2, <1>3, PTL DEF Spec


=============================================================================
