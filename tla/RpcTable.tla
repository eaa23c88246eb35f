------------------------------ MODULE RpcTable ------------------------------
(***************************************************************************)
(* The table of outstanding RPCs (ynet/rpc/rpc_table.c) with its callers   *)
(* (ynet/rpc/rpc_request.c, schedule/corerpc.c).                           *)
(*                                                                         *)
(* A caller takes a slot and a fingerprint, arms the slot with what to do  *)
(* when the answer comes, sends the request with the slot's number and     *)
(* fingerprint and waits.  The slot is ended by the answer                 *)
(* (rpc_table_post), by the scan for timeouts, by the reset of its         *)
(* connection, or by the caller itself when the send failed.               *)
(*                                                                         *)
(* When use.shared holds the table is __rpc_table__, used by all threads,  *)
(* and a step is what runs between two accesses another thread can see.    *)
(* Otherwise it is the table of one core: all actors are tasks of that     *)
(* core, and none of them yields inside an operation of the table.         *)
(* `private' is never assigned (the table comes from calloc), so the slot  *)
(* locks are taken in both.                                                *)
(***************************************************************************)
EXTENDS Integers, Sequences, FiniteSets

CONSTANTS
  Caller,    \* threads, or tasks of the core, that make calls
  Poster,    \* the ones that receive answers
  Scanner,   \* __rpc_table_scan_worker, or corerpc_scan
  Resetter,  \* the ones that close connections
  None,      \* no actor
  SlotMax,   \* bound on the slots
  Sock,      \* connections
  Modulus,   \* 2^32, the range of fingerprints
  Uses       \* the ways in which a table is used: see Use

(* One use: is it the table of all threads, RPC_TABLE_MAX, the connections *)
(* and bounds on the calls and on the resets.                              *)
Use == [shared : BOOLEAN, slots : 1..SlotMax, socks : SUBSET Sock, calls : Nat,
        resets : Nat]

ASSUME RpcTableAssumption ==
  /\ SlotMax \in Nat /\ Modulus \in Nat \ {0} /\ Uses \subseteq Use
  /\ Caller \cap Poster = {} /\ Resetter \cap (Caller \cup Poster) = {}
  /\ Scanner \notin Caller \cup Poster \cup Resetter
  /\ None \notin Caller \cup Poster \cup {Scanner} \cup Resetter

VARIABLES
  solt,      \* rpc_table->solt
  cur,       \* rpc_table->cur
  sequence,  \* rpc_table->sequence
  at,        \* where each actor is
  local,     \* its local variables
  wire,      \* requests sent and not answered yet
  calls,     \* how many calls were made
  posted,    \* what func was called with, for the caller's current call
  resets,    \* how many resets were started
  wrong,     \* "no", or what must not happen to a call context
  use        \* how the table is used, which never changes

vars == <<solt, cur, sequence, at, local, wire, calls, posted, resets, wrong, use>>

Slot == 0..(SlotMax - 1)
Actor == Caller \cup Poster \cup {Scanner} \cup Resetter
NoCall == <<>>

Init ==
  /\ solt = [s \in Slot |-> [used |-> FALSE, lock |-> None, fp |-> 0, prev |-> 0,
                             timeout |-> FALSE, sock |-> None, arg |-> NoCall]]
  /\ cur = 0
  /\ sequence \in 0..(Modulus - 1)
  /\ at = [a \in Actor |-> "idle"]
  /\ local = [a \in Actor |-> [op |-> "none", idx |-> 0, fp |-> 0, call |-> NoCall,
                               sock |-> None]]
  /\ wire = {}
  /\ calls = 0
  /\ posted = [c \in Caller |-> <<>>]
  /\ resets = 0
  /\ wrong = "no"
  /\ use \in Uses

-----------------------------------------------------------------------------
(* An actor that is neither idle nor waiting is inside an operation, which *)
(* nobody interrupts on a core's own table.                                *)
Turn(a) ==
  use.shared \/ \A b \in Actor \ {a} : at[b] \in {"idle", "wait"}

Goto(a, l) == at' = [at EXCEPT ![a] = l]

My(a) == solt[local[a].idx]

(* __rpc_table_free: the fingerprint is remembered, `used' is released.    *)
Freed(s) ==
  [s EXCEPT !.used = FALSE, !.prev = s.fp, !.fp = 0, !.timeout = FALSE,
            !.arg = NoCall]

Unlocked(s) == [s EXCEPT !.lock = None]

(* solt->func(solt->arg, ...): the context is on the stack of its caller,  *)
(* who must still be in that call.                                         *)
Alive(call) ==
  /\ local[call[1]].call = call
  /\ at[call[1]] # "idle"

func(s, answer) ==
  IF s.arg = NoCall
  THEN wrong' = "func_is_NULL" /\ UNCHANGED posted
  ELSE IF ~Alive(s.arg)
       THEN wrong' = "context_is_gone" /\ UNCHANGED posted
       ELSE /\ posted' = [posted EXCEPT ![s.arg[1]] = Append(@, answer)]
            /\ UNCHANGED wrong

-----------------------------------------------------------------------------
(* Taking a slot                                                           *)

(* __rpc_table_getsolt_sequence: the first free slot from cur on; other    *)
(* threads move cur and take slots meanwhile, so that any may be the one.  *)
Found(s) ==
  /\ s < use.slots /\ ~solt[s].used
  /\ use.shared \/ \A d \in Slot :
       d < use.slots /\ (d - cur) % use.slots < (s - cur) % use.slots => solt[d].used

getsolt(c, sock) ==
  /\ at[c] = "idle" /\ calls < use.calls /\ Turn(c)
  /\ calls' = calls + 1
  /\ posted' = [posted EXCEPT ![c] = <<>>]
  /\ \/ \E s \in Slot :
          /\ Found(s)
          /\ solt' = [solt EXCEPT ![s].used = TRUE]
          /\ cur' = (s + 1) % use.slots
          /\ local' = [local EXCEPT ![c] = [op |-> "set", idx |-> s, fp |-> 0,
                          call |-> <<c, calls + 1>>, sock |-> sock]]
          /\ Goto(c, "new")
     \/ /\ \A s \in Slot : s < use.slots => solt[s].used   \* ENOSPC
        /\ UNCHANGED <<solt, cur, local, at>>
  /\ UNCHANGED <<sequence, wire, resets, wrong, use>>

(* __rpc_table_new: ++sequence is a load and a store, without a lock.      *)
new_load(c) ==
  /\ at[c] = "new" /\ Turn(c)
  /\ local' = [local EXCEPT ![c].fp = (sequence + 1) % Modulus]
  /\ Goto(c, "new_store")
  /\ UNCHANGED <<solt, cur, sequence, wire, calls, posted, resets, wrong, use>>

new_store(c) ==
  LET r == local[c].fp
  IN  /\ at[c] = "new_store" /\ Turn(c)
      /\ sequence' = r
      /\ IF r = My(c).prev
         THEN Goto(c, "new") /\ UNCHANGED solt
         ELSE Goto(c, "check") /\ solt' = [solt EXCEPT ![local[c].idx].fp = r]
      /\ UNCHANGED <<cur, local, wire, calls, posted, resets, wrong, use>>

-----------------------------------------------------------------------------
(* Mutant: the fingerprint is not compared.                                *)
CheckNothing(a) ==
  /\ at[a] = "check" /\ Turn(a)
  /\ Goto(a, "lock")
  /\ UNCHANGED <<solt, cur, sequence, local, wire, calls, posted, resets, wrong, use>>

(* __rpc_table_lock_solt: the fingerprint is compared before the slot is   *)
(* locked; after it only `used' is.                                        *)
lock_solt_check(a) ==
  /\ at[a] = "check" /\ Turn(a)
  /\ Goto(a, IF My(a).fp = local[a].fp THEN "lock" ELSE "estale")
  /\ UNCHANGED <<solt, cur, sequence, local, wire, calls, posted, resets, wrong, use>>

lock_solt(a) ==
  /\ at[a] = "lock" /\ Turn(a)
  /\ My(a).lock = None
  /\ IF My(a).used
     THEN solt' = [solt EXCEPT ![local[a].idx].lock = a] /\ Goto(a, "locked")
     ELSE Goto(a, "estale") /\ UNCHANGED solt
  /\ UNCHANGED <<cur, sequence, local, wire, calls, posted, resets, wrong, use>>

(* ESTALE: fatal for rpc_table_setsolt, ignored by the others.             *)
estale(a) ==
  /\ at[a] = "estale" /\ Turn(a)
  /\ Goto(a, "idle")
  /\ wrong' = IF local[a].op = "set" THEN "setsolt_failed" ELSE wrong
  /\ UNCHANGED <<solt, cur, sequence, local, wire, calls, posted, resets, use>>

(* Mutant: the slot is not given a timeout.                                *)
SetNoTimeout(c) ==
  /\ at[c] = "locked" /\ local[c].op = "set" /\ Turn(c)
  /\ solt' = [solt EXCEPT ![local[c].idx] =
                Unlocked([@ EXCEPT !.arg = local[c].call, !.sock = local[c].sock])]
  /\ Goto(c, "send")
  /\ UNCHANGED <<cur, sequence, local, wire, calls, posted, resets, wrong, use>>

(* rpc_table_setsolt *)
setsolt(c) ==
  /\ at[c] = "locked" /\ local[c].op = "set" /\ Turn(c)
  /\ solt' = [solt EXCEPT ![local[c].idx] =
                Unlocked([@ EXCEPT !.arg = local[c].call, !.timeout = TRUE,
                                   !.sock = local[c].sock])]
  /\ Goto(c, "send")
  /\ UNCHANGED <<cur, sequence, local, wire, calls, posted, resets, wrong, use>>

Message(c) == [idx |-> local[c].idx, fp |-> local[c].fp, call |-> local[c].call]

(* Mutant: the slot is kept when the send fails.                           *)
SendNoFree(c) ==
  /\ at[c] = "send" /\ Turn(c)
  /\ \/ wire' = wire \cup {Message(c)} /\ Goto(c, "wait")
     \/ UNCHANGED wire /\ Goto(c, "idle")
  /\ UNCHANGED <<solt, cur, sequence, local, calls, posted, resets, wrong, use>>

(* __rpc_request_send, __corerpc_send: on an error the caller gives the    *)
(* slot back (rpc_table_free).                                             *)
send(c) ==
  /\ at[c] = "send" /\ Turn(c)
  /\ \/ /\ wire' = wire \cup {Message(c)}
        /\ Goto(c, "wait") /\ UNCHANGED local
     \/ /\ local' = [local EXCEPT ![c].op = "free"]
        /\ Goto(c, "check") /\ UNCHANGED wire
  /\ UNCHANGED <<solt, cur, sequence, calls, posted, resets, wrong, use>>

(* rpc_table_free; the caller returns the error.                           *)
rpc_table_free(c) ==
  /\ at[c] = "locked" /\ local[c].op = "free" /\ Turn(c)
  /\ solt' = [solt EXCEPT ![local[c].idx] = Unlocked(Freed(@))]
  /\ Goto(c, "idle")
  /\ UNCHANGED <<cur, sequence, local, wire, calls, posted, resets, wrong, use>>

(* The caller has been posted and returns what it was posted.              *)
wait_return(c) ==
  /\ at[c] = "wait" /\ posted[c] # <<>> /\ Turn(c)
  /\ Goto(c, "idle")
  /\ UNCHANGED <<solt, cur, sequence, local, wire, calls, posted, resets, wrong, use>>

-----------------------------------------------------------------------------
(* Ending a call                                                           *)

(* __rpc_reply_handler: an answer arrives, sooner, later or never.         *)
reply_handler(p) ==
  /\ at[p] = "idle" /\ Turn(p)
  /\ \E m \in wire :
       /\ wire' = wire \ {m}
       /\ local' = [local EXCEPT ![p] = [op |-> "post", idx |-> m.idx, fp |-> m.fp,
                                         call |-> m.call, sock |-> None]]
  /\ Goto(p, "check")
  /\ UNCHANGED <<solt, cur, sequence, calls, posted, resets, wrong, use>>

(* Mutant: the slot is not freed after the call.                           *)
PostNoFree(p) ==
  /\ at[p] = "locked" /\ local[p].op = "post" /\ Turn(p)
  /\ func(My(p), local[p].call)
  /\ solt' = [solt EXCEPT ![local[p].idx] = Unlocked(@)]
  /\ Goto(p, "idle")
  /\ UNCHANGED <<cur, sequence, local, wire, calls, resets, use>>

rpc_table_post(p) ==
  /\ at[p] = "locked" /\ local[p].op = "post" /\ Turn(p)
  /\ func(My(p), local[p].call)
  /\ solt' = [solt EXCEPT ![local[p].idx] = Unlocked(Freed(@))]
  /\ Goto(p, "idle")
  /\ UNCHANGED <<cur, sequence, local, wire, calls, resets, use>>

(* __rpc_table_scan visits a used slot and locks it if nobody else has.    *)
scan ==
  /\ at[Scanner] = "idle" /\ Turn(Scanner)
  /\ \E s \in Slot :
       /\ solt[s].used /\ solt[s].lock = None
       /\ solt' = [solt EXCEPT ![s].lock = Scanner]
       /\ local' = [local EXCEPT ![Scanner].op = "scan", ![Scanner].idx = s]
  /\ Goto(Scanner, "locked")
  /\ UNCHANGED <<cur, sequence, wire, calls, posted, resets, wrong, use>>

(* __rpc_table_check when the slot has timed out, and when it has not: a   *)
(* slot that is used but not armed yet has timeout = 0.                    *)
check_timeout ==
  /\ at[Scanner] = "locked" /\ Turn(Scanner)
  /\ My(Scanner).timeout
  /\ func(My(Scanner), <<"ETIMEDOUT">>)
  /\ solt' = [solt EXCEPT ![local[Scanner].idx] = Unlocked(Freed(@))]
  /\ Goto(Scanner, "idle")
  /\ UNCHANGED <<cur, sequence, local, wire, calls, resets, use>>

check_pass ==
  /\ at[Scanner] = "locked" /\ Turn(Scanner)
  /\ solt' = [solt EXCEPT ![local[Scanner].idx] = Unlocked(@)]
  /\ Goto(Scanner, "idle")
  /\ UNCHANGED <<cur, sequence, local, wire, calls, posted, resets, wrong, use>>

(* rpc_table_reset: every slot once, in order.                             *)
reset_start(r, sock) ==
  /\ at[r] = "idle" /\ resets < use.resets /\ Turn(r)
  /\ resets' = resets + 1
  /\ local' = [local EXCEPT ![r].op = "reset", ![r].idx = 0, ![r].sock = sock]
  /\ Goto(r, "visit")
  /\ UNCHANGED <<solt, cur, sequence, wire, calls, posted, wrong, use>>

Visited(r) ==
  IF local[r].idx = use.slots - 1
  THEN Goto(r, "idle") /\ UNCHANGED local
  ELSE Goto(r, "visit") /\ local' = [local EXCEPT ![r].idx = @ + 1]

(* __rpc_table_reset up to the trylock: a slot that is not used, or that   *)
(* somebody has locked (EBUSY), is passed over.                            *)
reset_visit(r) ==
  /\ at[r] = "visit" /\ Turn(r)
  /\ IF My(r).used /\ My(r).lock = None
     THEN /\ solt' = [solt EXCEPT ![local[r].idx].lock = r]
          /\ Goto(r, "locked") /\ UNCHANGED local
     ELSE Visited(r) /\ UNCHANGED solt
  /\ UNCHANGED <<cur, sequence, wire, calls, posted, resets, wrong, use>>

(* The rest: the call is ended if it is armed and on this connection.      *)
reset_slot(r) ==
  /\ at[r] = "locked" /\ local[r].op = "reset" /\ Turn(r)
  /\ IF My(r).timeout /\ My(r).sock = local[r].sock
     THEN /\ func(My(r), <<"ECONNRESET">>)
          /\ solt' = [solt EXCEPT ![local[r].idx] = Unlocked(Freed(@))]
     ELSE /\ solt' = [solt EXCEPT ![local[r].idx] = Unlocked(@)]
          /\ UNCHANGED <<posted, wrong>>
  /\ Visited(r)
  /\ UNCHANGED <<cur, sequence, wire, calls, resets, use>>

-----------------------------------------------------------------------------
CallerStep(c) ==
  \/ new_load(c) \/ new_store(c) \/ setsolt(c) \/ send(c) \/ rpc_table_free(c)
  \/ wait_return(c)

LockStep(a) == lock_solt_check(a) \/ lock_solt(a) \/ estale(a)

ScanStep == check_timeout \/ check_pass

ResetStep(r) == reset_visit(r) \/ reset_slot(r)

Next ==
  /\ wrong = "no"
  /\ \/ \E c \in Caller : CallerStep(c) \/ \E k \in use.socks : getsolt(c, k)
     \/ \E a \in Caller \cup Poster : LockStep(a)
     \/ \E p \in Poster : reply_handler(p) \/ rpc_table_post(p)
     \/ scan \/ ScanStep
     \/ \E r \in Resetter : ResetStep(r) \/ \E k \in use.socks : reset_start(r, k)

(* Threads that are inside an operation go on; the scan comes back to a    *)
(* slot until it has timed out.  Nothing makes an answer arrive.           *)
Fairness ==
  /\ \A c \in Caller : WF_vars(wrong = "no" /\ (CallerStep(c) \/ LockStep(c)))
  /\ \A p \in Poster : WF_vars(wrong = "no" /\ (LockStep(p) \/ rpc_table_post(p)))
  /\ \A r \in Resetter : WF_vars(wrong = "no" /\ ResetStep(r))
  /\ \A s \in Slot :
       /\ SF_vars(wrong = "no" /\ scan /\ local'[Scanner].idx = s)
       /\ SF_vars(wrong = "no" /\ check_timeout /\ local[Scanner].idx = s)
  /\ WF_vars(wrong = "no" /\ ScanStep)

Spec == Init /\ [][Next]_vars /\ Fairness

-----------------------------------------------------------------------------
Outcome(call) == {call, <<"ETIMEDOUT">>, <<"ECONNRESET">>}

(* On a core's table a call is answered with its own answer or an error,   *)
(* never with the answer to another call: what the fingerprint is compared *)
(* for, although it wraps round.                                           *)
AnswerIsOwn ==
  ~use.shared =>
    \A c \in Caller : \A i \in DOMAIN posted[c] : posted[c][i] \in Outcome(local[c].call)

(* No call is ended twice, on a core's table or on that of all threads,    *)
(* where an answer, the scan, a reset and the caller meet at a slot.       *)
EndedOnce == \A c \in Caller : Len(posted[c]) <= 1

(* On a core's table func is never NULL, never called on the context of a  *)
(* call that has returned, and setsolt never fails.                        *)
ContextsSafe == ~use.shared => wrong = "no"

(* A slot in use belongs to a call that has not returned: none leaks.      *)
NoLeakedSlot ==
  \A s \in Slot : solt[s].used =>
    \E c \in Caller : at[c] # "idle" /\ local[c].idx = s

(* On a core's table every call returns, whether it is answered or not.    *)
CallsReturn == \A c \in Caller : (~use.shared /\ at[c] # "idle") ~> (at[c] = "idle")

=============================================================================
