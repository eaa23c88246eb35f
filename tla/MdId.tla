-------------------------------- MODULE MdId --------------------------------
(***************************************************************************)
(* File identifiers, metadata/md.c: every process takes ranges of ids from *)
(* a key in etcd, with compare-and-set, and hands the ids out one by one.  *)
(* The write lock of mdid_t lets one call at a time of a process in; the   *)
(* processes run concurrently, may crash, and may miss etcd's answers.     *)
(***************************************************************************)
EXTENDS Integers, Sequences

CONSTANTS
  Node,     \* the processes
  MdidStep, \* step of each: MDID_STEP for a daemon, 1 for a tool
  MaxId,    \* bound on the ids
  MaxCrash  \* bound on the crashes and lost answers

ASSUME MdIdAssumption ==
  MdidStep \in [Node -> Nat \ {0}] /\ MaxId \in Nat /\ MaxCrash \in Nat

VARIABLES
  val,      \* the value of the key in etcd; 0 while there is no key
  idx,      \* its index, which every write makes larger
  stage,    \* "idle", "get", "create" or "update"
  got,      \* value and idx of __md_newid
  cur,      \* mdid->cur
  end,      \* mdid->end
  handed,   \* history: all ids that were handed out
  crashes   \* number of crashes and lost answers

idvars == <<val, idx, stage, got, cur, end, handed, crashes>>

IdInit ==
  /\ val = 0 /\ idx = 0
  /\ stage = [n \in Node |-> "idle"]
  /\ got = [n \in Node |-> [val |-> 0, idx |-> 0]]
  /\ cur = [n \in Node |-> 0] /\ end = [n \in Node |-> 0]
  /\ handed = <<>>
  /\ crashes = 0

-----------------------------------------------------------------------------
(* md_newid, from the range that the process has.                          *)
md_newid(n) ==
  /\ stage[n] = "idle" /\ cur[n] < end[n]
  /\ handed' = Append(handed, cur[n])
  /\ cur' = [cur EXCEPT ![n] = @ + 1]
  /\ UNCHANGED <<val, idx, stage, got, end, crashes>>

(* md_newid, when the range is used up.                                    *)
RangeUsed(n) ==
  /\ stage[n] = "idle" /\ cur[n] >= end[n]
  /\ stage' = [stage EXCEPT ![n] = "get"]
  /\ UNCHANGED <<val, idx, got, cur, end, handed, crashes>>

(* __md_newid: etcd_get_text, ENOKEY or a value.                           *)
GetKey(n) ==
  /\ stage[n] = "get"
  /\ got' = [got EXCEPT ![n] = [val |-> val, idx |-> idx]]
  /\ stage' = [stage EXCEPT ![n] = IF val = 0 THEN "create" ELSE "update"]
  /\ UNCHANGED <<val, idx, cur, end, handed, crashes>>

(* etcd takes the new value, and the process the range from begin.         *)
Written(n, begin) ==
  /\ begin + MdidStep[n] <= MaxId
  /\ val' = begin + MdidStep[n] /\ idx' = idx + 1
  /\ stage' = [stage EXCEPT ![n] = "idle"]

TakeRange(n, begin) ==
  /\ cur' = [cur EXCEPT ![n] = begin]
  /\ end' = [end EXCEPT ![n] = begin + MdidStep[n]]
  /\ UNCHANGED <<got, handed, crashes>>

(* EEXIST: goto retry.                                                     *)
Retry(n) ==
  /\ stage' = [stage EXCEPT ![n] = "get"]
  /\ UNCHANGED <<val, idx, got, cur, end, handed, crashes>>

(* Mutant of Create: a key that another process made is overwritten.       *)
CreateOver(n) == stage[n] = "create" /\ Written(n, 1) /\ TakeRange(n, 1)

(* etcd_create_text *)
Create(n) ==
  /\ stage[n] = "create"
  /\ \/ val = 0 /\ Written(n, 1) /\ TakeRange(n, 1)
     \/ val # 0 /\ Retry(n)

(* Mutant of Update: etcd_update_text without idx.                         *)
UpdateBlind(n) ==
  stage[n] = "update" /\ Written(n, got[n].val) /\ TakeRange(n, got[n].val)

(* etcd_update_text, with the index that was read.                         *)
Update(n) ==
  /\ stage[n] = "update"
  /\ \/ idx = got[n].idx /\ Written(n, got[n].val) /\ TakeRange(n, got[n].val)
     \/ idx # got[n].idx /\ Retry(n)

(* The answer to a write is lost: md_newid returns an error, and the range *)
(* may be gone from etcd.                                                  *)
Lost(n) ==
  /\ crashes < MaxCrash /\ crashes' = crashes + 1
  /\ \/ stage[n] = "create" /\ val = 0 /\ Written(n, 1)
     \/ stage[n] = "update" /\ idx = got[n].idx /\ Written(n, got[n].val)
     \/ stage[n] # "idle" /\ stage' = [stage EXCEPT ![n] = "idle"] /\ UNCHANGED <<val, idx>>
  /\ UNCHANGED <<got, cur, end, handed>>

(* The process starts again, with md_init.                                 *)
Restart(n) ==
  /\ crashes < MaxCrash /\ crashes' = crashes + 1
  /\ stage' = [stage EXCEPT ![n] = "idle"]
  /\ cur' = [cur EXCEPT ![n] = 0] /\ end' = [end EXCEPT ![n] = 0]
  /\ UNCHANGED <<val, idx, got, handed>>

IdNext ==
  \E n \in Node : \/ md_newid(n) \/ RangeUsed(n) \/ GetKey(n) \/ Create(n) \/ Update(n)
                  \/ Lost(n) \/ Restart(n)

IdSpec == IdInit /\ [][IdNext]_idvars

-----------------------------------------------------------------------------
TypeOK ==
  /\ val \in Nat /\ idx \in Nat
  /\ stage \in [Node -> {"idle", "get", "create", "update"}]
  /\ got \in [Node -> [val : Nat, idx : Nat]]
  /\ cur \in [Node -> Nat] /\ end \in [Node -> Nat]
  /\ handed \in Seq(Nat)

(* No id is handed out twice, by one process or by two, whatever crashes   *)
(* and whichever answers of etcd are lost.                                 *)
NoRepeat ==
  \A i, j \in 1..Len(handed) : handed[i] = handed[j] => i = j

(* What was read from etcd is what is there as long as the index is.       *)
GotInv ==
  \A n \in Node :
    /\ got[n].idx <= idx
    /\ got[n].idx = idx => got[n].val = val
    /\ stage[n] = "update" => got[n].val > 0

(* The ranges lie below the value in etcd ...                              *)
RangeBelow == \A n \in Node : cur[n] <= end[n] /\ end[n] <= val

(* ... apart from each other ...                                           *)
RangeApart ==
  \A n, m \in Node : n # m => \/ cur[n] >= end[n] \/ cur[m] >= end[m]
                              \/ end[n] <= cur[m] \/ end[m] <= cur[n]

(* ... and what was handed out is below the value too and in no range.     *)
RangeFresh ==
  \A i \in 1..Len(handed) :
    /\ handed[i] < val
    /\ \A n \in Node : handed[i] < cur[n] \/ handed[i] >= end[n]

IdInv == TypeOK /\ NoRepeat /\ GotInv /\ RangeBelow /\ RangeApart /\ RangeFresh

=============================================================================
