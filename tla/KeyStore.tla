------------------------------ MODULE KeyStore ------------------------------
(***************************************************************************)
(* What the database library of src/apue.3e/db promises the processes that *)
(* share a database: db_fetch, db_store and db_delete act at one moment    *)
(* between call and return on one map from keys to data.                   *)
(***************************************************************************)
CONSTANTS Procs,   \* processes that call the library
          Keys,    \* keys
          Vals,    \* data
          None     \* no record; also: no call under way

Flags == {"DB_INSERT", "DB_REPLACE", "DB_STORE"}

\* A call: the function, its key and, for db_store, its data and flag.
Calls == [op : {"fetch", "delete"}, key : Keys, val : {None}, flag : {"none"}]
             \cup [op : {"store"}, key : Keys, val : Vals, flag : Flags]

VARIABLES map,   \* the records, as every caller sees them
          call,  \* the call each process has under way
          ret    \* "none" until the call has taken effect, then what it will return

vars == <<map, call, ret>>

Init == /\ map = [k \in Keys |-> None]
        /\ call = [p \in Procs |-> None]
        /\ ret = [p \in Procs |-> "none"]

Call(p, c) == /\ call[p] = None
              /\ call' = [call EXCEPT ![p] = c]
              /\ UNCHANGED <<map, ret>>

Answer(p, r) == ret' = [ret EXCEPT ![p] = r]

Fetch(p, k) == /\ Answer(p, map[k])
               /\ UNCHANGED map

Delete(p, k) == /\ Answer(p, IF map[k] = None THEN "err" ELSE "ok")
                /\ map' = [map EXCEPT ![k] = None]

Store(p, k, v, flag) ==
    \/ /\ flag = "DB_INSERT" /\ map[k] # None
       /\ Answer(p, "exists")
       /\ UNCHANGED map
    \/ /\ flag = "DB_REPLACE" /\ map[k] = None
       /\ Answer(p, "err")
       /\ UNCHANGED map
    \/ /\ ~(flag = "DB_INSERT" /\ map[k] # None)
       /\ ~(flag = "DB_REPLACE" /\ map[k] = None)
       /\ Answer(p, "ok")
       /\ map' = [map EXCEPT ![k] = v]

TakeEffect(p) ==
    /\ call[p] # None /\ ret[p] = "none"
    /\ \/ call[p].op = "fetch" /\ Fetch(p, call[p].key)
       \/ call[p].op = "delete" /\ Delete(p, call[p].key)
       \/ call[p].op = "store" /\ Store(p, call[p].key, call[p].val, call[p].flag)
    /\ UNCHANGED call

Return(p) == /\ ret[p] # "none"
             /\ call' = [call EXCEPT ![p] = None]
             /\ Answer(p, "none")
             /\ UNCHANGED map

\* db_store leaves the program when the index file is full.  The record it was
\* to replace may be gone then.
Quit(p) == /\ call[p] # None /\ ret[p] = "none"
           /\ call[p].op = "store"
           /\ map' \in {map, [map EXCEPT ![call[p].key] = None]}
           /\ call' = [call EXCEPT ![p] = None]
           /\ UNCHANGED ret

Next == \E p \in Procs : \/ \E c \in Calls : Call(p, c)
                         \/ TakeEffect(p)
                         \/ Return(p)
                         \/ Quit(p)

Spec == Init /\ [][Next]_vars
=============================================================================
