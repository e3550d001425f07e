--------------------------------- MODULE Db ---------------------------------
(***************************************************************************)
(* The database library of src/apue.3e/db/db.c: an index file with a free  *)
(* list, hash chains and index records, a data file, and the record locks  *)
(* under which several processes read and write them.                      *)
(*                                                                         *)
(* An offset of the index file is a number: 0 is the free list pointer,    *)
(* 1 .. NHash are the pointers of the hash table, and what follows are the *)
(* index records in the order of the file.  One action is one access to a  *)
(* file (lseek with the read or write behind it), or taking a lock.  An    *)
(* append holds a lock on the tail of the file around its lseek and its    *)
(* write and is one action too.                                            *)
(***************************************************************************)
EXTENDS Naturals, Sequences, FiniteSets, TLC

CONSTANTS Procs,     \* processes that fetch, store and delete
          Scanners,  \* processes that read the database sequentially
          Keys, Vals,
          NHash,     \* NHASH_DEF: hash chains
          PtrMax,    \* PTR_MAX: the largest offset that fits a pointer field
          Hash,      \* _db_hash: the chain of a key
          KeyLen,    \* strlen(key)
          DatLen,    \* strlen(data) + 1
          Blank,     \* a key or data overwritten with blanks
          None,      \* no record
          Offered    \* the calls that processes make

ASSUME DbAssumption ==
    /\ IsFiniteSet(Procs) /\ IsFiniteSet(Scanners) /\ Procs \cap Scanners = {}
    /\ NHash \in Nat \ {0} /\ PtrMax \in Nat
    /\ Hash \in [Keys -> 1 .. NHash]
    /\ KeyLen \in [Keys -> Nat] /\ DatLen \in [Vals -> Nat]
    /\ Blank \notin Keys \cup Vals /\ None \notin Keys \cup Vals /\ Blank # None
    /\ "none" \notin Vals \cup {None}

VARIABLES head,   \* index file: free list pointer and hash table
          idx,    \* index file: the index records
          dat,    \* data file
          rd, wr, \* holders of the read and write locks on offsets 0 .. NHash
          pc,     \* next step of each process
          db,     \* DB structure and local variables of each process
          \* what the callers see, and history
          call, ret, map,
          must,   \* keys that have been there, untouched, since db_rewind
          got     \* those of them db_nextrec has returned

files == <<head, idx, dat>>
locks == <<rd, wr>>
seen == <<must, got>>
vars == <<files, locks, pc, db, call, ret, map, seen>>

FREE_OFF == 0
ChainOff(p) == Hash[call[p].key]

\* An index record's pointer field comes first, so its offset is the record's.
IsRecord(off) == off > NHash
Rec(off) == idx[off - NHash]
NextOff == NHash + Len(idx) + 1

db_readptr(off) == IF IsRecord(off) THEN Rec(off).ptr ELSE head[off]

db_writeptr(off, ptr) ==
    IF IsRecord(off)
    THEN idx' = [idx EXCEPT ![off - NHash].ptr = ptr] /\ UNCHANGED head
    ELSE head' = [head EXCEPT ![off] = ptr] /\ UNCHANGED idx

\* The DB structure, with the local variables of the functions that use it; off
\* is where a function has come to, or the position of a sequential read.
NoDB == [idxoff |-> 0, datoff |-> 0, ptrval |-> 0, ptroff |-> 0, key |-> Blank,
         off |-> 0, chainptr |-> 0, freeptr |-> 0, saveptr |-> 0, saveoff |-> 0]

Go(p, label) == pc' = [pc EXCEPT ![p] = label]
Clear(p) == db' = [db EXCEPT ![p] = NoDB]

\* db_readidx leaves the record it read, and its offset, in the DB structure.
db_readidx(p, off) == db' = [db EXCEPT ![p].idxoff = off, ![p].datoff = Rec(off).dat,
                                       ![p].ptrval = Rec(off).ptr]

WriteLock(p, off) == /\ rd[off] \subseteq {p} /\ wr[off] \subseteq {p}
                     /\ wr' = [wr EXCEPT ![off] = {p}]
                     /\ UNCHANGED rd
ReadLock(p, off) == /\ wr[off] \subseteq {p}
                    /\ rd' = [rd EXCEPT ![off] = @ \cup {p}]
                    /\ UNCHANGED wr
Unlock(p, off) == /\ rd' = [rd EXCEPT ![off] = @ \ {p}]
                  /\ wr' = [wr EXCEPT ![off] = @ \ {p}]

\* A step before or after the moment at which its call takes effect, and the
\* step at that moment.
Quiet == UNCHANGED <<map, ret, call, seen>>
Effect(p, v, r) == /\ map' = [map EXCEPT ![call[p].key] = v]
                   /\ ret' = [ret EXCEPT ![p] = r]
                   /\ UNCHANGED <<call, seen>>
Result(p, r) == Effect(p, map[call[p].key], r)

-----------------------------------------------------------------------------
\* The library as its callers see it.
KS == INSTANCE KeyStore

ASSUME OfferedAssumption == Offered \subseteq KS!Calls /\ None \notin KS!Calls

Init == /\ head = [o \in 0 .. NHash |-> 0]
        /\ idx = <<>> /\ dat = <<>>
        /\ rd = [o \in 0 .. NHash |-> {}] /\ wr = [o \in 0 .. NHash |-> {}]
        /\ pc = [p \in Procs \cup Scanners |-> "idle"]
        /\ db = [p \in Procs \cup Scanners |-> NoDB]
        /\ KS!Init
        /\ must = [s \in Scanners |-> {}] /\ got = [s \in Scanners |-> {}]

Call(p, c) == /\ pc[p] = "idle"
              /\ call' = [call EXCEPT ![p] = c]
              /\ must' = IF c.op = "fetch" THEN must
                         ELSE [s \in Scanners |-> must[s] \ {c.key}]
              /\ got' = [s \in Scanners |-> got[s] \cap must'[s]]
              /\ Go(p, "lock")
              /\ UNCHANGED <<files, locks, db, ret, map>>

\* Mutant: a fetch that takes no lock.
LockNoRead(p) == /\ pc[p] = "lock"
                 /\ IF call[p].op = "fetch" THEN UNCHANGED locks
                                            ELSE WriteLock(p, ChainOff(p))
                 /\ Go(p, "first")
                 /\ UNCHANGED <<files, db>> /\ Quiet

\* db_find_and_lock: the lock, the head of the chain, its records.
Lock(p) == /\ pc[p] = "lock"
           /\ IF call[p].op = "fetch" THEN ReadLock(p, ChainOff(p))
                                      ELSE WriteLock(p, ChainOff(p))
           /\ Go(p, "first")
           /\ UNCHANGED <<files, db>> /\ Quiet

First(p) == /\ pc[p] = "first"
            /\ db' = [db EXCEPT ![p].ptroff = ChainOff(p), ![p].off = db_readptr(ChainOff(p))]
            /\ Go(p, "walk")
            /\ UNCHANGED <<files, locks>> /\ Quiet

Walk(p) == /\ pc[p] = "walk" /\ db[p].off # 0
           /\ Rec(db[p].off).key # call[p].key
           /\ db' = [db EXCEPT ![p].ptroff = db[p].off, ![p].off = Rec(db[p].off).ptr]
           /\ UNCHANGED <<files, locks, pc>> /\ Quiet

\* What each call makes of a key that is not there ...
Missing(p) ==
    /\ pc[p] = "walk" /\ db[p].off = 0
    /\ LET c == call[p]
       IN  \/ c.op = "fetch" /\ Result(p, None) /\ Go(p, "return")
           \/ c.op = "delete" /\ Result(p, "err") /\ Go(p, "return")
           \/ c.flag = "DB_REPLACE" /\ Result(p, "err") /\ Go(p, "return")
           \/ c.flag \in {"DB_INSERT", "DB_STORE"} /\ Quiet /\ Go(p, "s_ptr")
    /\ UNCHANGED <<files, locks, db>>

\* ... and of one that is.
Found(p) ==
    /\ pc[p] = "walk" /\ db[p].off # 0
    /\ Rec(db[p].off).key = call[p].key
    /\ db_readidx(p, db[p].off)
    /\ LET c == call[p]
       IN  \/ c.op = "fetch" /\ Quiet /\ Go(p, "readdat")
           \/ c.op = "delete" /\ Quiet /\ Go(p, "d_lock")
           \/ c.flag = "DB_INSERT" /\ Result(p, "exists") /\ Go(p, "return")
           \/ /\ c.flag \in {"DB_REPLACE", "DB_STORE"} /\ Quiet
              /\ Go(p, IF DatLen[c.val] = Rec(db[p].off).len THEN "o_dat" ELSE "d_lock")
    /\ UNCHANGED <<files, locks>>

db_readdat(p) == /\ pc[p] = "readdat"
                 /\ Result(p, dat[db[p].datoff])
                 /\ Go(p, "return")
                 /\ UNCHANGED <<files, locks, db>>

\* Unlocking the chain, at the end of every call.
Return(p) == /\ pc[p] = "return"
             /\ Unlock(p, ChainOff(p))
             /\ call' = [call EXCEPT ![p] = None]
             /\ ret' = [ret EXCEPT ![p] = "none"]
             /\ Go(p, "idle") /\ Clear(p)
             /\ UNCHANGED <<files, map, seen>>

-----------------------------------------------------------------------------
\* db_dodelete: under the lock of the free list, blanks over the data, then the
\* index record, which becomes the head of the free list.
LockFree(p) == /\ pc[p] \in {"d_lock", "f_lock"}
               /\ WriteLock(p, FREE_OFF)
               /\ Go(p, IF pc[p] = "d_lock" THEN "d_dat" ELSE "f_first")
               /\ UNCHANGED <<files, db>> /\ Quiet

BlankData(p) == /\ pc[p] = "d_dat"
                /\ dat' = [dat EXCEPT ![db[p].datoff] = Blank]
                /\ Go(p, "d_free")
                /\ UNCHANGED <<head, idx, locks, db>> /\ Quiet

ReadFree(p) == /\ pc[p] = "d_free"
               /\ db' = [db EXCEPT ![p].freeptr = db_readptr(FREE_OFF), ![p].saveptr = db[p].ptrval]
               /\ Go(p, "d_idx")
               /\ UNCHANGED <<files, locks>> /\ Quiet

BlankIndex(p) == /\ pc[p] = "d_idx"
                 /\ idx' = [idx EXCEPT ![db[p].idxoff - NHash].key = Blank,
                                       ![db[p].idxoff - NHash].ptr = db[p].freeptr]
                 /\ db' = [db EXCEPT ![p].ptrval = db[p].freeptr]
                 /\ IF call[p].op = "delete" THEN Effect(p, None, "ok") ELSE Quiet
                 /\ Go(p, "d_head")
                 /\ UNCHANGED <<head, dat, locks>>

SetFree(p) == /\ pc[p] = "d_head"
              /\ db_writeptr(FREE_OFF, db[p].idxoff)
              /\ Go(p, "d_chain")
              /\ UNCHANGED <<dat, locks, db>> /\ Quiet

\* Mutant: the pointer of the deleted record is not saved before it is rewritten.
UnchainUnsaved(p) == /\ pc[p] = "d_chain"
                     /\ db_writeptr(db[p].ptroff, db[p].ptrval)
                     /\ Unlock(p, FREE_OFF)
                     /\ Go(p, IF call[p].op = "delete" THEN "return" ELSE "s_reread")
                     /\ UNCHANGED <<dat, db>> /\ Quiet

Unchain(p) == /\ pc[p] = "d_chain"
              /\ db_writeptr(db[p].ptroff, db[p].saveptr)
              /\ Unlock(p, FREE_OFF)
              /\ Go(p, IF call[p].op = "delete" THEN "return" ELSE "s_reread")
              /\ UNCHANGED <<dat, db>> /\ Quiet

-----------------------------------------------------------------------------
\* db_store.  Reading the head of the chain: before an insertion looks for a
\* free record, and again after a replacement has deleted the old one.
ReadChain(p) == /\ pc[p] \in {"s_ptr", "s_reread"}
                /\ db' = [db EXCEPT ![p] = [NoDB EXCEPT !.chainptr = db_readptr(ChainOff(p))]]
                /\ Go(p, IF pc[p] = "s_ptr" THEN "f_lock" ELSE "a_dat")
                /\ UNCHANGED <<files, locks>> /\ Quiet

\* db_findfree: the first free record with room for just this key and data.
FirstFree(p) == /\ pc[p] = "f_first"
                /\ db' = [db EXCEPT ![p].saveoff = FREE_OFF, ![p].off = db_readptr(FREE_OFF)]
                /\ Go(p, "f_walk")
                /\ UNCHANGED <<files, locks>> /\ Quiet

Fits(p, r) == r.klen = KeyLen[call[p].key] /\ r.len = DatLen[call[p].val]

WalkFree(p) ==
    /\ pc[p] = "f_walk" /\ db[p].off # 0
    /\ IF Fits(p, Rec(db[p].off))
       THEN db_readidx(p, db[p].off) /\ Go(p, "f_take")
       ELSE /\ db' = [db EXCEPT ![p].saveoff = db[p].off, ![p].off = Rec(db[p].off).ptr]
            /\ UNCHANGED pc
    /\ UNCHANGED <<files, locks>> /\ Quiet

\* Mutant: the free list stays locked when no record fits.
NoneFreeLocked(p) == /\ pc[p] = "f_walk" /\ db[p].off = 0
                     /\ Go(p, "a_dat")
                     /\ UNCHANGED <<files, locks, db>> /\ Quiet

NoneFree(p) == /\ pc[p] = "f_walk" /\ db[p].off = 0
               /\ Unlock(p, FREE_OFF)
               /\ Go(p, "a_dat")
               /\ UNCHANGED <<files, db>> /\ Quiet

\* Mutant: the record stays on the free list although it is used again.
TakeFreeKept(p) == /\ pc[p] = "f_take"
                   /\ Unlock(p, FREE_OFF)
                   /\ Go(p, "r_dat")
                   /\ UNCHANGED <<files, db>> /\ Quiet

TakeFree(p) == /\ pc[p] = "f_take"
               /\ db_writeptr(db[p].saveoff, db[p].ptrval)
               /\ Unlock(p, FREE_OFF)
               /\ Go(p, "r_dat")
               /\ UNCHANGED <<dat, db>> /\ Quiet

\* Writing data over a record: one taken from the free list, or the old data of
\* the same length, where this is all there is to do.
OverwriteData(p) ==
    /\ pc[p] \in {"r_dat", "o_dat"}
    /\ dat' = [dat EXCEPT ![db[p].datoff] = call[p].val]
    /\ IF pc[p] = "r_dat" THEN Quiet /\ Go(p, "r_idx")
                          ELSE Effect(p, call[p].val, "ok") /\ Go(p, "return")
    /\ UNCHANGED <<head, idx, locks, db>>

\* With its key in the index file a record is there for db_nextrec; no other
\* call looks at its chain before the lock is gone.
ReuseIndex(p) == /\ pc[p] = "r_idx"
                 /\ idx' = [idx EXCEPT ![db[p].idxoff - NHash].key = call[p].key,
                                       ![db[p].idxoff - NHash].ptr = db[p].chainptr]
                 /\ Effect(p, call[p].val, "ok")
                 /\ Go(p, "chain")
                 /\ UNCHANGED <<head, dat, locks, db>>

AppendData(p) == /\ pc[p] = "a_dat"
                 /\ dat' = Append(dat, call[p].val)
                 /\ db' = [db EXCEPT ![p].datoff = Len(dat) + 1]
                 /\ Go(p, "a_idx")
                 /\ UNCHANGED <<head, idx, locks>> /\ Quiet

AppendIndex(p) ==
    /\ pc[p] = "a_idx"
    /\ idx' = Append(idx, [key |-> call[p].key, klen |-> KeyLen[call[p].key],
                           dat |-> db[p].datoff, len |-> DatLen[call[p].val],
                           ptr |-> db[p].chainptr])
    /\ db' = [db EXCEPT ![p].idxoff = NextOff]
    /\ IF NextOff <= PtrMax THEN Effect(p, call[p].val, "ok") ELSE Quiet
    /\ Go(p, "chain")
    /\ UNCHANGED <<head, dat, locks>>

Chain(p) == /\ pc[p] = "chain" /\ db[p].idxoff <= PtrMax
            /\ db_writeptr(ChainOff(p), db[p].idxoff)
            /\ Go(p, "return")
            /\ UNCHANGED <<dat, locks, db>> /\ Quiet

\* db_writeptr finds an offset too long for the field: err_quit.  The process
\* ends and the kernel drops its locks; the record it appended stays, on no
\* chain, and the record it was to replace is gone.
Quit(p) == /\ pc[p] = "chain" /\ db[p].idxoff > PtrMax
           /\ Unlock(p, ChainOff(p))
           /\ map' = [map EXCEPT ![call[p].key] = None]
           /\ call' = [call EXCEPT ![p] = None]
           /\ Go(p, "gone") /\ Clear(p)
           /\ UNCHANGED <<files, ret, seen>>

-----------------------------------------------------------------------------
\* db_rewind and db_nextrec, in a process that does nothing else with its
\* handle: the position in the index file is that of the descriptor.
BeingWritten == {call[p].key : p \in {q \in Procs : call[q] # None /\ call[q].op # "fetch"}}

Rewind(s) == /\ pc[s] = "idle"
             /\ db' = [db EXCEPT ![s].off = NHash + 1]
             /\ must' = [must EXCEPT ![s] = {k \in Keys \ BeingWritten : map[k] # None}]
             /\ got' = [got EXCEPT ![s] = {}]
             /\ Go(s, "next")
             /\ UNCHANGED <<files, locks, call, ret, map>>

\* Mutant: db_nextrec without the lock of the free list.
NextLockNone(s) == /\ pc[s] = "next"
                   /\ Go(s, "n_idx")
                   /\ UNCHANGED <<files, locks, db>> /\ Quiet

NextLock(s) == /\ pc[s] = "next"
               /\ ReadLock(s, FREE_OFF)
               /\ Go(s, "n_idx")
               /\ UNCHANGED <<files, db>> /\ Quiet

ReadRecord(s) == db' = [db EXCEPT ![s].off = @ + 1, ![s].key = Rec(db[s].off).key,
                                  ![s].datoff = Rec(db[s].off).dat]

\* Mutant: a deleted record ends the scan.
NextIndexStops(s) ==
    /\ pc[s] = "n_idx" /\ db[s].off < NextOff
    /\ IF Rec(db[s].off).key = Blank
       THEN db' = [db EXCEPT ![s].off = NextOff] /\ UNCHANGED pc
       ELSE ReadRecord(s) /\ Go(s, "n_dat")
    /\ UNCHANGED <<files, locks>> /\ Quiet

NextIndex(s) ==
    /\ pc[s] = "n_idx" /\ db[s].off < NextOff
    /\ IF Rec(db[s].off).key = Blank
       THEN db' = [db EXCEPT ![s].off = @ + 1] /\ UNCHANGED pc
       ELSE ReadRecord(s) /\ Go(s, "n_dat")
    /\ UNCHANGED <<files, locks>> /\ Quiet

NextData(s) == /\ pc[s] = "n_dat"
               /\ got' = [got EXCEPT ![s] = @ \cup ({db[s].key} \cap must[s])]
               /\ Unlock(s, FREE_OFF)
               /\ db' = [db EXCEPT ![s] = [NoDB EXCEPT !.off = db[s].off]]
               /\ Go(s, "next")
               /\ UNCHANGED <<files, call, ret, map, must>>

NextEOF(s) == /\ pc[s] = "n_idx" /\ db[s].off >= NextOff
              /\ Unlock(s, FREE_OFF)
              /\ Go(s, "eof")
              /\ UNCHANGED <<files, db>> /\ Quiet

\* The caller has its NULL and will start again.
Done(s) == /\ pc[s] = "eof"
           /\ Go(s, "idle") /\ Clear(s)
           /\ must' = [must EXCEPT ![s] = {}] /\ got' = [got EXCEPT ![s] = {}]
           /\ UNCHANGED <<files, locks, call, ret, map>>

-----------------------------------------------------------------------------
Step(p) == \/ Lock(p) \/ First(p) \/ Walk(p) \/ Missing(p) \/ Found(p)
           \/ db_readdat(p) \/ Return(p)
           \/ LockFree(p) \/ BlankData(p) \/ ReadFree(p) \/ BlankIndex(p)
           \/ SetFree(p) \/ Unchain(p)
           \/ ReadChain(p) \/ FirstFree(p) \/ WalkFree(p) \/ NoneFree(p) \/ TakeFree(p)
           \/ OverwriteData(p) \/ ReuseIndex(p) \/ AppendData(p) \/ AppendIndex(p)
           \/ Chain(p) \/ Quit(p)

Scan(s) == \/ Rewind(s) \/ NextLock(s) \/ NextIndex(s) \/ NextData(s) \/ NextEOF(s)
           \/ Done(s)

Next == \/ \E p \in Procs : (\E c \in Offered : Call(p, c)) \/ Step(p)
        \/ \E s \in Scanners : Scan(s)

Spec == Init /\ [][Next]_vars

-----------------------------------------------------------------------------
\* Properties.

IndexRecord == [key : Keys \cup {Blank}, klen : Nat, dat : Nat, len : Nat, ptr : Nat]

DB == [idxoff : Nat, datoff : Nat, ptrval : Nat, ptroff : Nat, key : Keys \cup {Blank},
       off : Nat, chainptr : Nat, freeptr : Nat, saveptr : Nat, saveoff : Nat]

TypeOK ==
    /\ head \in [0 .. NHash -> Nat] /\ idx \in Seq(IndexRecord) /\ dat \in Seq(Vals \cup {Blank})
    /\ rd \in [0 .. NHash -> SUBSET (Procs \cup Scanners)]
    /\ wr \in [0 .. NHash -> SUBSET Procs]
    /\ DOMAIN pc = Procs \cup Scanners
    /\ db \in [Procs \cup Scanners -> DB]
    /\ call \in [Procs -> KS!Calls \cup {None}]
    /\ DOMAIN ret = Procs
    /\ map \in [Keys -> Vals \cup {None}]
    /\ must \in [Scanners -> SUBSET Keys] /\ got \in [Scanners -> SUBSET Keys]

\* The records a list runs through, and whether it comes to an end: at[n] is the
\* n-th record of the list that starts in the pointer at offset o.
List(o) == LET at[n \in 0 .. Len(idx)] ==
                   IF n = 0 THEN head[o]
                   ELSE IF at[n - 1] = 0 THEN 0 ELSE Rec(at[n - 1]).ptr
           IN  [recs |-> {at[n] : n \in 0 .. Len(idx)} \ {0}, ends |-> at[Len(idx)] = 0]

\* Whenever nobody holds the write lock of a hash chain, walking the chain ends
\* and finds each key of that chain that is in the database exactly once, with
\* its present data, and nothing else: db_find_and_lock may trust it.
ChainsRight ==
    \A h \in 1 .. NHash : wr[h] = {} =>
        LET l == List(h) IN
        /\ l.ends
        /\ \A k \in Keys : Hash[k] = h =>
               {dat[Rec(o).dat] : o \in {r \in l.recs : Rec(r).key = k}}
                   = IF map[k] = None THEN {} ELSE {map[k]}
        /\ \A o, r \in l.recs : Rec(o).key = Rec(r).key => o = r
        /\ \A o \in l.recs : Rec(o).key \in Keys /\ Hash[Rec(o).key] = h

\* Free records are neither lost nor used twice, although a record is taken from
\* the free list and given its key under different locks: with no lock held,
\* every record that a pointer can reach is on exactly one list, the blank
\* ones on the free list, and no two records share their data.
FreeListRight ==
    (\A o \in 0 .. NHash : wr[o] = {}) =>
        /\ List(FREE_OFF).ends
        /\ \A o \in NHash + 1 .. NHash + Len(idx) : o <= PtrMax =>
               /\ Cardinality({h \in 0 .. NHash : o \in List(h).recs}) = 1
               /\ o \in List(FREE_OFF).recs <=> Rec(o).key = Blank
        /\ \A i, j \in DOMAIN idx : idx[i].dat = idx[j].dat => i = j

\* A record db_nextrec is about to return is in the database with that data: it
\* is never one half deleted, replaced or inserted (the comment before
\* readw_lock in db_nextrec).  A record beyond PtrMax is one Quit left behind.
NextrecRight ==
    \A s \in Scanners : pc[s] = "n_dat" /\ db[s].off - 1 <= PtrMax =>
        dat[db[s].datoff] = map[db[s].key]

\* A scan returns every key that was there at db_rewind and that nobody stored
\* or deleted since, once, whatever other keys come, go and change places (and
\* again, perhaps, where Quit left a record with that key behind).
ScanComplete ==
    \A s \in Scanners :
        /\ pc[s] = "eof" => must[s] \subseteq got[s]
        /\ pc[s] = "n_dat" /\ db[s].off - 1 <= PtrMax => db[s].key \notin got[s]

\* The processes never wait for each other in a circle: while calls are under
\* way, or a scan holds its lock, one of those processes can take its next step.
NoCircularWait ==
    LET busy == {p \in Procs : call[p] # None}
        reading == {s \in Scanners : pc[s] \in {"n_idx", "n_dat"}}
    IN  busy \cup reading # {} => \/ \E p \in busy : ENABLED Step(p)
                                  \/ \E s \in reading : ENABLED Scan(s)

\* db_fetch, db_store and db_delete, with all their reads and writes, implement
\* the map of KeyStore: each acts at one moment between its call and its return.
Linearizable == KS!Spec
=============================================================================
