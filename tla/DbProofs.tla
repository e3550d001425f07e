------------------------------ MODULE DbProofs ------------------------------
(***************************************************************************)
(* What the database library guarantees for any number of processes, keys, *)
(* hash chains and records.  Which records a chain leads to is said with   *)
(* sets closed under its pointers, so that the steps need no induction     *)
(* over the file; one at the end shows that following the pointers, as     *)
(* List does, comes to just those records.                                 *)
(***************************************************************************)
EXTENDS Db, FiniteSetTheorems, TLAPS

-----------------------------------------------------------------------------
\* Linked lists: h is the offset where the list begins, C its records, f the
\* pointers.  Each pointer leads to a record or ends the list, and no two lead to
\* the same.
Linked(h, C, f) == /\ \A y \in {h} \cup C : f[y] \in C \cup {0}
                   /\ \A y, z \in {h} \cup C : f[y] = f[z] /\ f[y] # 0 => y = z

\* Following the pointers from x one comes to r.
Reaches(h, C, f, x, r) == \A S \in SUBSET ({h} \cup C \cup {0}) :
                              0 \in S /\ x \in S /\ (\A y \in S \ {0} : f[y] \in S) => r \in S

\* A list on which every record is reached from the first pointer.
IsChain(h, C, f) == Linked(h, C, f) /\ \A r \in C : Reaches(h, C, f, f[h], r)

-----------------------------------------------------------------------------
\* The index file as functions of the offset.
Recs == NHash + 1 .. NHash + Len(idx)
Key == [r \in Recs |-> Rec(r).key]
Dat == [r \in Recs |-> Rec(r).dat]
Ptr == [y \in 0 .. NHash + Len(idx) |-> db_readptr(y)]

\* Steps of a process that has a record to itself; the records that are on no list
\* for it; those on each hash chain; those on the free list.
Holding == {"r_dat", "r_idx", "d_head", "chain"}
Held == {db[p].idxoff : p \in {q \in Procs : pc[q] \in Holding}}
Chained == [h \in 1 .. NHash |-> {r \in Recs : /\ r <= PtrMax /\ Key[r] # Blank /\ r \notin Held
                                               /\ Hash[Key[r]] = h}]
Free == {r \in Recs : Key[r] = Blank /\ r \notin Held}

-----------------------------------------------------------------------------
\* Steps of db_dodelete; those of an insertion that looks for a free record; those
\* of db_store before its new index record; those under the lock of the free list.
DeleteSteps == {"d_lock", "d_dat", "d_free", "d_idx", "d_head", "d_chain"}
InsertSteps == {"s_ptr", "f_lock", "f_first", "f_walk", "f_take", "r_dat", "r_idx"}
AppendSteps == {"a_dat", "a_idx"}
Freeing == {"d_dat", "d_free", "d_idx", "d_head", "d_chain", "f_first", "f_walk", "f_take"}

\* The step at which a call takes effect is behind it.
Effected(p) == \/ pc[p] = "return"
               \/ pc[p] \in {"d_head", "d_chain"} /\ call[p].op = "delete"
               \/ pc[p] = "chain" /\ db[p].idxoff <= PtrMax

\* Which step belongs to which call, and which call has its answer.
InCall(p) ==
    /\ pc[p] \in {"idle", "lock", "first", "walk", "readdat", "return", "o_dat", "s_reread",
                  "chain", "gone"} \cup DeleteSteps \cup InsertSteps \cup AppendSteps
    /\ pc[p] \in {"idle", "gone"} <=> call[p] = None
    /\ pc[p] = "readdat" => call[p].op = "fetch"
    /\ pc[p] \in DeleteSteps => call[p].op # "fetch"
    /\ pc[p] \in {"o_dat", "s_reread", "chain"} \cup InsertSteps \cup AppendSteps =>
           call[p].op = "store"
    /\ ret[p] = "none" <=> ~Effected(p)

CallInv == /\ \A p \in Procs : InCall(p)
           /\ \A s \in Scanners : pc[s] \in {"idle", "next", "n_idx", "n_dat", "eof"}

\* Between taking the lock of its chain and giving it back.
Inside(p) == pc[p] \notin {"idle", "lock", "gone"}

\* A write lock excludes all others, and who is where holds what.
LocksInv ==
    /\ \A o \in 0 .. NHash : \A p \in wr[o], q \in wr[o] \cup rd[o] : q = p
    /\ \A p \in Procs :
          /\ Inside(p) => IF call[p].op = "fetch" THEN p \in rd[ChainOff(p)] ELSE p \in wr[ChainOff(p)]
          /\ pc[p] \in Freeing => p \in wr[FREE_OFF]
    /\ \A s \in Scanners : pc[s] \in {"n_idx", "n_dat"} => s \in rd[FREE_OFF]

\* A record is held by one process, and blank until it has its new key.
HeldInv ==
    /\ \A r \in Recs : Key[r] = Blank => r <= PtrMax
    /\ \A p, q \in Procs : pc[p] \in Holding /\ pc[q] \in Holding /\ db[p].idxoff = db[q].idxoff => p = q
    /\ \A p \in Procs : pc[p] \in Holding =>
          /\ db[p].idxoff \in Recs
          /\ Key[db[p].idxoff] = IF pc[p] = "chain" THEN call[p].key ELSE Blank

Unchaining(p) == pc[p] \in {"d_head", "d_chain"}

\* The lists, but for a chain from which a record is being taken; each key is on
\* its chain once.
ListInv ==
    /\ \A h \in 1 .. NHash : (\A p \in Procs : Unchaining(p) => ChainOff(p) # h) =>
                                 IsChain(h, Chained[h], Ptr)
    /\ \A h \in 1 .. NHash : \A r, o \in Chained[h] : Key[r] = Key[o] => r = o
    /\ IsChain(FREE_OFF, Free, Ptr)

-----------------------------------------------------------------------------
\* What a process knows.  On its way along the chain: the key, if it is there, is
\* still ahead.
Walking(p) ==
    LET h == ChainOff(p) IN
    /\ db[p].ptroff \in {h} \cup Chained[h]
    /\ db[p].off = Ptr[db[p].ptroff] /\ db[p].off # db[p].ptroff
    /\ \A r \in Chained[h] : Key[r] = call[p].key => Reaches(h, Chained[h], Ptr, db[p].off, r)

\* With the record of its key found.
FoundSteps == {"readdat", "o_dat", "d_lock", "d_dat", "d_free", "d_idx"}
AtRecord(p) ==
    LET h == ChainOff(p) IN
    /\ db[p].idxoff \in Chained[h] /\ Key[db[p].idxoff] = call[p].key
    /\ db[p].datoff = Dat[db[p].idxoff] /\ db[p].ptrval = Ptr[db[p].idxoff]
    /\ db[p].ptroff \in {h} \cup Chained[h]
    /\ Ptr[db[p].ptroff] = db[p].idxoff /\ db[p].ptroff # db[p].idxoff

\* With that record blank and the pointer to it still to be written.
HalfOut(p) ==
    LET h == ChainOff(p) IN
    /\ db[p].ptroff \in {h} \cup Chained[h]
    /\ IsChain(h, Chained[h], [y \in {h} \cup Chained[h] |->
                                  IF y = db[p].ptroff THEN db[p].saveptr ELSE Ptr[y]])

\* No record on the chain has the key of the call.
AbsentSteps == {"d_head", "d_chain", "s_reread", "chain"} \cup InsertSteps \cup AppendSteps
Absent(p) == \A r \in Chained[ChainOff(p)] : Key[r] # call[p].key

\* The old head of the chain is in hand.
ChainptrSteps == {"chain"} \cup (InsertSteps \ {"s_ptr"}) \cup AppendSteps

\* On the free list.
WalkingFree(p) == /\ db[p].saveoff \in {FREE_OFF} \cup Free
                  /\ db[p].off = Ptr[db[p].saveoff]
                  /\ db[p].off # 0 => db[p].off # db[p].saveoff
AtFree(p) == /\ db[p].saveoff \in {FREE_OFF} \cup Free
             /\ db[p].idxoff \in Free /\ db[p].idxoff = Ptr[db[p].saveoff]
             /\ db[p].idxoff # db[p].saveoff
             /\ db[p].ptrval = Ptr[db[p].idxoff] /\ db[p].datoff = Dat[db[p].idxoff]

Knows(p) ==
    /\ pc[p] = "walk" => Walking(p)
    /\ pc[p] \in FoundSteps => AtRecord(p)
    /\ pc[p] = "d_idx" => db[p].freeptr = Ptr[FREE_OFF] /\ db[p].saveptr = db[p].ptrval
    /\ Unchaining(p) => HalfOut(p)
    /\ pc[p] \in AbsentSteps => Absent(p)
    /\ pc[p] \in ChainptrSteps => db[p].chainptr = Ptr[ChainOff(p)]
    /\ pc[p] = "chain" => Ptr[db[p].idxoff] = db[p].chainptr
    /\ pc[p] = "d_head" => Ptr[db[p].idxoff] = Ptr[FREE_OFF]
    /\ pc[p] = "f_walk" => WalkingFree(p)
    /\ pc[p] = "f_take" => AtFree(p)
    /\ pc[p] \in {"r_dat", "r_idx"} => db[p].datoff = Dat[db[p].idxoff]

-----------------------------------------------------------------------------
\* What a call has written to the data file for its record.
HasData(p) ==
    /\ pc[p] = "a_idx" => /\ db[p].datoff \in 1 .. Len(dat) /\ dat[db[p].datoff] = call[p].val
                          /\ \A r \in Recs : Dat[r] # db[p].datoff
    /\ pc[p] = "r_idx" => dat[db[p].datoff] = call[p].val
    /\ pc[p] = "chain" => dat[Dat[db[p].idxoff]] = call[p].val

\* Every record has data of its own, and so has a call that has just appended some.
DataInv ==
    /\ \A r \in Recs : Dat[r] \in 1 .. Len(dat)
    /\ \A r, o \in Recs : Dat[r] = Dat[o] => r = o
    /\ \A p, q \in Procs : pc[p] = "a_idx" /\ pc[q] = "a_idx" /\ db[p].datoff = db[q].datoff => p = q

\* A call that has deleted a record, or is about to chain one.
Between(p) == \/ pc[p] \in {"s_reread", "chain"} \cup AppendSteps
              \/ Unchaining(p) /\ call[p].op = "store"

\* What the map has for the key of a call, and what the call will make of it.
Expects(p) ==
    LET there == map[call[p].key] # None
        flag == call[p].flag
    IN  /\ pc[p] \in FoundSteps \cup {"s_reread"} => there
        /\ Unchaining(p) /\ call[p].op = "store" => there
        /\ pc[p] \in DeleteSteps \cup {"o_dat", "s_reread"} /\ call[p].op = "store" => flag # "DB_INSERT"
        /\ pc[p] \in InsertSteps => ~there /\ flag # "DB_REPLACE"
        /\ pc[p] \in AppendSteps => flag # IF there THEN "DB_INSERT" ELSE "DB_REPLACE"
        /\ pc[p] = "chain" /\ db[p].idxoff <= PtrMax => map[call[p].key] = call[p].val

\* The map the callers see is what the chains hold.
MapInv ==
    /\ \A h \in 1 .. NHash : \A r \in Chained[h] :
          (\A p \in Procs : pc[p] \in {"d_free", "d_idx"} => db[p].idxoff # r) =>
              dat[Dat[r]] = map[Key[r]]
    /\ \A k \in Keys : (\A r \in Chained[Hash[k]] : Key[r] # k)
                           /\ (\A p \in Procs : Between(p) => call[p].key # k) => map[k] = None

KnowsInv == \A p \in Procs : Knows(p) /\ HasData(p) /\ Expects(p)

\* A scan has returned just those of its keys whose records are behind it.
Position(s) == IF pc[s] = "n_dat" THEN db[s].off - 1 ELSE db[s].off

ScanRight(s) ==
    /\ got[s] \subseteq must[s] /\ must[s] \cap BeingWritten = {}
    /\ pc[s] = "idle" => must[s] = {}
    /\ pc[s] = "eof" => must[s] \subseteq got[s]
    /\ \A k \in must[s] : \E r \in Chained[Hash[k]] : Key[r] = k
    /\ pc[s] \in {"next", "n_idx", "n_dat"} =>
          /\ db[s].off > NHash
          /\ \A h \in 1 .. NHash : \A r \in Chained[h] : Key[r] \in must[s] =>
                 (Key[r] \in got[s] <=> r < Position(s))
    /\ pc[s] = "n_dat" =>
          /\ db[s].off - 1 \in Recs /\ Key[db[s].off - 1] = db[s].key
          /\ db[s].key # Blank /\ Dat[db[s].off - 1] = db[s].datoff

ScanInv == \A s \in Scanners : ScanRight(s)

StoreInv == TypeOK /\ HeldInv /\ ListInv /\ KnowsInv /\ DataInv /\ MapInv /\ ScanInv

DbInv == /\ TypeOK /\ CallInv /\ LocksInv /\ HeldInv /\ ListInv /\ KnowsInv /\ DataInv /\ MapInv /\ ScanInv
-----------------------------------------------------------------------------
\* Whether a list is right depends only on the pointers of its own records.
LEMMA SameLinks ==
    ASSUME NEW h, NEW C, NEW f, NEW g, \A y \in {h} \cup C : g[y] = f[y]
    PROVE  /\ Linked(h, C, f) => Linked(h, C, g)
           /\ IsChain(h, C, f) => IsChain(h, C, g)
           /\ \A x, r : Reaches(h, C, f, x, r) => Reaches(h, C, g, x, r)
<1>1. Linked(h, C, f) => Linked(h, C, g)
  BY DEF Linked
<1>2. ASSUME NEW x, NEW r, Reaches(h, C, f, x, r)
      PROVE  Reaches(h, C, g, x, r)
  <2> SUFFICES ASSUME NEW S \in SUBSET ({h} \cup C \cup {0}), 0 \in S, x \in S,
                      \A y \in S \ {0} : g[y] \in S
               PROVE  r \in S
    BY DEF Reaches
  <2>1. \A y \in S \ {0} : f[y] \in S
    OBVIOUS
  <2> QED BY <2>1, <1>2 DEF Reaches
<1>3. f[h] = g[h]
  OBVIOUS
<1> QED BY <1>1, <1>2, <1>3 DEF IsChain

\* db_find_and_lock goes on to the next record: what is not here is ahead.
LEMMA WalkOn ==
    ASSUME NEW h, NEW C, NEW f, NEW y \in {h} \cup C, NEW r, 0 \notin {h} \cup C,
           Reaches(h, C, f, y, r), r # y
    PROVE  Reaches(h, C, f, f[y], r)
<1> SUFFICES ASSUME NEW S \in SUBSET ({h} \cup C \cup {0}), 0 \in S, f[y] \in S,
                    \A z \in S \ {0} : f[z] \in S
             PROVE  r \in S
  BY DEF Reaches
<1> DEFINE T == S \cup {y}
<1>1. T \in SUBSET ({h} \cup C \cup {0}) /\ 0 \in T /\ y \in T /\ \A z \in T \ {0} : f[z] \in T
  OBVIOUS
<1>2. r \in T
  BY <1>1 DEF Reaches
<1> QED BY <1>2

\* At the end of the list nothing is ahead.
LEMMA WalkEnds ==
    ASSUME NEW h, NEW C, NEW f, NEW r \in C, 0 \notin {h} \cup C
    PROVE  ~Reaches(h, C, f, 0, r)
<1>1. {0} \in SUBSET ({h} \cup C \cup {0}) /\ 0 \in {0} /\ \A z \in {0} \ {0} : f[z] \in {0}
  OBVIOUS
<1>2. r \notin {0}
  OBVIOUS
<1> QED BY <1>1, <1>2 DEF Reaches

\* A record x is taken out when the pointer to it, at o, gets the one it has.
LEMMA TakeOut ==
    ASSUME NEW h, NEW C, NEW f, NEW g, NEW x \in C, NEW o \in {h} \cup C, h \notin C, 0 \notin C,
           o # x, f[o] = x, g[o] = f[x],
           \A y \in {h} \cup (C \ {x}) : y # o => g[y] = f[y],
           IsChain(h, C, f)
    PROVE  IsChain(h, C \ {x}, g)
<1>0. Linked(h, C, f)
  BY DEF IsChain
<1>1. \A y \in {h} \cup C : f[y] = x => y = o
  BY <1>0 DEF Linked
<1>2. f[x] # x /\ f[x] \in (C \ {x}) \cup {0}
  BY <1>0, <1>1 DEF Linked
<1>3. \A y \in {h} \cup (C \ {x}) : g[y] \in (C \ {x}) \cup {0}
  BY <1>0, <1>1, <1>2 DEF Linked
<1>4. ASSUME NEW y \in {h} \cup (C \ {x}), NEW z \in {h} \cup (C \ {x}), g[y] = g[z], g[y] # 0
      PROVE  y = z
  BY <1>0, <1>4 DEF Linked
<1>5. Linked(h, C \ {x}, g)
  BY <1>3, <1>4 DEF Linked
<1>6. ASSUME NEW r \in C \ {x}
      PROVE  Reaches(h, C \ {x}, g, g[h], r)
  <2> SUFFICES ASSUME NEW S \in SUBSET ({h} \cup (C \ {x}) \cup {0}), 0 \in S, g[h] \in S,
                      \A y \in S \ {0} : g[y] \in S
               PROVE  r \in S
    BY DEF Reaches
  <2>0. x # h /\ x # 0 /\ x \notin S /\ (o # h => o # 0)
    OBVIOUS
  <2>1. CASE o = h \/ o \in S
    <3> DEFINE T == S \cup {x}
    <3>0. g[o] \in S
      BY <2>0, <2>1
    <3>1. \A y \in T \ {0} : f[y] \in T
      BY <2>0, <3>0
    <3>2. f[h] \in T
      BY <2>0
    <3>3. T \in SUBSET ({h} \cup C \cup {0}) /\ 0 \in T
      OBVIOUS
    <3>4. r \in T
      <4> HIDE DEF T
      <4> QED BY <3>1, <3>2, <3>3 DEF Reaches, IsChain
    <3> QED BY <3>4, <1>6
  <2>2. CASE o # h /\ o \notin S
    <3>1. (\A y \in S \ {0} : f[y] \in S) /\ f[h] \in S
      BY <2>0, <2>2
    <3> QED BY <3>1, <1>6 DEF Reaches, IsChain
  <2> QED BY <2>1, <2>2
<1> QED BY <1>5, <1>6 DEF IsChain

\* A record x is put in front when it gets the first pointer and its offset
\* takes that pointer's place.
LEMMA PutInFront ==
    ASSUME NEW h, NEW C, NEW f, NEW g, NEW x, x # h, x \notin C, x # 0, h \notin C, 0 \notin C,
           g[h] = x, g[x] = f[h], \A y \in C : g[y] = f[y],
           IsChain(h, C, f)
    PROVE  IsChain(h, C \cup {x}, g)
<1>0. Linked(h, C, f)
  BY DEF IsChain
<1>1. \A y \in {h} \cup C : f[y] # x
  BY <1>0 DEF Linked
<1>2. \A y \in {h} \cup (C \cup {x}) : g[y] \in (C \cup {x}) \cup {0}
  BY <1>0 DEF Linked
<1>3. ASSUME NEW y \in {h} \cup (C \cup {x}), NEW z \in {h} \cup (C \cup {x}), g[y] = g[z], g[y] # 0
      PROVE  y = z
  BY <1>0, <1>1, <1>3 DEF Linked
<1>4. Linked(h, C \cup {x}, g)
  BY <1>2, <1>3 DEF Linked
<1>5. ASSUME NEW r \in C \cup {x}
      PROVE  Reaches(h, C \cup {x}, g, g[h], r)
  <2> SUFFICES ASSUME NEW S \in SUBSET ({h} \cup (C \cup {x}) \cup {0}), 0 \in S, g[h] \in S,
                      \A y \in S \ {0} : g[y] \in S
               PROVE  r \in S
    BY DEF Reaches
  <2>1. x \in S /\ f[h] \in S
    OBVIOUS
  <2> DEFINE T == S \ {x}
  <2>2. (\A y \in T \ {0} : f[y] \in T) /\ f[h] \in T
    BY <2>1, <1>1
  <2>3. T \in SUBSET ({h} \cup C \cup {0}) /\ 0 \in T
    OBVIOUS
  <2>4. r # x => r \in T
    <3> HIDE DEF T
    <3> QED BY <2>2, <2>3, <1>5 DEF Reaches, IsChain
  <2> QED BY <2>1, <2>4
<1> QED BY <1>4, <1>5 DEF IsChain
-----------------------------------------------------------------------------
\* Reading the index file.
LEMMA IndexFacts ==
    ASSUME TypeOK
    PROVE  /\ Recs \subseteq Nat \ (0 .. NHash) /\ 0 .. NHash + Len(idx) = 0 .. NHash \cup Recs
           /\ Key \in [Recs -> Keys \cup {Blank}] /\ Dat \in [Recs -> Nat]
           /\ Ptr \in [0 .. NHash \cup Recs -> Nat]
           /\ \A o \in 0 .. NHash : Ptr[o] = head[o] /\ db_readptr(o) = Ptr[o]
           /\ \A r \in Recs : /\ Rec(r) \in IndexRecord /\ Rec(r).key = Key[r]
                              /\ Rec(r).dat = Dat[r] /\ Rec(r).ptr = Ptr[r]
           /\ NHash \in Nat \ {0} /\ PtrMax \in Nat /\ FREE_OFF \in 0 .. NHash
<1>0. Len(idx) \in Nat /\ NHash \in Nat \ {0} /\ PtrMax \in Nat
  BY DbAssumption DEF TypeOK
<1>1. Recs \subseteq Nat \ (0 .. NHash) /\ 0 .. NHash + Len(idx) = 0 .. NHash \cup Recs
  BY <1>0 DEF Recs
<1>2. \A r \in Recs : r - NHash \in 1 .. Len(idx)
  BY <1>0 DEF Recs
<1>3. \A r \in Recs : Rec(r) \in IndexRecord
  BY <1>2 DEF Rec, TypeOK
<1>4. \A r \in Recs : /\ Rec(r).key \in Keys \cup {Blank} /\ Rec(r).dat \in Nat /\ Rec(r).ptr \in Nat
  BY <1>3 DEF IndexRecord
<1>5. \A r \in Recs : IsRecord(r) /\ db_readptr(r) = Rec(r).ptr
  BY <1>0, <1>1 DEF db_readptr, IsRecord
<1>6. \A o \in 0 .. NHash : ~IsRecord(o) /\ db_readptr(o) = head[o] /\ head[o] \in Nat
  BY <1>0 DEF db_readptr, IsRecord, TypeOK
<1>7. \A y \in 0 .. NHash \cup Recs : Ptr[y] = db_readptr(y) /\ db_readptr(y) \in Nat
  BY <1>1, <1>4, <1>5, <1>6 DEF Ptr
<1>8. Ptr \in [0 .. NHash \cup Recs -> Nat]
  BY <1>1, <1>7 DEF Ptr
<1> QED BY <1>0, <1>1, <1>3, <1>4, <1>5, <1>6, <1>7, <1>8 DEF Key, Dat, FREE_OFF

\* Replacing one element of a sequence.
LEMMA ReplaceInSeq ==
    ASSUME NEW S, NEW s \in Seq(S), NEW i \in 1 .. Len(s), NEW e \in S
    PROVE  /\ [s EXCEPT ![i] = e] \in Seq(S) /\ Len([s EXCEPT ![i] = e]) = Len(s)
           /\ [s EXCEPT ![i] = e][i] = e
           /\ \A j \in 1 .. Len(s) : j # i => [s EXCEPT ![i] = e][j] = s[j]
OBVIOUS

\* Writing a pointer.
LEMMA WritesPtr ==
    ASSUME TypeOK, NEW o \in 0 .. NHash \cup Recs, NEW v \in Nat, db_writeptr(o, v)
    PROVE  /\ Recs' = Recs /\ Key' = Key /\ Dat' = Dat /\ Ptr' = [Ptr EXCEPT ![o] = v]
           /\ head' \in [0 .. NHash -> Nat] /\ idx' \in Seq(IndexRecord) /\ Len(idx') = Len(idx)
<1>0. /\ Len(idx) \in Nat /\ NHash \in Nat \ {0} /\ idx \in Seq(IndexRecord)
      /\ head \in [0 .. NHash -> Nat]
  BY DbAssumption DEF TypeOK
<1>1. CASE IsRecord(o)
  <2> DEFINE i == o - NHash
  <2>1. i \in 1 .. Len(idx) /\ o \in Recs
    BY <1>0, <1>1 DEF IsRecord, Recs
  <2>2. idx' = [idx EXCEPT ![i].ptr = v] /\ head' = head
    BY <1>1 DEF db_writeptr
  <2>3. idx[i] \in IndexRecord
    BY <1>0, <2>1
  <2>4. [idx[i] EXCEPT !.ptr = v] \in IndexRecord
    BY <2>3 DEF IndexRecord
  <2>5. idx' \in Seq(IndexRecord) /\ Len(idx') = Len(idx)
    <3>1. idx' = [idx EXCEPT ![i] = [idx[i] EXCEPT !.ptr = v]]
      BY <2>2
    <3> HIDE DEF i
    <3> QED BY <3>1, <2>1, <2>4, <1>0
  <2>6. \A j \in 1 .. Len(idx) : j # i => idx'[j] = idx[j]
    BY <2>2, <1>0
  <2>7. idx'[i].key = idx[i].key /\ idx'[i].dat = idx[i].dat /\ idx'[i].ptr = v
    BY <2>2, <2>3, <2>1, <1>0 DEF IndexRecord
  <2>8. Recs' = Recs
    BY <2>5 DEF Recs
  <2>9. \A r \in Recs : r - NHash \in 1 .. Len(idx) /\ (r # o => r - NHash # i)
    BY <1>0, <2>1 DEF Recs
  <2>10. Key' = Key /\ Dat' = Dat
    BY <2>6, <2>7, <2>8, <2>9 DEF Key, Dat, Rec
  <2>11. Ptr' = [Ptr EXCEPT ![o] = v]
    <3>0. 0 .. NHash + Len(idx') = 0 .. NHash + Len(idx) /\ o \in 0 .. NHash + Len(idx)
      BY <2>5, <2>1, <1>0 DEF Recs
    <3>1. ASSUME NEW y \in 0 .. NHash + Len(idx)
          PROVE  Ptr'[y] = IF y = o THEN v ELSE Ptr[y]
      <4>1. Ptr'[y] = IF IsRecord(y) THEN idx'[y - NHash].ptr ELSE head'[y]
        BY <3>0 DEF Ptr, db_readptr, Rec, IsRecord
      <4>2. Ptr[y] = IF IsRecord(y) THEN idx[y - NHash].ptr ELSE head[y]
        BY DEF Ptr, db_readptr, Rec, IsRecord
      <4>3. IsRecord(y) => y \in Recs
        BY <1>0 DEF IsRecord, Recs
      <4> QED BY <4>1, <4>2, <4>3, <2>2, <2>6, <2>7, <2>9, <1>1
    <3>2. Ptr' = [y \in 0 .. NHash + Len(idx) |-> IF y = o THEN v ELSE Ptr[y]]
      BY <3>0, <3>1 DEF Ptr
    <3> QED BY <3>2, <3>0 DEF Ptr
  <2> QED BY <2>2, <2>5, <2>8, <2>10, <2>11, <1>0
<1>2. CASE ~IsRecord(o)
  <2>1. o \in 0 .. NHash
    BY <1>0, <1>2 DEF IsRecord, Recs
  <2>2. idx' = idx /\ head' = [head EXCEPT ![o] = v]
    BY <1>2 DEF db_writeptr
  <2>3. head' \in [0 .. NHash -> Nat] /\ \A y \in 0 .. NHash : head'[y] = IF y = o THEN v ELSE head[y]
    BY <2>1, <2>2, <1>0
  <2>4. Recs' = Recs /\ Key' = Key /\ Dat' = Dat
    BY <2>2 DEF Recs, Key, Dat, Rec
  <2>5. o \in 0 .. NHash + Len(idx)
    BY <2>1, <1>0
  <2>6. ASSUME NEW y \in 0 .. NHash + Len(idx)
        PROVE  Ptr'[y] = IF y = o THEN v ELSE Ptr[y]
    <3>1. Ptr'[y] = IF IsRecord(y) THEN idx[y - NHash].ptr ELSE head'[y]
      BY <2>2 DEF Ptr, db_readptr, Rec, IsRecord
    <3>2. Ptr[y] = IF IsRecord(y) THEN idx[y - NHash].ptr ELSE head[y]
      BY DEF Ptr, db_readptr, Rec, IsRecord
    <3>3. ~IsRecord(y) => y \in 0 .. NHash
      BY <1>0 DEF IsRecord
    <3> QED BY <3>1, <3>2, <3>3, <2>3, <1>2
  <2>7. Ptr' = [y \in 0 .. NHash + Len(idx) |-> IF y = o THEN v ELSE Ptr[y]]
    BY <2>2, <2>6 DEF Ptr
  <2>8. Ptr' = [Ptr EXCEPT ![o] = v]
    BY <2>7, <2>5 DEF Ptr
  <2> QED BY <2>2, <2>3, <2>4, <2>8, <1>0
<1> QED BY <1>1, <1>2

\* Writing the key and the pointer of an index record.
LEMMA WritesRecord ==
    ASSUME TypeOK, NEW x \in Recs, NEW k \in Keys \cup {Blank}, NEW v \in Nat, head' = head,
           idx' = [idx EXCEPT ![x - NHash].key = k, ![x - NHash].ptr = v]
    PROVE  /\ Recs' = Recs /\ Key' = [Key EXCEPT ![x] = k] /\ Dat' = Dat
           /\ Ptr' = [Ptr EXCEPT ![x] = v]
           /\ idx' \in Seq(IndexRecord) /\ Len(idx') = Len(idx)
<1>0. Len(idx) \in Nat /\ NHash \in Nat \ {0} /\ idx \in Seq(IndexRecord)
  BY DbAssumption DEF TypeOK
<1> DEFINE i == x - NHash
<1>1. i \in 1 .. Len(idx)
  BY <1>0 DEF Recs
<1>2. idx[i] \in IndexRecord
  BY <1>0, <1>1
<1>3. PICK rec \in IndexRecord : rec = [idx[i] EXCEPT !.key = k, !.ptr = v]
  <2>1. [idx[i] EXCEPT !.key = k, !.ptr = v] \in IndexRecord
    BY <1>2 DEF IndexRecord
  <2> QED BY <2>1
<1>4. rec.key = k /\ rec.ptr = v /\ rec.dat = idx[i].dat
  BY <1>2, <1>3 DEF IndexRecord
<1>5. idx' = [idx EXCEPT ![i] = rec]
  BY <1>0, <1>1, <1>3
<1> HIDE DEF i
<1>6. idx' \in Seq(IndexRecord) /\ Len(idx') = Len(idx)
  <2>1. [idx EXCEPT ![i] = rec] \in Seq(IndexRecord)
    BY <1>1, <1>0, ReplaceInSeq
  <2>2. Len([idx EXCEPT ![i] = rec]) = Len(idx)
    BY <1>1, <1>0, ReplaceInSeq
  <2> QED BY <2>1, <2>2, <1>5, Zenon
<1>7. idx'[i] = rec /\ \A j \in 1 .. Len(idx) : j # i => idx'[j] = idx[j]
  BY <1>5, <1>1, <1>0
<1>8. Recs' = Recs
  BY <1>6 DEF Recs
<1>9. /\ x - NHash = i
      /\ \A r \in Recs : r - NHash \in 1 .. Len(idx) /\ (r # x => r - NHash # i)
  BY <1>0 DEF Recs, i
<1>10. \A r \in Recs : Key'[r] = IF r = x THEN k ELSE Key[r]
  BY <1>4, <1>7, <1>8, <1>9 DEF Key, Rec
<1>11. Dat' = Dat
  BY <1>4, <1>7, <1>8, <1>9 DEF Dat, Rec
<1>12. Key' = [Key EXCEPT ![x] = k]
  BY <1>10, <1>8 DEF Key
<1>13. 0 .. NHash + Len(idx') = 0 .. NHash + Len(idx) /\ x \in 0 .. NHash + Len(idx)
  BY <1>6, <1>0 DEF Recs
<1>14. ASSUME NEW y \in 0 .. NHash + Len(idx)
       PROVE  Ptr'[y] = IF y = x THEN v ELSE Ptr[y]
  <2>1. Ptr'[y] = IF IsRecord(y) THEN idx'[y - NHash].ptr ELSE head[y]
    BY <1>13 DEF Ptr, db_readptr, Rec, IsRecord
  <2>2. Ptr[y] = IF IsRecord(y) THEN idx[y - NHash].ptr ELSE head[y]
    BY DEF Ptr, db_readptr, Rec, IsRecord
  <2>3. IsRecord(y) <=> y \in Recs
    BY <1>0 DEF IsRecord, Recs
  <2> QED BY <2>1, <2>2, <2>3, <1>4, <1>7, <1>9
<1>15. Ptr' = [y \in 0 .. NHash + Len(idx) |-> IF y = x THEN v ELSE Ptr[y]]
  BY <1>13, <1>14 DEF Ptr
<1>16. Ptr' = [Ptr EXCEPT ![x] = v]
  BY <1>15, <1>13 DEF Ptr
<1> QED BY <1>6, <1>8, <1>11, <1>12, <1>16

\* Appending an index record.
LEMMA AppendsRecord ==
    ASSUME TypeOK, NEW rec \in IndexRecord, head' = head, idx' = Append(idx, rec)
    PROVE  /\ NextOff \in Nat \ (0 .. NHash \cup Recs) /\ Recs' = Recs \cup {NextOff}
           /\ idx' \in Seq(IndexRecord)
           /\ Key'[NextOff] = rec.key /\ Dat'[NextOff] = rec.dat /\ Ptr'[NextOff] = rec.ptr
           /\ \A r \in Recs : Key'[r] = Key[r] /\ Dat'[r] = Dat[r]
           /\ \A y \in 0 .. NHash \cup Recs : Ptr'[y] = Ptr[y]
<1>0. Len(idx) \in Nat /\ NHash \in Nat \ {0} /\ idx \in Seq(IndexRecord)
  BY DbAssumption DEF TypeOK
<1>1. /\ idx' \in Seq(IndexRecord) /\ Len(idx') = Len(idx) + 1 /\ idx'[Len(idx) + 1] = rec
      /\ \A j \in 1 .. Len(idx) : idx'[j] = idx[j]
  BY <1>0
<1>2. PICK x : x = NextOff
  OBVIOUS
<1>3. x = NHash + Len(idx) + 1
  BY <1>2 DEF NextOff
<1>4. x \in Nat \ (0 .. NHash \cup Recs) /\ Recs' = Recs \cup {x}
  BY <1>0, <1>1, <1>3 DEF Recs
<1>5. x - NHash = Len(idx) + 1 /\ IsRecord(x)
  BY <1>0, <1>3 DEF IsRecord
<1>6. Key'[x] = rec.key /\ Dat'[x] = rec.dat
  BY <1>1, <1>4, <1>5 DEF Key, Dat, Rec
<1>7. \A r \in Recs : r - NHash \in 1 .. Len(idx)
  BY <1>0 DEF Recs
<1>8. \A r \in Recs : Key'[r] = Key[r] /\ Dat'[r] = Dat[r]
  BY <1>1, <1>4, <1>7 DEF Key, Dat, Rec
<1>9. 0 .. NHash + Len(idx') = (0 .. NHash + Len(idx)) \cup {x}
  BY <1>0, <1>1, <1>3
<1>10. Ptr'[x] = rec.ptr
  BY <1>1, <1>5, <1>9 DEF Ptr, db_readptr, Rec, IsRecord
<1>11. ASSUME NEW y \in 0 .. NHash + Len(idx)
       PROVE  Ptr'[y] = Ptr[y]
  <2>1. Ptr'[y] = IF IsRecord(y) THEN idx'[y - NHash].ptr ELSE head[y]
    BY <1>9 DEF Ptr, db_readptr, Rec, IsRecord
  <2>2. Ptr[y] = IF IsRecord(y) THEN idx[y - NHash].ptr ELSE head[y]
    BY DEF Ptr, db_readptr, Rec, IsRecord
  <2>3. IsRecord(y) <=> y \in Recs
    BY <1>0 DEF IsRecord, Recs
  <2> QED BY <2>1, <2>2, <2>3, <1>1, <1>7
<1>12. 0 .. NHash \cup Recs = 0 .. NHash + Len(idx)
  BY IndexFacts
<1> QED BY <1>1, <1>2, <1>4, <1>6, <1>8, <1>10, <1>11, <1>12
-----------------------------------------------------------------------------
\* A step of a process leaves what the others have in memory alone.
OnlyMoves(p) == /\ \A q \in (Procs \cup Scanners) \ {p} : pc'[q] = pc[q] /\ db'[q] = db[q]
                /\ \A q \in Procs \ {p} : call'[q] = call[q] /\ ret'[q] = ret[q]
                /\ DOMAIN pc' = Procs \cup Scanners /\ DOMAIN ret' = Procs

\* A step of a call leaves the other processes where they are.
LEMMA StepMoves ==
    ASSUME TypeOK, NEW p \in Procs, NEW c, Call(p, c) \/ Step(p)
    PROVE  OnlyMoves(p)
<1> USE DEF OnlyMoves, Go, Clear, Quiet, Effect, Result, db_readidx
<1>0. /\ DOMAIN pc = Procs \cup Scanners /\ DOMAIN ret = Procs
      /\ db \in [Procs \cup Scanners -> DB] /\ call \in [Procs -> KS!Calls \cup {None}]
  BY DEF TypeOK
<1>1. CASE Call(p, c)
  BY <1>0, <1>1 DEF Call
<1>2. CASE Lock(p)
  BY <1>0, <1>2 DEF Lock
<1>3. CASE First(p)
  BY <1>0, <1>3 DEF First
<1>4. CASE Walk(p)
  BY <1>0, <1>4 DEF Walk
<1>5. CASE Missing(p)
  BY <1>0, <1>5 DEF Missing
<1>6. CASE Found(p)
  BY <1>0, <1>6 DEF Found
<1>7. CASE db_readdat(p)
  BY <1>0, <1>7 DEF db_readdat
<1>8. CASE Return(p)
  BY <1>0, <1>8 DEF Return
<1>9. CASE LockFree(p)
  BY <1>0, <1>9 DEF LockFree
<1>10. CASE BlankData(p)
  BY <1>0, <1>10 DEF BlankData
<1>11. CASE ReadFree(p)
  BY <1>0, <1>11 DEF ReadFree
<1>12. CASE BlankIndex(p)
  BY <1>0, <1>12 DEF BlankIndex
<1>13. CASE SetFree(p)
  BY <1>0, <1>13 DEF SetFree
<1>14. CASE Unchain(p)
  BY <1>0, <1>14 DEF Unchain
<1>15. CASE ReadChain(p)
  BY <1>0, <1>15 DEF ReadChain
<1>16. CASE FirstFree(p)
  BY <1>0, <1>16 DEF FirstFree
<1>17. CASE WalkFree(p)
  BY <1>0, <1>17 DEF WalkFree
<1>18. CASE NoneFree(p)
  BY <1>0, <1>18 DEF NoneFree
<1>19. CASE TakeFree(p)
  BY <1>0, <1>19 DEF TakeFree
<1>20. CASE OverwriteData(p)
  BY <1>0, <1>20 DEF OverwriteData
<1>21. CASE ReuseIndex(p)
  BY <1>0, <1>21 DEF ReuseIndex
<1>22. CASE AppendData(p)
  BY <1>0, <1>22 DEF AppendData
<1>23. CASE AppendIndex(p)
  BY <1>0, <1>23 DEF AppendIndex
<1>24. CASE Chain(p)
  BY <1>0, <1>24 DEF Chain
<1>25. CASE Quit(p)
  BY <1>0, <1>25 DEF Quit
<1> QED BY <1>1, <1>2, <1>3, <1>4, <1>5, <1>6, <1>7, <1>8, <1>9, <1>10, <1>11, <1>12, <1>13, <1>14, <1>15, <1>16, <1>17, <1>18, <1>19, <1>20, <1>21, <1>22, <1>23, <1>24, <1>25 DEF Step

\* A call under way has a key, and a store data and a flag.
LEMMA CallFacts ==
    ASSUME TypeOK, NEW p \in Procs, call[p] # None
    PROVE  /\ call[p] \in KS!Calls /\ call[p].op \in {"fetch", "delete", "store"}
           /\ call[p].key \in Keys /\ ChainOff(p) \in 1 .. NHash /\ ChainOff(p) \in 0 .. NHash
           /\ ChainOff(p) # FREE_OFF
           /\ call[p].op = "store" => call[p].val \in Vals /\ call[p].flag \in KS!Flags
           /\ call[p].flag \in KS!Flags => call[p].op = "store"
<1>1. call[p] \in KS!Calls
  BY DEF TypeOK
<1>2. call[p].key \in Keys /\ call[p].op \in {"fetch", "delete", "store"}
  BY <1>1 DEF KS!Calls
<1>3. call[p].op = "store" => call[p].val \in Vals /\ call[p].flag \in KS!Flags
  BY <1>1 DEF KS!Calls
<1>4. call[p].flag \in KS!Flags => call[p].op = "store"
  BY <1>1 DEF KS!Calls, KS!Flags
<1> QED BY <1>1, <1>2, <1>3, <1>4, DbAssumption DEF ChainOff, FREE_OFF

\* Who writes to a chain, or to the free list, is alone with it.
LEMMA Alone ==
    ASSUME TypeOK, CallInv, LocksInv, NEW p \in Procs
    PROVE  /\ Inside(p) /\ call[p].op # "fetch" =>
                 \A q \in Procs \ {p} : Inside(q) => ChainOff(q) # ChainOff(p)
           /\ pc[p] \in Freeing => \A q \in Procs \ {p} : pc[q] \notin Freeing
           /\ pc[p] \in Freeing => \A s \in Scanners : pc[s] \notin {"n_idx", "n_dat"}
<1>1. ASSUME Inside(p), call[p].op # "fetch", NEW q \in Procs \ {p}, Inside(q)
      PROVE  ChainOff(q) # ChainOff(p)
  <2>1. call[p] # None /\ ChainOff(p) \in 0 .. NHash
    BY <1>1, CallFacts DEF CallInv, InCall, Inside
  <2>2. p \in wr[ChainOff(p)] /\ q \in wr[ChainOff(q)] \cup rd[ChainOff(q)]
    BY <1>1 DEF LocksInv
  <2> QED BY <2>1, <2>2 DEF LocksInv
<1>2. pc[p] \in Freeing => p \in wr[FREE_OFF] /\ wr[FREE_OFF] \cup rd[FREE_OFF] \subseteq {p}
  BY DbAssumption DEF LocksInv, FREE_OFF
<1>3. pc[p] \in Freeing => \A q \in Procs \ {p} : pc[q] \notin Freeing
  BY <1>2 DEF LocksInv
<1>4. pc[p] \in Freeing => \A s \in Scanners : pc[s] \notin {"n_idx", "n_dat"}
  BY <1>2, DbAssumption DEF LocksInv
<1> QED BY <1>1, <1>3, <1>4

\* db_fetch reads the data the map has for its key.
LEMMA ReadsMap ==
    ASSUME DbInv, NEW p \in Procs, pc[p] = "readdat"
    PROVE  /\ dat[db[p].datoff] = map[call[p].key] /\ map[call[p].key] \in Vals
           /\ map[call[p].key] # "none"
<1>0. TypeOK /\ CallInv /\ LocksInv /\ Knows(p) /\ Expects(p) /\ MapInv /\ InCall(p)
  BY DEF DbInv, KnowsInv, CallInv
<1>1. call[p] # None /\ ChainOff(p) \in 1 .. NHash /\ call[p].key \in Keys
  BY <1>0, CallFacts DEF InCall
<1>2. PICK x : x = db[p].idxoff
  OBVIOUS
<1>3. x \in Chained[ChainOff(p)] /\ Key[x] = call[p].key /\ db[p].datoff = Dat[x]
  BY <1>0, <1>2 DEF Knows, FoundSteps, AtRecord
<1>4. \A q \in Procs : pc[q] \in {"d_free", "d_idx"} => db[q].idxoff # x
  <2> SUFFICES ASSUME NEW q \in Procs, pc[q] \in {"d_free", "d_idx"}, db[q].idxoff = x
               PROVE  FALSE
    OBVIOUS
  <2>1. Knows(q) /\ InCall(q) /\ Inside(q) /\ call[q].op # "fetch"
    BY DEF DbInv, KnowsInv, CallInv, InCall, Inside, DeleteSteps
  <2>2. Key[x] = call[q].key
    BY <2>1 DEF Knows, FoundSteps, AtRecord
  <2>3. ChainOff(q) = ChainOff(p) /\ Inside(p) /\ p # q
    BY <1>3, <2>2 DEF ChainOff, Inside
  <2> QED BY <2>1, <2>3, <1>0, Alone
<1>5. dat[db[p].datoff] = map[call[p].key]
  BY <1>0, <1>1, <1>3, <1>4 DEF MapInv
<1>6. map[call[p].key] # None /\ map[call[p].key] \in Vals \cup {None}
  BY <1>0, <1>1 DEF Expects, FoundSteps, TypeOK
<1> QED BY <1>5, <1>6, DbAssumption

\* Steps and calls stay together.
LEMMA CallStep ==
    ASSUME DbInv, Next
    PROVE  CallInv'
<1>0. TypeOK /\ CallInv /\ HeldInv
  BY DEF DbInv
<1>1. ASSUME NEW p \in Procs, NEW c, (c \in Offered /\ Call(p, c)) \/ Step(p)
      PROVE  CallInv'
  <2> USE DEF Go, Clear, Quiet, Effect, Result, db_readidx, Effected
  <2>0. /\ DOMAIN pc = Procs \cup Scanners /\ DOMAIN ret = Procs
        /\ db \in [Procs \cup Scanners -> DB] /\ call \in [Procs -> KS!Calls \cup {None}]
        /\ Procs \cap Scanners = {} /\ InCall(p)
    BY <1>0, DbAssumption DEF TypeOK, CallInv
  <2>1. OnlyMoves(p)
    BY <1>0, <1>1, StepMoves
  <2>2. \A q \in Procs \ {p} : InCall(q)'
    BY <1>0, <2>1 DEF CallInv, InCall, OnlyMoves
  <2>3. \A s \in Scanners : pc'[s] = pc[s]
    BY <2>0, <2>1 DEF OnlyMoves
  <2>4. InCall(p)'
    <3>1. CASE c \in Offered /\ Call(p, c)
      BY <2>0, <3>1, OfferedAssumption DEF Call, InCall, DeleteSteps, InsertSteps, AppendSteps
    <3>2. CASE Lock(p)
      BY <2>0, <3>2 DEF Lock, InCall, DeleteSteps, InsertSteps, AppendSteps
    <3>3. CASE First(p)
      BY <2>0, <3>3 DEF First, InCall, DeleteSteps, InsertSteps, AppendSteps
    <3>4. CASE Walk(p)
      BY <2>0, <3>4 DEF Walk, InCall, DeleteSteps, InsertSteps, AppendSteps
    <3>5. CASE Missing(p)
      <4>1. call[p] # None
        BY <2>0, <3>5 DEF Missing, InCall
      <4> QED BY <2>0, <3>5, <4>1, <1>0, CallFacts, DbAssumption
              DEF Missing, InCall, DeleteSteps, InsertSteps, AppendSteps, KS!Flags
    <3>6. CASE Found(p)
      <4>1. call[p] # None
        BY <2>0, <3>6 DEF Found, InCall
      <4> QED BY <2>0, <3>6, <4>1, <1>0, CallFacts, DbAssumption
              DEF Found, InCall, DeleteSteps, InsertSteps, AppendSteps, KS!Flags
    <3>7. CASE db_readdat(p)
      BY <2>0, <3>7, ReadsMap DEF db_readdat, InCall, DeleteSteps, InsertSteps, AppendSteps
    <3>8. CASE Return(p)
      BY <2>0, <3>8 DEF Return, InCall, DeleteSteps, InsertSteps, AppendSteps
    <3>9. CASE LockFree(p)
      BY <2>0, <3>9 DEF LockFree, InCall, DeleteSteps, InsertSteps, AppendSteps
    <3>10. CASE BlankData(p)
      BY <2>0, <3>10 DEF BlankData, InCall, DeleteSteps, InsertSteps, AppendSteps
    <3>11. CASE ReadFree(p)
      BY <2>0, <3>11 DEF ReadFree, InCall, DeleteSteps, InsertSteps, AppendSteps
    <3>12. CASE BlankIndex(p)
      BY <2>0, <3>12 DEF BlankIndex, InCall, DeleteSteps, InsertSteps, AppendSteps
    <3>13. CASE SetFree(p)
      BY <2>0, <3>13 DEF SetFree, InCall, DeleteSteps, InsertSteps, AppendSteps
    <3>14. CASE Unchain(p)
      <4>1. call[p] # None
        BY <2>0, <3>14 DEF Unchain, InCall
      <4> QED BY <2>0, <3>14, <4>1, <1>0, CallFacts, DbAssumption
              DEF Unchain, InCall, DeleteSteps, InsertSteps, AppendSteps, KS!Flags
    <3>15. CASE ReadChain(p)
      BY <2>0, <3>15 DEF ReadChain, InCall, DeleteSteps, InsertSteps, AppendSteps
    <3>16. CASE FirstFree(p)
      BY <2>0, <3>16 DEF FirstFree, InCall, DeleteSteps, InsertSteps, AppendSteps
    <3>17. CASE WalkFree(p)
      BY <2>0, <3>17 DEF WalkFree, InCall, DeleteSteps, InsertSteps, AppendSteps
    <3>18. CASE NoneFree(p)
      BY <2>0, <3>18 DEF NoneFree, InCall, DeleteSteps, InsertSteps, AppendSteps
    <3>19. CASE TakeFree(p)
      BY <2>0, <3>19 DEF TakeFree, InCall, DeleteSteps, InsertSteps, AppendSteps
    <3>20. CASE OverwriteData(p)
      BY <2>0, <3>20 DEF OverwriteData, InCall, DeleteSteps, InsertSteps, AppendSteps
    <3>21. CASE ReuseIndex(p)
      <4>1. db[p].idxoff \in Recs /\ Key[db[p].idxoff] = Blank
        BY <1>0, <3>21 DEF ReuseIndex, HeldInv, Holding
      <4>2. db[p].idxoff <= PtrMax
        BY <1>0, <4>1 DEF HeldInv
      <4> QED BY <2>0, <3>21, <4>2 DEF ReuseIndex, InCall, DeleteSteps, InsertSteps, AppendSteps
    <3>22. CASE AppendData(p)
      BY <2>0, <3>22 DEF AppendData, InCall, DeleteSteps, InsertSteps, AppendSteps
    <3>23. CASE AppendIndex(p)
      BY <2>0, <3>23 DEF AppendIndex, InCall, DeleteSteps, InsertSteps, AppendSteps
    <3>24. CASE Chain(p)
      BY <2>0, <3>24 DEF Chain, InCall, DeleteSteps, InsertSteps, AppendSteps
    <3>25. CASE Quit(p)
      <4>1. ~(db[p].idxoff <= PtrMax)
        BY <2>0, <3>25, DbAssumption DEF Quit, DB
      <4> QED BY <2>0, <3>25, <4>1 DEF Quit, InCall, DeleteSteps, InsertSteps, AppendSteps
    <3> QED BY <1>1, <3>1, <3>2, <3>3, <3>4, <3>5, <3>6, <3>7, <3>8, <3>9, <3>10, <3>11, <3>12, <3>13, <3>14, <3>15, <3>16, <3>17, <3>18, <3>19, <3>20, <3>21, <3>22, <3>23, <3>24, <3>25 DEF Step
  <2> QED BY <1>0, <2>2, <2>3, <2>4 DEF CallInv
<1>2. ASSUME NEW s \in Scanners, Scan(s)
      PROVE  CallInv'
  <2>0. DOMAIN pc = Procs \cup Scanners /\ db \in [Procs \cup Scanners -> DB] /\ Procs \cap Scanners = {}
    BY <1>0, DbAssumption DEF TypeOK
  <2>1. /\ UNCHANGED <<call, ret>> /\ \A q \in Procs : pc'[q] = pc[q] /\ db'[q] = db[q]
        /\ \A t \in Scanners : pc'[t] \in {pc[t], "idle", "next", "n_idx", "n_dat", "eof"}
    BY <1>2, <2>0 DEF Scan, Rewind, NextLock, NextIndex, NextData, NextEOF, Done, Go, Clear, Quiet, ReadRecord
  <2>2. \A q \in Procs : InCall(q)'
    BY <1>0, <2>1 DEF CallInv, InCall, Effected
  <2> QED BY <1>0, <2>1, <2>2 DEF CallInv
<1> QED BY <1>1, <1>2 DEF Next

\* The locks.
LEMMA LocksStep ==
    ASSUME DbInv, Next
    PROVE  LocksInv'
<1>0. /\ TypeOK /\ CallInv /\ LocksInv /\ Procs \cap Scanners = {}
      /\ rd \in [0 .. NHash -> SUBSET (Procs \cup Scanners)] /\ wr \in [0 .. NHash -> SUBSET Procs]
      /\ DOMAIN pc = Procs \cup Scanners /\ FREE_OFF \in 0 .. NHash
      /\ call \in [Procs -> KS!Calls \cup {None}]
  BY DbAssumption DEF DbInv, TypeOK, FREE_OFF
<1>1. ASSUME NEW p \in Procs, NEW c, (c \in Offered /\ Call(p, c)) \/ Step(p)
      PROVE  LocksInv'
  <2>0. InCall(p) /\ OnlyMoves(p)
    BY <1>0, <1>1, StepMoves DEF CallInv
  <2>1. CASE /\ UNCHANGED <<rd, wr>>
             /\ Inside(p)' => Inside(p) /\ call'[p] = call[p]
             /\ pc'[p] \in Freeing => pc[p] \in Freeing
    BY <1>0, <2>0, <2>1 DEF LocksInv, OnlyMoves, Inside, ChainOff
  <2>2. CASE Lock(p)
    <3>1. call[p] # None /\ pc[p] = "lock" /\ pc'[p] = "first" /\ call' = call
      BY <1>0, <2>0, <2>2 DEF Lock, InCall, Go, Quiet
    <3>2. PICK h \in 0 .. NHash : h = ChainOff(p) /\ h # FREE_OFF /\ h = Hash[call[p].key]
      BY <1>0, <3>1, CallFacts DEF ChainOff
    <3>3. IF call[p].op = "fetch" THEN ReadLock(p, h) ELSE WriteLock(p, h)
      BY <2>2, <3>2 DEF Lock
    <3>4. \A o \in 0 .. NHash : \A a \in wr'[o], q \in wr'[o] \cup rd'[o] : q = a
      <4> SUFFICES ASSUME NEW o \in 0 .. NHash, NEW a \in wr'[o], NEW q \in wr'[o] \cup rd'[o]
                   PROVE  q = a
        OBVIOUS
      <4>1. o # h => wr'[o] = wr[o] /\ rd'[o] = rd[o]
        BY <1>0, <3>3 DEF ReadLock, WriteLock
      <4>2. o = h /\ call[p].op = "fetch" =>
                wr[o] \subseteq {p} /\ wr'[o] = wr[o] /\ rd'[o] = rd[o] \cup {p}
        BY <1>0, <3>3 DEF ReadLock
      <4>3. o = h /\ call[p].op # "fetch" => wr'[o] = {p} /\ rd'[o] \subseteq {p}
        BY <1>0, <3>3 DEF WriteLock
      <4> QED BY <1>0, <4>1, <4>2, <4>3 DEF LocksInv
    <3>5. /\ \A o \in 0 .. NHash : wr[o] \subseteq wr'[o] /\ rd[o] \subseteq rd'[o]
          /\ IF call[p].op = "fetch" THEN p \in rd'[h] ELSE p \in wr'[h]
      <4>1. CASE call[p].op = "fetch"
        <5>1. wr' = wr /\ rd' = [rd EXCEPT ![h] = rd[h] \cup {p}]
          BY <3>3, <4>1 DEF ReadLock
        <5> QED BY <1>0, <4>1, <5>1
      <4>2. CASE call[p].op # "fetch"
        <5>1. wr[h] \subseteq {p} /\ rd' = rd /\ wr' = [wr EXCEPT ![h] = {p}]
          BY <3>3, <4>2 DEF WriteLock
        <5> QED BY <1>0, <4>2, <5>1
      <4> QED BY <4>1, <4>2
    <3>6. IF call[p].op = "fetch" THEN p \in rd'[h] ELSE p \in wr'[h]
      BY <3>5
    <3>7. ASSUME NEW q \in Procs \ {p}
          PROVE  /\ Inside(q)' => IF call'[q].op = "fetch" THEN q \in rd'[Hash[call'[q].key]]
                                                           ELSE q \in wr'[Hash[call'[q].key]]
                 /\ pc'[q] \in Freeing => q \in wr'[FREE_OFF]
      <4>1. pc'[q] = pc[q] /\ call'[q] = call[q]
        BY <2>0 DEF OnlyMoves
      <4>2. Inside(q) => Hash[call[q].key] \in 0 .. NHash
        BY <1>0, CallFacts DEF Inside, CallInv, InCall, ChainOff
      <4> QED BY <1>0, <3>5, <4>1, <4>2 DEF LocksInv, Inside, ChainOff
    <3>8. \A s \in Scanners : pc'[s] \in {"n_idx", "n_dat"} => s \in rd'[FREE_OFF]
      BY <1>0, <2>0, <3>5 DEF LocksInv, OnlyMoves
    <3> QED BY <3>1, <3>2, <3>4, <3>6, <3>7, <3>8 DEF LocksInv, Freeing, ChainOff
  <2>3. CASE LockFree(p)
    <3>1. /\ pc[p] \in {"d_lock", "f_lock"} /\ pc'[p] \in {"d_dat", "f_first"} /\ call' = call
          /\ WriteLock(p, FREE_OFF)
      BY <1>0, <2>3 DEF LockFree, Go, Quiet
    <3>2. \A o \in 0 .. NHash : \A a \in wr'[o], q \in wr'[o] \cup rd'[o] : q = a
      BY <1>0, <3>1 DEF WriteLock, LocksInv
    <3>3. /\ \A o \in 0 .. NHash : wr[o] \subseteq wr'[o] /\ rd[o] \subseteq rd'[o]
          /\ p \in wr'[FREE_OFF]
      BY <1>0, <3>1 DEF WriteLock
    <3>4. ASSUME NEW q \in Procs
          PROVE  /\ Inside(q)' => IF call'[q].op = "fetch" THEN q \in rd'[Hash[call'[q].key]]
                                                           ELSE q \in wr'[Hash[call'[q].key]]
                 /\ pc'[q] \in Freeing => q \in wr'[FREE_OFF]
      <4>1. /\ Inside(q)' => Inside(q)
            /\ pc'[q] \in Freeing => q = p \/ pc[q] \in Freeing
        BY <2>0, <3>1 DEF OnlyMoves, Inside
      <4>2. Inside(q) => Hash[call[q].key] \in 0 .. NHash
        BY <1>0, CallFacts DEF Inside, CallInv, InCall, ChainOff
      <4> QED BY <1>0, <3>1, <3>3, <4>1, <4>2 DEF LocksInv, ChainOff
    <3>5. \A s \in Scanners : pc'[s] \in {"n_idx", "n_dat"} => s \in rd'[FREE_OFF]
      BY <1>0, <2>0, <3>3 DEF LocksInv, OnlyMoves
    <3> QED BY <3>2, <3>4, <3>5 DEF LocksInv, ChainOff
  <2>4. ASSUME NEW o \in 0 .. NHash, Unlock(p, o), call'[p] # None => call'[p] = call[p],
               Inside(p)' => Inside(p) /\ o # ChainOff(p),
               pc'[p] \in Freeing => pc[p] \in Freeing /\ o # FREE_OFF
        PROVE  LocksInv'
    <3>1. \A a \in 0 .. NHash : /\ wr'[a] \subseteq wr[a] /\ rd'[a] \subseteq rd[a]
                                /\ wr[a] \ {p} \subseteq wr'[a] /\ rd[a] \ {p} \subseteq rd'[a]
                                /\ a # o => wr'[a] = wr[a] /\ rd'[a] = rd[a]
      BY <1>0, <2>4 DEF Unlock
    <3>2. \A a \in 0 .. NHash : \A z \in wr'[a], q \in wr'[a] \cup rd'[a] : q = z
      BY <1>0, <3>1 DEF LocksInv
    <3>3. ASSUME NEW q \in Procs \ {p}
          PROVE  /\ Inside(q)' => IF call'[q].op = "fetch" THEN q \in rd'[Hash[call'[q].key]]
                                                           ELSE q \in wr'[Hash[call'[q].key]]
                 /\ pc'[q] \in Freeing => q \in wr'[FREE_OFF]
      <4>1. pc'[q] = pc[q] /\ call'[q] = call[q]
        BY <2>0 DEF OnlyMoves
      <4>2. Inside(q) => Hash[call[q].key] \in 0 .. NHash
        BY <1>0, CallFacts DEF Inside, CallInv, InCall, ChainOff
      <4> QED BY <1>0, <3>1, <4>1, <4>2 DEF LocksInv, Inside, ChainOff
    <3>4. /\ Inside(p)' => IF call'[p].op = "fetch" THEN p \in rd'[Hash[call'[p].key]]
                                                    ELSE p \in wr'[Hash[call'[p].key]]
          /\ pc'[p] \in Freeing => p \in wr'[FREE_OFF]
      <4>1. ASSUME Inside(p)' PROVE call'[p] = call[p] /\ Hash[call[p].key] \in 0 .. NHash
        <5>1. CallInv'
          BY CallStep
        <5>2. call'[p] # None
          BY <4>1, <5>1 DEF CallInv, InCall, Inside
        <5> QED BY <1>0, <2>4, <4>1, <5>2, CallFacts DEF Inside, CallInv, InCall, ChainOff
      <4> QED BY <1>0, <2>4, <3>1, <4>1 DEF LocksInv, ChainOff
    <3>5. \A s \in Scanners : pc'[s] \in {"n_idx", "n_dat"} => s \in rd'[FREE_OFF]
      BY <1>0, <2>0, <3>1 DEF LocksInv, OnlyMoves
    <3> QED BY <3>2, <3>3, <3>4, <3>5 DEF LocksInv, ChainOff
  <2>5. CASE Return(p) \/ Quit(p)
    <3>1. /\ Unlock(p, ChainOff(p)) /\ call'[p] = None /\ pc'[p] \in {"idle", "gone"} /\ call[p] # None
      BY <1>0, <2>0, <2>5 DEF Return, Quit, Go, InCall
    <3>2. ChainOff(p) \in 0 .. NHash
      BY <1>0, <3>1, CallFacts
    <3> QED BY <3>1, <3>2, <2>4 DEF Inside, Freeing
  <2>6. CASE Unchain(p) \/ NoneFree(p) \/ TakeFree(p)
    <3>1. /\ Unlock(p, FREE_OFF) /\ call' = call /\ pc[p] \in Freeing /\ call[p] # None
          /\ pc'[p] \in {"return", "s_reread", "a_dat", "r_dat"}
      BY <1>0, <2>0, <2>6 DEF Unchain, NoneFree, TakeFree, Go, InCall, Quiet, Freeing
    <3>2. ChainOff(p) # FREE_OFF
      BY <1>0, <3>1, CallFacts
    <3> QED BY <1>0, <3>1, <3>2, <2>4 DEF Inside, Freeing
  <2> USE DEF Go, Quiet, Effect, Result, Inside, Freeing
  <2>7. CASE Call(p, c)
    BY <1>0, <2>1, <2>7 DEF Call, locks
  <2>8. CASE First(p)
    BY <1>0, <2>1, <2>8 DEF First, locks
  <2>9. CASE Walk(p)
    BY <1>0, <2>1, <2>9 DEF Walk, locks
  <2>10. CASE Missing(p)
    BY <1>0, <2>1, <2>10 DEF Missing, locks
  <2>11. CASE Found(p)
    BY <1>0, <2>1, <2>11 DEF Found, locks
  <2>12. CASE db_readdat(p)
    BY <1>0, <2>1, <2>12 DEF db_readdat, locks
  <2>13. CASE BlankData(p)
    BY <1>0, <2>1, <2>13 DEF BlankData, locks
  <2>14. CASE ReadFree(p)
    BY <1>0, <2>1, <2>14 DEF ReadFree, locks
  <2>15. CASE BlankIndex(p)
    BY <1>0, <2>1, <2>15 DEF BlankIndex, locks
  <2>16. CASE SetFree(p)
    BY <1>0, <2>1, <2>16 DEF SetFree, locks
  <2>17. CASE ReadChain(p)
    BY <1>0, <2>1, <2>17 DEF ReadChain, locks
  <2>18. CASE FirstFree(p)
    BY <1>0, <2>1, <2>18 DEF FirstFree, locks
  <2>19. CASE WalkFree(p)
    BY <1>0, <2>1, <2>19 DEF WalkFree, locks
  <2>20. CASE OverwriteData(p)
    BY <1>0, <2>1, <2>20 DEF OverwriteData, locks
  <2>21. CASE ReuseIndex(p)
    BY <1>0, <2>1, <2>21 DEF ReuseIndex, locks
  <2>22. CASE AppendData(p)
    BY <1>0, <2>1, <2>22 DEF AppendData, locks
  <2>23. CASE AppendIndex(p)
    BY <1>0, <2>1, <2>23 DEF AppendIndex, locks
  <2>24. CASE Chain(p)
    BY <1>0, <2>1, <2>24 DEF Chain, locks
  <2> QED BY <1>1, <2>2, <2>3, <2>5, <2>6, <2>7, <2>8, <2>9, <2>10, <2>11, <2>12, <2>13, <2>14, <2>15, <2>16, <2>17, <2>18, <2>19, <2>20, <2>21, <2>22, <2>23, <2>24 DEF Step
<1>2. ASSUME NEW s \in Scanners, Scan(s)
      PROVE  LocksInv'
  <2>0. DOMAIN pc = Procs \cup Scanners /\ db \in [Procs \cup Scanners -> DB] /\ Procs \cap Scanners = {}
    BY <1>0, DbAssumption DEF TypeOK
  <2>1. /\ UNCHANGED call /\ \A q \in (Procs \cup Scanners) \ {s} : pc'[q] = pc[q]
    BY <1>2, <2>0 DEF Scan, Rewind, NextLock, NextIndex, NextData, NextEOF, Done, Go, Quiet
  <2>2. \/ UNCHANGED <<rd, wr>> /\ (pc'[s] \in {"n_idx", "n_dat"} => pc[s] = "n_idx")
        \/ ReadLock(s, FREE_OFF)
        \/ Unlock(s, FREE_OFF) /\ pc'[s] \notin {"n_idx", "n_dat"}
    BY <1>2, <2>0 DEF Scan, Rewind, NextLock, NextIndex, NextData, NextEOF, Done, Go, Quiet, locks
  <2>3. /\ \A o \in 0 .. NHash : wr'[o] = wr[o] /\ rd[o] \ {s} \subseteq rd'[o]
        /\ \A o \in 0 .. NHash : \A z \in wr'[o], q \in wr'[o] \cup rd'[o] : q = z
    <3> SUFFICES ASSUME NEW o \in 0 .. NHash
                 PROVE  /\ wr'[o] = wr[o] /\ rd[o] \ {s} \subseteq rd'[o]
                        /\ \A z \in wr'[o], q \in wr'[o] \cup rd'[o] : q = z
      OBVIOUS
    <3>1. \A z \in wr[o], q \in wr[o] \cup rd[o] : q = z
      BY <1>0 DEF LocksInv
    <3>2. s \notin wr[o]
      BY <1>0
    <3>3. CASE UNCHANGED <<rd, wr>>
      BY <3>1, <3>3
    <3>4. CASE ReadLock(s, FREE_OFF)
      <4>1. wr[FREE_OFF] = {}
        BY <1>0, <3>4 DEF ReadLock
      <4>2. wr' = wr /\ rd'[o] = IF o = FREE_OFF THEN rd[o] \cup {s} ELSE rd[o]
        BY <1>0, <3>4 DEF ReadLock
      <4> QED BY <3>1, <4>1, <4>2
    <3>5. CASE Unlock(s, FREE_OFF)
      <4>1. /\ wr'[o] = IF o = FREE_OFF THEN wr[o] \ {s} ELSE wr[o]
            /\ rd'[o] = IF o = FREE_OFF THEN rd[o] \ {s} ELSE rd[o]
        BY <1>0, <3>5 DEF Unlock
      <4> QED BY <3>1, <3>2, <4>1
    <3> QED BY <2>2, <3>3, <3>4, <3>5
  <2>4. pc'[s] \in {"n_idx", "n_dat"} => s \in rd'[FREE_OFF]
    <3>1. ReadLock(s, FREE_OFF) => s \in rd'[FREE_OFF]
      BY <1>0 DEF ReadLock
    <3>2. UNCHANGED <<rd, wr>> /\ pc[s] = "n_idx" => s \in rd'[FREE_OFF]
      BY <1>0 DEF LocksInv
    <3> QED BY <2>2, <3>1, <3>2
  <2>5. ASSUME NEW q \in Procs
        PROVE  /\ Inside(q)' => IF call'[q].op = "fetch" THEN q \in rd'[Hash[call'[q].key]]
                                                         ELSE q \in wr'[Hash[call'[q].key]]
               /\ pc'[q] \in Freeing => q \in wr'[FREE_OFF]
    <3>1. pc'[q] = pc[q] /\ call'[q] = call[q] /\ q # s
      BY <2>0, <2>1
    <3>2. Inside(q) => Hash[call[q].key] \in 0 .. NHash
      BY <1>0, CallFacts DEF Inside, CallInv, InCall, ChainOff
    <3> QED BY <1>0, <2>3, <3>1, <3>2 DEF LocksInv, Inside, ChainOff
  <2>6. \A t \in Scanners \ {s} : pc'[t] \in {"n_idx", "n_dat"} => t \in rd'[FREE_OFF]
    BY <1>0, <2>1, <2>3 DEF LocksInv
  <2> QED BY <2>3, <2>4, <2>5, <2>6 DEF LocksInv, ChainOff
<1> QED BY <1>1, <1>2 DEF Next

-----------------------------------------------------------------------------
\* What is on which list.
LEMMA ListFacts ==
    ASSUME TypeOK
    PROVE  /\ \A h \in 1 .. NHash : /\ Chained[h] \subseteq Recs /\ 0 \notin {h} \cup Chained[h] /\ h \notin Chained[h]
                                    /\ h \in 0 .. NHash /\ {h} \cup Chained[h] \subseteq 0 .. NHash \cup Recs
                                    /\ Chained[h] \cap Held = {} /\ Chained[h] \cap Free = {}
                                    /\ \A r \in Chained[h] : Key[r] \in Keys /\ Hash[Key[r]] = h /\ r <= PtrMax
           /\ \A h \in 1 .. NHash : \A g \in 1 .. NHash \ {h} : Chained[h] \cap Chained[g] = {}
           /\ Free \subseteq Recs /\ Free \cap Held = {} /\ 0 \notin Free
           /\ \A r \in Free : Key[r] = Blank
<1>1. /\ Recs \subseteq Nat \ (0 .. NHash) /\ NHash \in Nat \ {0}
      /\ \A r \in Recs : Key[r] \in Keys \cup {Blank}
  BY IndexFacts
<1>2. \A h \in 1 .. NHash : \A r : r \in Chained[h] <=> /\ r \in Recs /\ r <= PtrMax /\ Key[r] # Blank
                                                        /\ r \notin Held /\ Hash[Key[r]] = h
  BY DEF Chained
<1>3. \A r : r \in Free <=> r \in Recs /\ Key[r] = Blank /\ r \notin Held
  BY DEF Free
<1>4. \A h \in 1 .. NHash : h \notin Recs /\ h # 0 /\ h \in 0 .. NHash
  BY <1>1
<1>5. 0 \notin Recs
  BY <1>1
<1>6. ASSUME NEW h \in 1 .. NHash
      PROVE  /\ Chained[h] \subseteq Recs /\ 0 \notin {h} \cup Chained[h] /\ h \notin Chained[h]
             /\ h \in 0 .. NHash /\ {h} \cup Chained[h] \subseteq 0 .. NHash \cup Recs
             /\ Chained[h] \cap Held = {} /\ Chained[h] \cap Free = {}
             /\ \A r \in Chained[h] : Key[r] \in Keys /\ Hash[Key[r]] = h /\ r <= PtrMax
  <2>1. Chained[h] \subseteq Recs /\ Chained[h] \cap Held = {} /\ Chained[h] \cap Free = {}
    BY <1>2, <1>3
  <2>2. \A r \in Chained[h] : Key[r] \in Keys /\ Hash[Key[r]] = h /\ r <= PtrMax
    BY <1>1, <1>2
  <2> QED BY <2>1, <2>2, <1>4, <1>5
<1>7. \A h \in 1 .. NHash : \A g \in 1 .. NHash \ {h} : Chained[h] \cap Chained[g] = {}
  BY <1>2
<1>8. Free \subseteq Recs /\ Free \cap Held = {} /\ 0 \notin Free /\ \A r \in Free : Key[r] = Blank
  BY <1>3, <1>5
<1> QED BY <1>6, <1>7, <1>8

\* A record, a chain, the free list that a step leaves alone.
SameRec(r) == r \in Recs' /\ Key'[r] = Key[r] /\ Dat'[r] = Dat[r] /\ Ptr'[r] = Ptr[r]
SameChain(h) == Chained'[h] = Chained[h] /\ Ptr'[h] = Ptr[h] /\ \A r \in Chained[h] : SameRec(r)
SameFree == Free' = Free /\ Ptr'[FREE_OFF] = Ptr[FREE_OFF] /\ \A r \in Free : SameRec(r)

\* A process that a step of another leaves alone.
Undisturbed(q) ==
    /\ pc'[q] = pc[q] /\ db'[q] = db[q] /\ call'[q] = call[q]
    /\ Inside(q) => SameChain(ChainOff(q)) /\ map'[call[q].key] = map[call[q].key]
    /\ pc[q] \in Holding => /\ SameRec(db[q].idxoff)
                            /\ dat'[Dat[db[q].idxoff]] = dat[Dat[db[q].idxoff]]
    /\ pc[q] \in Freeing => SameFree
    /\ pc[q] = "a_idx" => HasData(q)'

\* It knows afterwards what it knew before.
LEMMA StillKnows ==
    ASSUME DbInv, NEW q \in Procs, Undisturbed(q)
    PROVE  Knows(q)' /\ HasData(q)' /\ Expects(q)'
<1>0. TypeOK /\ CallInv /\ Knows(q) /\ HasData(q) /\ Expects(q) /\ InCall(q)
  BY DEF DbInv, KnowsInv, CallInv
<1>1. pc'[q] = pc[q] /\ db'[q] = db[q] /\ call'[q] = call[q]
  BY DEF Undisturbed
<1>2. CASE ~Inside(q)
  BY <1>1, <1>2 DEF Inside, Knows, HasData, Expects, FoundSteps, Unchaining, AbsentSteps, ChainptrSteps,
     InsertSteps, AppendSteps, DeleteSteps
<1>3. CASE Inside(q)
  <2>0. call[q] # None
    BY <1>0, <1>3 DEF Inside, InCall
  <2>1. PICK h \in 1 .. NHash : h = Hash[call[q].key]
    BY <1>0, <2>0, CallFacts DEF ChainOff
  <2>2. SameChain(h) /\ map'[call[q].key] = map[call[q].key]
    BY <1>3, <2>1 DEF Undisturbed, ChainOff
  <2>3. PICK d : d = db[q]
    OBVIOUS
  <2>4. PICK k : k = call[q].key
    OBVIOUS
  <2>5. /\ 0 \notin {h} \cup Chained[h] /\ Chained'[h] = Chained[h]
        /\ \A y \in {h} \cup Chained[h] : Ptr'[y] = Ptr[y]
        /\ \A r \in Chained[h] : Key'[r] = Key[r] /\ Dat'[r] = Dat[r]
    BY <1>0, <2>2, ListFacts DEF SameChain, SameRec
  <2>6. pc[q] = "walk" => Walking(q)'
    <3> SUFFICES ASSUME pc[q] = "walk" PROVE Walking(q)'
      OBVIOUS
    <3>1. Walking(q)
      BY <1>0 DEF Knows
    <3>2. /\ d.ptroff \in {h} \cup Chained[h] /\ d.off = Ptr[d.ptroff] /\ d.off # d.ptroff
          /\ \A r \in Chained[h] : Key[r] = k => Reaches(h, Chained[h], Ptr, d.off, r)
      BY <3>1, <2>1, <2>3, <2>4 DEF Walking, ChainOff
    <3>3. \A x, r : Reaches(h, Chained[h], Ptr, x, r) => Reaches(h, Chained[h], Ptr', x, r)
      BY <2>5, SameLinks
    <3>4. \A r \in Chained'[h] : Key'[r] = k => Reaches(h, Chained'[h], Ptr', d.off, r)
      BY <2>5, <3>2, <3>3
    <3>5. db'[q] = d /\ call'[q].key = k /\ Hash[call'[q].key] = h
      BY <1>1, <2>1, <2>3, <2>4
    <3>6. /\ d.ptroff \in {h} \cup Chained'[h] /\ d.off = Ptr'[d.ptroff] /\ d.off # d.ptroff
      BY <2>5, <3>2
    <3> QED BY <3>4, <3>5, <3>6, Zenon DEF Walking, ChainOff
  <2>7. pc[q] \in FoundSteps => AtRecord(q)'
    <3> SUFFICES ASSUME pc[q] \in FoundSteps PROVE AtRecord(q)'
      OBVIOUS
    <3>1. /\ d.idxoff \in Chained[h] /\ Key[d.idxoff] = k
          /\ d.datoff = Dat[d.idxoff] /\ d.ptrval = Ptr[d.idxoff]
          /\ d.ptroff \in {h} \cup Chained[h]
          /\ Ptr[d.ptroff] = d.idxoff /\ d.ptroff # d.idxoff
      BY <1>0, <2>1, <2>3, <2>4 DEF Knows, AtRecord, ChainOff
    <3>2. db'[q] = d /\ call'[q].key = k /\ Hash[call'[q].key] = h
      BY <1>1, <2>1, <2>3, <2>4
    <3>3. /\ d.idxoff \in Chained'[h] /\ Key'[d.idxoff] = k
          /\ d.datoff = Dat'[d.idxoff] /\ d.ptrval = Ptr'[d.idxoff]
          /\ d.ptroff \in {h} \cup Chained'[h]
          /\ Ptr'[d.ptroff] = d.idxoff /\ d.ptroff # d.idxoff
      BY <2>5, <3>1
    <3> QED BY <3>2, <3>3 DEF AtRecord, ChainOff
  <2>8. Unchaining(q) => HalfOut(q)'
    <3> SUFFICES ASSUME Unchaining(q) PROVE HalfOut(q)'
      OBVIOUS
    <3>1. HalfOut(q)
      BY <1>0 DEF Knows
    <3> DEFINE F(P) == [y \in {h} \cup Chained[h] |-> IF y = d.ptroff THEN d.saveptr ELSE P[y]]
    <3>2. d.ptroff \in {h} \cup Chained[h] /\ IsChain(h, Chained[h], F(Ptr))
      BY <3>1, <2>1, <2>3 DEF HalfOut, ChainOff
    <3>3. F(Ptr') = F(Ptr)
      BY <2>5
    <3>4. IsChain(h, Chained[h], F(Ptr'))
      BY <3>2, <3>3
    <3> QED BY <1>1, <2>1, <2>3, <2>5, <3>2, <3>4 DEF HalfOut, ChainOff
  <2>9. pc[q] \in AbsentSteps => Absent(q)'
    BY <1>0, <1>1, <2>1, <2>5 DEF Knows, Absent, ChainOff
  <2>10. pc[q] \in ChainptrSteps => db'[q].chainptr = Ptr'[Hash[call'[q].key]]
    BY <1>0, <1>1, <2>1, <2>5 DEF Knows, ChainOff
  <2>11. pc[q] \in Holding => SameRec(d.idxoff) /\ dat'[Dat[d.idxoff]] = dat[Dat[d.idxoff]]
    BY <2>3 DEF Undisturbed
  <2>12. pc[q] \in Freeing => SameFree
    BY DEF Undisturbed
  <2>13. pc[q] = "f_walk" => WalkingFree(q)'
    BY <1>0, <1>1, <2>12 DEF Knows, WalkingFree, Freeing, SameFree, SameRec
  <2>14. pc[q] = "f_take" => AtFree(q)'
    BY <1>0, <1>1, <2>12 DEF Knows, AtFree, Freeing, SameFree, SameRec
  <2>15. /\ pc[q] = "d_idx" => db'[q].freeptr = Ptr'[FREE_OFF] /\ db'[q].saveptr = db'[q].ptrval
         /\ pc[q] = "chain" => Ptr'[db'[q].idxoff] = db'[q].chainptr
         /\ pc[q] = "d_head" => Ptr'[db'[q].idxoff] = Ptr'[FREE_OFF]
         /\ pc[q] \in {"r_dat", "r_idx"} => db'[q].datoff = Dat'[db'[q].idxoff]
    BY <1>0, <1>1, <2>3, <2>11, <2>12 DEF Knows, Freeing, Holding, SameFree, SameRec
  <2>16. Knows(q)'
    BY <1>1, <2>6, <2>7, <2>8, <2>9, <2>10, <2>13, <2>14, <2>15 DEF Knows, Unchaining, ChainOff
  <2>17. HasData(q)'
    <3>1. pc[q] = "a_idx" => HasData(q)'
      BY DEF Undisturbed
    <3>2. pc[q] = "r_idx" => dat'[db'[q].datoff] = call'[q].val
      BY <1>0, <1>1, <2>3, <2>11 DEF HasData, Knows, Holding
    <3>3. pc[q] = "chain" => dat'[Dat'[db'[q].idxoff]] = call'[q].val
      BY <1>0, <1>1, <2>3, <2>11 DEF HasData, Holding, SameRec
    <3> QED BY <1>1, <3>1, <3>2, <3>3 DEF HasData
  <2>18. Expects(q)'
    BY <1>0, <1>1, <2>2 DEF Expects, Unchaining
  <2> QED BY <2>16, <2>17, <2>18
<1> QED BY <1>2, <1>3

\* The chains a step leaves alone are right afterwards if they were before.
LEMMA ListsElsewhere ==
    ASSUME DbInv, NEW p \in Procs, OnlyMoves(p), NEW g \in 1 .. NHash, SameChain(g),
           Unchaining(p) => ChainOff(p) # g
    PROVE  /\ (\A q \in Procs : Unchaining(q)' => ChainOff(q)' # g) => IsChain(g, Chained'[g], Ptr')
           /\ \A r, o \in Chained'[g] : Key'[r] = Key'[o] => r = o
<1>0. TypeOK /\ ListInv
  BY DEF DbInv
<1>1. /\ 0 \notin {g} \cup Chained[g] /\ Chained'[g] = Chained[g]
      /\ \A y \in {g} \cup Chained[g] : Ptr'[y] = Ptr[y]
      /\ \A r \in Chained[g] : Key'[r] = Key[r]
  BY <1>0, ListFacts DEF SameChain, SameRec
<1>2. ASSUME \A q \in Procs : Unchaining(q)' => ChainOff(q)' # g
      PROVE  IsChain(g, Chained'[g], Ptr')
  <2>1. \A q \in Procs : Unchaining(q) => ChainOff(q) # g
    BY <1>2 DEF OnlyMoves, Unchaining, ChainOff
  <2>2. IsChain(g, Chained[g], Ptr)
    BY <1>0, <2>1 DEF ListInv
  <2>3. IsChain(g, Chained[g], Ptr')
    BY <1>1, <2>2, SameLinks
  <2> QED BY <1>1, <2>3
<1>3. \A r, o \in Chained'[g] : Key'[r] = Key'[o] => r = o
  BY <1>0, <1>1 DEF ListInv
<1> QED BY <1>2, <1>3

\* So is what the map says of them.
LEMMA MapElsewhere ==
    ASSUME DbInv, NEW p \in Procs, OnlyMoves(p), NEW g \in 1 .. NHash, SameChain(g), dat' = dat,
           \A k \in Keys : Hash[k] = g => map'[k] = map[k],
           pc[p] \in {"d_free", "d_idx"} => \/ ChainOff(p) # g
                                            \/ pc'[p] \in {"d_free", "d_idx"} /\ db'[p].idxoff = db[p].idxoff,
           Between(p) => ChainOff(p) # g \/ (Between(p)' /\ call'[p] = call[p])
    PROVE  /\ \A r \in Chained'[g] :
                 (\A q \in Procs : pc'[q] \in {"d_free", "d_idx"} => db'[q].idxoff # r) =>
                     dat'[Dat'[r]] = map'[Key'[r]]
           /\ \A k \in Keys : Hash[k] = g /\ (\A r \in Chained'[g] : Key'[r] # k)
                                  /\ (\A q \in Procs : Between(q)' => call'[q].key # k) => map'[k] = None
<1>0. TypeOK /\ MapInv /\ Knows(p) /\ CallInv
  BY DEF DbInv, KnowsInv
<1>1. /\ Chained'[g] = Chained[g]
      /\ \A r \in Chained[g] : Key'[r] = Key[r] /\ Dat'[r] = Dat[r] /\ Key[r] \in Keys /\ Hash[Key[r]] = g
  BY <1>0, ListFacts DEF SameChain, SameRec
<1>2. ASSUME NEW r \in Chained'[g], \A q \in Procs : pc'[q] \in {"d_free", "d_idx"} => db'[q].idxoff # r
      PROVE  dat'[Dat'[r]] = map'[Key'[r]]
  <2>1. pc[p] \in {"d_free", "d_idx"} => db[p].idxoff # r
    <3> SUFFICES ASSUME pc[p] \in {"d_free", "d_idx"}, db[p].idxoff = r PROVE FALSE
      OBVIOUS
    <3>1. Key[r] = call[p].key
      BY <1>0 DEF Knows, FoundSteps, AtRecord
    <3>2. ChainOff(p) = g
      BY <1>1, <1>2, <3>1 DEF ChainOff
    <3> QED BY <1>2, <3>2
  <2>2. \A q \in Procs : pc[q] \in {"d_free", "d_idx"} => db[q].idxoff # r
    BY <1>2, <2>1 DEF OnlyMoves
  <2>3. dat[Dat[r]] = map[Key[r]]
    BY <1>0, <1>1, <1>2, <2>2 DEF MapInv
  <2> QED BY <1>1, <1>2, <2>3
<1>3. ASSUME NEW k \in Keys, Hash[k] = g, \A r \in Chained'[g] : Key'[r] # k,
             \A q \in Procs : Between(q)' => call'[q].key # k
      PROVE  map'[k] = None
  <2>1. Between(p) => call[p].key # k
    BY <1>3 DEF ChainOff
  <2>2. \A q \in Procs : Between(q) => call[q].key # k
    BY <1>3, <2>1 DEF OnlyMoves, Between, Unchaining
  <2>3. \A r \in Chained[g] : Key[r] # k
    BY <1>1, <1>3
  <2> QED BY <1>0, <1>3, <2>2, <2>3 DEF MapInv
<1> QED BY <1>2, <1>3

\* A sequential read is not disturbed by changes to keys that are being written.
LEMMA ScansElsewhere ==
    ASSUME DbInv, NEW p \in Procs, OnlyMoves(p), must' = must, got' = got, BeingWritten' \subseteq BeingWritten,
           pc[p] \in Freeing \/ \A r \in Recs : Key[r] # Blank => SameRec(r),
           \A g \in 1 .. NHash : \A r : /\ r \in Chained[g] /\ Key[r] \notin BeingWritten =>
                                               r \in Chained'[g] /\ Key'[r] = Key[r]
                                        /\ r \in Chained'[g] /\ Key'[r] \notin BeingWritten =>
                                               r \in Chained[g] /\ Key'[r] = Key[r]
    PROVE  ScanInv'
<1>0. TypeOK /\ ScanInv /\ CallInv /\ LocksInv /\ Procs \cap Scanners = {}
  BY DbAssumption DEF DbInv
<1> SUFFICES ASSUME NEW s \in Scanners
             PROVE  /\ got'[s] \subseteq must'[s] /\ must'[s] \cap BeingWritten' = {}
                    /\ pc'[s] = "idle" => must'[s] = {}
                    /\ pc'[s] = "eof" => must'[s] \subseteq got'[s]
                    /\ \A k \in must'[s] : \E r \in Chained'[Hash[k]] : Key'[r] = k
                    /\ pc'[s] \in {"next", "n_idx", "n_dat"} =>
                          /\ db'[s].off > NHash
                          /\ \A h \in 1 .. NHash : \A r \in Chained'[h] : Key'[r] \in must'[s] =>
                                 (Key'[r] \in got'[s] <=> r < Position(s)')
                    /\ pc'[s] = "n_dat" =>
                          /\ db'[s].off - 1 \in Recs' /\ Key'[db'[s].off - 1] = db'[s].key
                          /\ db'[s].key # Blank /\ Dat'[db'[s].off - 1] = db'[s].datoff
  BY DEF ScanInv, ScanRight
<1>1. pc'[s] = pc[s] /\ db'[s] = db[s] /\ s \in Procs \cup Scanners
  BY <1>0 DEF OnlyMoves
<1>2. must[s] \subseteq Keys /\ must[s] \cap BeingWritten = {} /\ got[s] \subseteq must[s]
  BY <1>0 DEF TypeOK, ScanInv, ScanRight
<1>3. /\ got'[s] \subseteq must'[s] /\ must'[s] \cap BeingWritten' = {}
      /\ pc'[s] = "idle" => must'[s] = {}
      /\ pc'[s] = "eof" => must'[s] \subseteq got'[s]
  BY <1>0, <1>1, <1>2 DEF ScanInv, ScanRight
<1>4. ASSUME NEW k \in must[s]
      PROVE  \E r \in Chained'[Hash[k]] : Key'[r] = k
  <2>1. PICK r \in Chained[Hash[k]] : Key[r] = k
    BY <1>0 DEF ScanInv, ScanRight
  <2>2. Hash[k] \in 1 .. NHash /\ k \notin BeingWritten
    BY <1>2, DbAssumption
  <2> QED BY <2>1, <2>2
<1>5. pc[s] \in {"next", "n_idx", "n_dat"} =>
         /\ db[s].off > NHash
         /\ \A h \in 1 .. NHash : \A r \in Chained[h] : Key[r] \in must[s] =>
                (Key[r] \in got[s] <=> r < Position(s))
  BY <1>0 DEF ScanInv, ScanRight
<1>6. Position(s)' = Position(s)
  BY <1>1 DEF Position
<1>7. ASSUME pc[s] \in {"next", "n_idx", "n_dat"}, NEW h \in 1 .. NHash, NEW r \in Chained'[h],
             Key'[r] \in must[s]
      PROVE  Key'[r] \in got[s] <=> r < Position(s)
  <2>1. r \in Chained[h] /\ Key'[r] = Key[r]
    BY <1>2, <1>7
  <2> QED BY <1>5, <1>7, <2>1
<1>8. ASSUME pc[s] = "n_dat"
      PROVE  /\ db[s].off - 1 \in Recs' /\ Key'[db[s].off - 1] = db[s].key
             /\ db[s].key # Blank /\ Dat'[db[s].off - 1] = db[s].datoff
  <2>1. pc[p] \notin Freeing
    BY <1>0, <1>8, Alone
  <2>2. /\ db[s].off - 1 \in Recs /\ Key[db[s].off - 1] = db[s].key
        /\ db[s].key # Blank /\ Dat[db[s].off - 1] = db[s].datoff
    BY <1>0, <1>8 DEF ScanInv, ScanRight
  <2> QED BY <2>1, <2>2 DEF SameRec
<1> QED BY <1>1, <1>3, <1>4, <1>5, <1>6, <1>7, <1>8

\* A step that changes no key and neither takes a record nor gives one back leaves
\* every record on its list.
LEMMA SameLists ==
    ASSUME NEW p \in Procs, OnlyMoves(p), Recs' = Recs, Key' = Key,
           \/ pc[p] \notin Holding /\ pc'[p] \notin Holding
           \/ pc[p] \in Holding /\ pc'[p] \in Holding /\ db'[p].idxoff = db[p].idxoff
    PROVE  Held' = Held /\ Chained' = Chained /\ Free' = Free
<1>1. Held' = Held
  <2>1. \A x : x \in Held' <=> \E q \in Procs : pc'[q] \in Holding /\ db'[q].idxoff = x
    BY DEF Held
  <2>2. \A x : x \in Held <=> \E q \in Procs : pc[q] \in Holding /\ db[q].idxoff = x
    BY DEF Held
  <2>3. \A q \in Procs : /\ pc'[q] \in Holding <=> pc[q] \in Holding
                         /\ pc[q] \in Holding => db'[q].idxoff = db[q].idxoff
    BY DEF OnlyMoves
  <2> QED BY <2>1, <2>2, <2>3
<1> QED BY <1>1 DEF Chained, Free

\* A step that writes no index record and takes or frees none leaves the lists.
LEMMA SameIndex ==
    ASSUME NEW p \in Procs, OnlyMoves(p), UNCHANGED <<head, idx>>,
           \/ pc[p] \notin Holding /\ pc'[p] \notin Holding
           \/ pc[p] \in Holding /\ pc'[p] \in Holding /\ db'[p].idxoff = db[p].idxoff
    PROVE  /\ Recs' = Recs /\ Key' = Key /\ Dat' = Dat /\ Ptr' = Ptr
           /\ Held' = Held /\ Chained' = Chained /\ Free' = Free
<1>1. Recs' = Recs /\ Key' = Key /\ Dat' = Dat /\ Ptr' = Ptr
  BY DEF Recs, Key, Dat, Ptr, Rec, db_readptr
<1> QED BY <1>1, SameLists

\* Whatever the lists and the data keep, everybody keeps.
LEMMA AllSame ==
    ASSUME Recs' = Recs, Key' = Key, Dat' = Dat, Ptr' = Ptr, Chained' = Chained, Free' = Free, TypeOK
    PROVE  /\ \A r \in Recs : SameRec(r)
           /\ \A g \in 1 .. NHash : SameChain(g)
           /\ SameFree
<1>1. \A r \in Recs : SameRec(r)
  BY DEF SameRec
<1>2. ASSUME NEW g \in 1 .. NHash PROVE SameChain(g)
  BY <1>1, ListFacts DEF SameChain
<1>3. SameFree
  BY <1>1, ListFacts DEF SameFree
<1> QED BY <1>1, <1>2, <1>3

\* A step that leaves the files, the map and the lists as they are preserves the
\* invariant when the process that takes it knows what it should.
LEMMA QuietStep ==
    ASSUME DbInv, NEW p \in Procs, OnlyMoves(p), UNCHANGED <<head, idx, dat, map>>,
           pc[p] \notin Holding /\ pc'[p] \notin Holding, ~Unchaining(p), pc'[p] # "a_idx",
           pc[p] \in {"d_free", "d_idx"} => pc'[p] \in {"d_free", "d_idx"} /\ db'[p].idxoff = db[p].idxoff,
           Between(p) => Between(p)' /\ call'[p] = call[p],
           Knows(p)' /\ HasData(p)' /\ Expects(p)'
    PROVE  /\ HeldInv' /\ ListInv' /\ KnowsInv' /\ DataInv' /\ MapInv'
           /\ UNCHANGED <<must, got>> /\ call'[p] \in {call[p], None} => ScanInv'
<1>0. /\ TypeOK /\ CallInv /\ HeldInv /\ ListInv /\ KnowsInv /\ DataInv /\ MapInv /\ ScanInv
  BY DEF DbInv
<1>1. /\ Recs' = Recs /\ Key' = Key /\ Dat' = Dat /\ Ptr' = Ptr
      /\ Held' = Held /\ Chained' = Chained /\ Free' = Free
  BY SameIndex
<1>2. /\ \A r \in Recs : SameRec(r)
      /\ \A g \in 1 .. NHash : SameChain(g)
      /\ SameFree
  BY <1>0, <1>1, AllSame
<1>3. HeldInv'
  <2>1. \A r \in Recs' : Key'[r] = Blank => r <= PtrMax
    BY <1>0, <1>1 DEF HeldInv
  <2>2. \A q \in Procs : pc'[q] \in Holding => pc[q] = pc'[q] /\ db[q] = db'[q] /\ call[q] = call'[q] /\ pc[q] \in Holding
    BY DEF OnlyMoves
  <2>3. \A q, t \in Procs : pc'[q] \in Holding /\ pc'[t] \in Holding /\ db'[q].idxoff = db'[t].idxoff => q = t
    BY <1>0, <2>2 DEF HeldInv
  <2>4. \A q \in Procs : pc'[q] \in Holding =>
          /\ db'[q].idxoff \in Recs'
          /\ Key'[db'[q].idxoff] = IF pc'[q] = "chain" THEN call'[q].key ELSE Blank
    BY <1>0, <1>1, <2>2 DEF HeldInv
  <2> QED BY <2>1, <2>3, <2>4 DEF HeldInv
<1>4. ListInv'
  <2>1. ASSUME NEW g \in 1 .. NHash
        PROVE  /\ (\A q \in Procs : Unchaining(q)' => ChainOff(q)' # g) => IsChain(g, Chained'[g], Ptr')
               /\ \A r, o \in Chained'[g] : Key'[r] = Key'[o] => r = o
    BY <1>2, ListsElsewhere
  <2>2. IsChain(FREE_OFF, Free', Ptr')
    BY <1>0, <1>1 DEF ListInv
  <2> QED BY <2>1, <2>2 DEF ListInv, FREE_OFF
<1>5. KnowsInv'
  <2> SUFFICES ASSUME NEW q \in Procs \ {p} PROVE Knows(q)' /\ HasData(q)' /\ Expects(q)'
    BY DEF KnowsInv
  <2>1. pc'[q] = pc[q] /\ db'[q] = db[q] /\ call'[q] = call[q]
    BY DEF OnlyMoves
  <2>2. Inside(q) => SameChain(ChainOff(q)) /\ map'[call[q].key] = map[call[q].key]
    BY <1>0, <1>2, CallFacts DEF CallInv, InCall, Inside
  <2>3. pc[q] \in Holding => /\ SameRec(db[q].idxoff)
                             /\ dat'[Dat[db[q].idxoff]] = dat[Dat[db[q].idxoff]]
    BY <1>0, <1>2 DEF HeldInv
  <2>4. pc[q] = "a_idx" => HasData(q)'
    BY <1>0, <1>1, <2>1 DEF KnowsInv, HasData
  <2>5. Undisturbed(q)
    BY <1>2, <2>1, <2>2, <2>3, <2>4 DEF Undisturbed
  <2> QED BY <2>5, StillKnows
<1>6. DataInv'
  <2>1. \A q \in Procs : pc'[q] = "a_idx" => pc[q] = "a_idx" /\ db'[q] = db[q]
    BY DEF OnlyMoves
  <2> QED BY <1>0, <1>1, <2>1 DEF DataInv
<1>7. MapInv'
  <2>1. ASSUME NEW g \in 1 .. NHash
        PROVE  /\ \A r \in Chained'[g] :
                     (\A q \in Procs : pc'[q] \in {"d_free", "d_idx"} => db'[q].idxoff # r) =>
                         dat'[Dat'[r]] = map'[Key'[r]]
               /\ \A k \in Keys : Hash[k] = g /\ (\A r \in Chained'[g] : Key'[r] # k)
                                      /\ (\A q \in Procs : Between(q)' => call'[q].key # k) => map'[k] = None
    BY <1>2, MapElsewhere
  <2>2. \A k \in Keys : Hash[k] \in 1 .. NHash
    BY DbAssumption
  <2> QED BY <2>1, <2>2 DEF MapInv
<1>8. ASSUME UNCHANGED <<must, got>>, call'[p] \in {call[p], None} PROVE ScanInv'
  <2>1. BeingWritten' \subseteq BeingWritten
    <3>1. \A q \in Procs : call'[q] # None => call'[q] = call[q]
      BY <1>8 DEF OnlyMoves
    <3> QED BY <3>1 DEF BeingWritten
  <2> QED BY <1>1, <1>2, <1>8, <2>1, ScansElsewhere
<1> QED BY <1>3, <1>4, <1>5, <1>6, <1>7, <1>8

\* The locks keep their type.
LEMMA LocksTyped ==
    ASSUME TypeOK, NEW p \in Procs \cup Scanners, NEW o \in 0 .. NHash,
           \/ UNCHANGED <<rd, wr>> \/ (p \in Procs /\ WriteLock(p, o)) \/ ReadLock(p, o) \/ Unlock(p, o)
    PROVE  /\ rd' \in [0 .. NHash -> SUBSET (Procs \cup Scanners)]
           /\ wr' \in [0 .. NHash -> SUBSET Procs]
<1>0. /\ rd \in [0 .. NHash -> SUBSET (Procs \cup Scanners)]
      /\ wr \in [0 .. NHash -> SUBSET Procs]
  BY DEF TypeOK
<1>1. CASE UNCHANGED <<rd, wr>>
  BY <1>0, <1>1
<1>2. CASE p \in Procs /\ WriteLock(p, o)
  BY <1>0, <1>2 DEF WriteLock
<1>3. CASE ReadLock(p, o)
  BY <1>0, <1>3 DEF ReadLock
<1>4. CASE Unlock(p, o)
  BY <1>0, <1>4 DEF Unlock
<1> QED BY <1>1, <1>2, <1>3, <1>4

\* The chain of a call is right while the lock on it is held and nothing is half out.
LEMMA MyChain ==
    ASSUME DbInv, NEW p \in Procs, Inside(p), ~Unchaining(p), NEW h, h = ChainOff(p)
    PROVE  h \in 1 .. NHash /\ IsChain(h, Chained[h], Ptr)
<1>0. TypeOK /\ CallInv /\ LocksInv /\ ListInv
  BY DEF DbInv
<1>1. h \in 1 .. NHash
  BY <1>0, CallFacts DEF CallInv, InCall, Inside
<1>2. ASSUME NEW q \in Procs, Unchaining(q), ChainOff(q) = h PROVE FALSE
  <2>1. Inside(q) /\ call[q].op # "fetch"
    BY <1>0, <1>2 DEF Unchaining, Inside, CallInv, InCall, DeleteSteps
  <2>2. q # p
    BY <1>2
  <2> QED BY <1>0, <1>2, <2>1, <2>2, Alone
<1> QED BY <1>0, <1>1, <1>2 DEF ListInv

\* A call that finds no record of its key finds none in the map.
LEMMA NotThere ==
    ASSUME DbInv, NEW p \in Procs, Inside(p), ~Between(p), Absent(p)
    PROVE  map[call[p].key] = None
<1>0. TypeOK /\ CallInv /\ LocksInv /\ MapInv
  BY DEF DbInv
<1>1. call[p].key \in Keys
  BY <1>0, CallFacts DEF CallInv, InCall, Inside
<1>2. ASSUME NEW q \in Procs, Between(q), call[q].key = call[p].key PROVE FALSE
  <2>1. Inside(q) /\ call[q].op # "fetch" /\ q # p
    BY <1>0, <1>2 DEF Between, Unchaining, Inside, CallInv, InCall, DeleteSteps, AppendSteps
  <2>2. ChainOff(q) = ChainOff(p)
    BY <1>2 DEF ChainOff
  <2> QED BY <1>0, <2>1, <2>2, Alone
<1> QED BY <1>0, <1>1, <1>2 DEF MapInv, Absent, ChainOff

\* A call that finds the record of its key finds it in the map.
LEMMA There ==
    ASSUME DbInv, NEW p \in Procs, Inside(p), pc[p] \notin {"d_free", "d_idx"}, NEW x \in Chained[ChainOff(p)],
           Key[x] = call[p].key
    PROVE  dat[Dat[x]] = map[Key[x]] /\ map[Key[x]] # None
<1>0. TypeOK /\ CallInv /\ LocksInv /\ MapInv /\ DataInv
  BY DEF DbInv
<1>1. ChainOff(p) \in 1 .. NHash
  BY <1>0, CallFacts DEF CallInv, InCall, Inside
<1>2. ASSUME NEW q \in Procs, pc[q] \in {"d_free", "d_idx"}, db[q].idxoff = x PROVE FALSE
  <2>1. Knows(q) /\ InCall(q) /\ Inside(q) /\ call[q].op # "fetch" /\ q # p
    BY <1>2 DEF DbInv, KnowsInv, CallInv, InCall, Inside, DeleteSteps
  <2>2. Key[x] = call[q].key
    BY <1>2, <2>1 DEF Knows, FoundSteps, AtRecord
  <2>3. ChainOff(q) = ChainOff(p)
    BY <2>2 DEF ChainOff
  <2> QED BY <2>1, <2>3, <1>0, Alone
<1>3. dat[Dat[x]] = map[Key[x]]
  BY <1>0, <1>1, <1>2 DEF MapInv
<1>4. Dat[x] \in 1 .. Len(dat)
  BY <1>0, <1>1, ListFacts DEF DataInv
<1>5. dat[Dat[x]] \in Vals \cup {Blank}
  BY <1>0, <1>4 DEF TypeOK
<1> QED BY <1>3, <1>5, DbAssumption

-----------------------------------------------------------------------------
\* The steps of db_find_and_lock.
LEMMA LockStep ==
    ASSUME DbInv, NEW p \in Procs, Lock(p)
    PROVE  StoreInv'
<1>0. TypeOK /\ CallInv /\ OnlyMoves(p) /\ InCall(p)
  BY StepMoves DEF DbInv, Step, CallInv
<1>1. pc[p] = "lock" /\ pc'[p] = "first" /\ UNCHANGED <<head, idx, dat, map, call, must, got, db>>
  BY <1>0 DEF Lock, Go, Quiet, files, seen, TypeOK
<1>2. TypeOK'
  <2>1. ChainOff(p) \in 0 .. NHash
    BY <1>0, <1>1, CallFacts DEF InCall
  <2>2. ReadLock(p, ChainOff(p)) \/ WriteLock(p, ChainOff(p))
    BY DEF Lock
  <2>3. /\ rd' \in [0 .. NHash -> SUBSET (Procs \cup Scanners)]
        /\ wr' \in [0 .. NHash -> SUBSET Procs]
    BY <1>0, <2>1, <2>2, LocksTyped
  <2> QED BY <1>0, <1>1, <2>3 DEF TypeOK, OnlyMoves
<1>3. Knows(p)' /\ HasData(p)' /\ Expects(p)'
  BY <1>1 DEF Knows, HasData, Expects, FoundSteps, Unchaining, AbsentSteps, ChainptrSteps,
     InsertSteps, AppendSteps, DeleteSteps
<1> QED BY <1>0, <1>1, <1>2, <1>3, QuietStep DEF StoreInv, Holding, Unchaining, Between, AppendSteps

\* _db_find_and_lock reads the head of the chain: the whole chain is ahead.
LEMMA FirstStep ==
    ASSUME DbInv, NEW p \in Procs, First(p)
    PROVE  StoreInv'
<1>0. TypeOK /\ CallInv /\ OnlyMoves(p) /\ InCall(p)
  BY StepMoves DEF DbInv, Step, CallInv
<1>1. pc[p] = "first" /\ pc'[p] = "walk" /\ UNCHANGED <<head, idx, dat, rd, wr, map, call, must, got>>
  BY <1>0 DEF First, Go, Quiet, files, locks, seen, TypeOK
<1>2. PICK h : h = ChainOff(p)
  OBVIOUS
<1>3. h \in 1 .. NHash /\ IsChain(h, Chained[h], Ptr)
  BY <1>1, <1>2, MyChain DEF Inside, Unchaining
<1>4. db_readptr(h) = Ptr[h] /\ Ptr[h] \in Nat /\ h \in Nat
  <2>1. h \in 0 .. NHash /\ h \in Nat
    BY <1>3, DbAssumption
  <2>2. db_readptr(h) = Ptr[h] /\ Ptr \in [0 .. NHash \cup Recs -> Nat]
    BY <1>0, <2>1, IndexFacts
  <2> QED BY <2>1, <2>2
<1>5. db' = [db EXCEPT ![p].ptroff = h, ![p].off = Ptr[h]]
  BY <1>2, <1>4 DEF First
<1>6. db[p] \in DB /\ db \in [Procs \cup Scanners -> DB]
  BY <1>0 DEF TypeOK
<1>7. db'[p].ptroff = h /\ db'[p].off = Ptr[h] /\ db' \in [Procs \cup Scanners -> DB]
  BY <1>4, <1>5, <1>6 DEF DB
<1>8. TypeOK'
  BY <1>0, <1>1, <1>7 DEF TypeOK, OnlyMoves
<1>9. Chained' = Chained /\ Key' = Key /\ Ptr' = Ptr
  BY <1>0, <1>1, SameIndex DEF Holding
<1>10. Walking(p)'
  <2>1. 0 \notin {h} \cup Chained[h] /\ h \notin Chained[h]
    BY <1>0, <1>3, ListFacts
  <2>2. Ptr[h] # h
    BY <1>3, <2>1 DEF IsChain, Linked
  <2>3. ASSUME NEW r \in Chained[h] PROVE Reaches(h, Chained[h], Ptr, Ptr[h], r)
    BY <1>3, <2>1 DEF IsChain
  <2>4. PICK o : o = Ptr[h]
    OBVIOUS
  <2>5. h = Hash[call'[p].key] /\ db'[p].off = o /\ db'[p].ptroff = h
    BY <1>1, <1>2, <1>7, <2>4 DEF ChainOff
  <2>6. \A r \in Chained'[h] : Reaches(h, Chained'[h], Ptr', o, r)
    BY <1>9, <2>3, <2>4
  <2>7. o = Ptr'[h] /\ o # h
    BY <1>9, <2>2, <2>4
  <2> QED BY <2>5, <2>6, <2>7, Zenon DEF Walking, ChainOff
<1>11. Knows(p)' /\ HasData(p)' /\ Expects(p)'
  BY <1>1, <1>10 DEF Knows, HasData, Expects, FoundSteps, Unchaining, AbsentSteps, ChainptrSteps,
     InsertSteps, AppendSteps, DeleteSteps
<1> QED BY <1>0, <1>1, <1>8, <1>11, QuietStep DEF StoreInv, Holding, Unchaining, Between, AppendSteps

\* Where a call that walks its chain is.
LEMMA WalksChain ==
    ASSUME DbInv, NEW p \in Procs, pc[p] = "walk", NEW h, h = ChainOff(p), NEW d, d = db[p]
    PROVE  /\ h \in 1 .. NHash /\ IsChain(h, Chained[h], Ptr) /\ 0 \notin {h} \cup Chained[h]
           /\ d.ptroff \in {h} \cup Chained[h] /\ d.off = Ptr[d.ptroff] /\ d.off # d.ptroff
           /\ d.off \in Chained[h] \cup {0}
           /\ d.off # 0 => /\ d.off \in Recs /\ Rec(d.off).key = Key[d.off] /\ Rec(d.off).ptr = Ptr[d.off]
                           /\ Rec(d.off).dat = Dat[d.off] /\ Ptr[d.off] \in Nat
           /\ \A r \in Chained[h] : Key[r] = call[p].key => Reaches(h, Chained[h], Ptr, d.off, r)
<1>0. TypeOK /\ Walking(p)
  BY DEF DbInv, KnowsInv, Knows
<1>1. h \in 1 .. NHash /\ IsChain(h, Chained[h], Ptr)
  BY MyChain DEF Inside, Unchaining
<1>2. /\ d.ptroff \in {h} \cup Chained[h] /\ d.off = Ptr[d.ptroff] /\ d.off # d.ptroff
      /\ \A r \in Chained[h] : Key[r] = call[p].key => Reaches(h, Chained[h], Ptr, d.off, r)
  BY <1>0 DEF Walking
<1>3. d.off \in Chained[h] \cup {0}
  BY <1>1, <1>2 DEF IsChain, Linked
<1>4. Chained[h] \subseteq Recs /\ 0 \notin {h} \cup Chained[h]
  BY <1>0, <1>1, ListFacts
<1>5. d.off # 0 => /\ d.off \in Recs /\ Rec(d.off).key = Key[d.off] /\ Rec(d.off).ptr = Ptr[d.off]
                   /\ Rec(d.off).dat = Dat[d.off] /\ Ptr[d.off] \in Nat
  BY <1>0, <1>3, <1>4, IndexFacts
<1> QED BY <1>1, <1>2, <1>3, <1>4, <1>5

\* Going on to the next record keeps a key that is there ahead.
LEMMA WalkStep ==
    ASSUME DbInv, NEW p \in Procs, Walk(p)
    PROVE  StoreInv'
<1>0. TypeOK /\ CallInv /\ OnlyMoves(p) /\ InCall(p)
  BY StepMoves DEF DbInv, Step, CallInv
<1>1. pc[p] = "walk" /\ pc'[p] = "walk" /\ UNCHANGED <<head, idx, dat, rd, wr, map, call, must, got>>
  BY <1>0 DEF Walk, Go, Quiet, files, locks, seen, TypeOK
<1>2. PICK h : h = ChainOff(p)
  OBVIOUS
<1>3. PICK d : d = db[p]
  OBVIOUS
<1>4. /\ h \in 1 .. NHash /\ IsChain(h, Chained[h], Ptr) /\ 0 \notin {h} \cup Chained[h]
      /\ d.ptroff \in {h} \cup Chained[h] /\ d.off = Ptr[d.ptroff] /\ d.off # d.ptroff
      /\ d.off \in Chained[h] \cup {0}
      /\ d.off # 0 => Rec(d.off).key = Key[d.off] /\ Rec(d.off).ptr = Ptr[d.off] /\ Ptr[d.off] \in Nat
      /\ \A r \in Chained[h] : Key[r] = call[p].key => Reaches(h, Chained[h], Ptr, d.off, r)
  BY <1>1, <1>2, <1>3, WalksChain
<1>5. PICK y : y = d.off
  OBVIOUS
<1>6. y # 0 /\ y \in Chained[h] /\ Key[y] # call[p].key /\ Ptr[y] \in Nat /\ Rec(y).ptr = Ptr[y]
  BY <1>3, <1>4, <1>5 DEF Walk
<1>7. db[p] \in DB /\ db \in [Procs \cup Scanners -> DB] /\ y \in Nat
  BY <1>0, <1>3, <1>5 DEF TypeOK, DB
<1>8. db' = [db EXCEPT ![p].ptroff = y, ![p].off = Ptr[y]]
  BY <1>3, <1>5, <1>6 DEF Walk
<1>9. db'[p].ptroff = y /\ db'[p].off = Ptr[y] /\ db' \in [Procs \cup Scanners -> DB]
  BY <1>6, <1>7, <1>8 DEF DB
<1>10. TypeOK'
  BY <1>0, <1>1, <1>9 DEF TypeOK, OnlyMoves
<1>11. Chained' = Chained /\ Key' = Key /\ Ptr' = Ptr
  BY <1>0, <1>1, SameIndex DEF Holding
<1>12. Walking(p)'
  <2>1. Ptr[y] # y
    BY <1>4, <1>5, <1>6 DEF IsChain, Linked
  <2>2. ASSUME NEW r \in Chained[h], Key[r] = call[p].key PROVE Reaches(h, Chained[h], Ptr, Ptr[y], r)
    <3>1. r # y /\ Reaches(h, Chained[h], Ptr, y, r)
      BY <1>4, <1>5, <1>6, <2>2
    <3> QED BY <1>4, <1>6, <3>1, WalkOn
  <2>3. PICK o : o = Ptr[y]
    OBVIOUS
  <2>4. PICK k : k = call[p].key
    OBVIOUS
  <2>5. /\ h = Hash[call'[p].key] /\ db'[p].off = o /\ db'[p].ptroff = y /\ call'[p].key = k
    BY <1>1, <1>2, <1>9, <2>3, <2>4 DEF ChainOff
  <2>6. \A r \in Chained'[h] : Key'[r] = k => Reaches(h, Chained'[h], Ptr', o, r)
    BY <1>11, <2>2, <2>3, <2>4
  <2>7. o = Ptr'[y] /\ o # y /\ y \in {h} \cup Chained'[h]
    BY <1>6, <1>11, <2>1, <2>3
  <2> QED BY <2>5, <2>6, <2>7, Zenon DEF Walking, ChainOff
<1>13. Knows(p)' /\ HasData(p)' /\ Expects(p)'
  BY <1>1, <1>12 DEF Knows, HasData, Expects, FoundSteps, Unchaining, AbsentSteps, ChainptrSteps,
     InsertSteps, AppendSteps, DeleteSteps
<1> QED BY <1>0, <1>1, <1>10, <1>13, QuietStep DEF StoreInv, Holding, Unchaining, Between, AppendSteps

\* At the end of its chain the call knows that the map has no such key.
LEMMA MissingStep ==
    ASSUME DbInv, NEW p \in Procs, Missing(p)
    PROVE  StoreInv' /\ map' = map /\ map[call[p].key] = None
<1>0. TypeOK /\ CallInv /\ OnlyMoves(p) /\ InCall(p)
  BY StepMoves DEF DbInv, Step, CallInv
<1>1. /\ pc[p] = "walk" /\ db[p].off = 0 /\ UNCHANGED <<head, idx, dat, rd, wr, db, call, must, got>>
      /\ \/ pc'[p] = "return" /\ map' = [map EXCEPT ![call[p].key] = map[call[p].key]]
         \/ pc'[p] = "s_ptr" /\ map' = map /\ call[p].flag # "DB_REPLACE"
  BY <1>0 DEF Missing, Go, Quiet, Result, Effect, files, locks, seen, TypeOK
<1>2. map' = map
  BY <1>0, <1>1 DEF TypeOK
<1>3. PICK h : h = ChainOff(p)
  OBVIOUS
<1>4. Absent(p)
  <2>1. /\ h \in 1 .. NHash /\ 0 \notin {h} \cup Chained[h]
        /\ \A r \in Chained[h] : Key[r] = call[p].key => Reaches(h, Chained[h], Ptr, 0, r)
    BY <1>1, <1>3, WalksChain
  <2> QED BY <1>3, <2>1, WalkEnds DEF Absent
<1>5. map[call[p].key] = None
  BY <1>1, <1>4, NotThere DEF Inside, Between, Unchaining, AppendSteps
<1>6. TypeOK'
  BY <1>0, <1>1, <1>2 DEF TypeOK, OnlyMoves
<1>7. Chained' = Chained /\ Key' = Key
  BY <1>0, <1>1, SameIndex DEF Holding
<1>8. Absent(p)'
  BY <1>1, <1>4, <1>7 DEF Absent, ChainOff
<1>9. Knows(p)' /\ HasData(p)' /\ Expects(p)'
  BY <1>1, <1>2, <1>5, <1>8 DEF Knows, HasData, Expects, FoundSteps, Unchaining, AbsentSteps, ChainptrSteps,
     InsertSteps, AppendSteps, DeleteSteps
<1> QED BY <1>0, <1>1, <1>2, <1>5, <1>6, <1>9, QuietStep DEF StoreInv, Holding, Unchaining, Between, AppendSteps

\* With a record of its key the call knows that the map has that key.
LEMMA FoundStep ==
    ASSUME DbInv, NEW p \in Procs, Found(p)
    PROVE  StoreInv' /\ map' = map /\ map[call[p].key] # None
<1>0. TypeOK /\ CallInv /\ OnlyMoves(p) /\ InCall(p)
  BY StepMoves DEF DbInv, Step, CallInv
<1>1. /\ pc[p] = "walk" /\ db[p].off # 0 /\ UNCHANGED <<head, idx, dat, rd, wr, call, must, got>>
      /\ \/ pc'[p] \in {"readdat", "d_lock", "o_dat"} /\ map' = map
         \/ pc'[p] = "return" /\ map' = [map EXCEPT ![call[p].key] = map[call[p].key]]
      /\ pc'[p] \in {"d_lock", "o_dat"} /\ call[p].op = "store" => call[p].flag # "DB_INSERT"
  <2>1. call[p].op \in {"fetch", "delete", "store"}
    BY <1>0, CallFacts DEF Found, InCall
  <2> QED BY <1>0, <2>1 DEF Found, Go, Quiet, Result, Effect, files, locks, seen, TypeOK
<1>2. map' = map
  BY <1>0, <1>1 DEF TypeOK
<1>3. PICK h : h = ChainOff(p)
  OBVIOUS
<1>4. PICK d : d = db[p]
  OBVIOUS
<1>5. PICK x : x = d.off
  OBVIOUS
<1>6. /\ h \in 1 .. NHash /\ x \in Chained[h] /\ d.ptroff \in {h} \cup Chained[h] /\ x = Ptr[d.ptroff] /\ x # d.ptroff
      /\ Rec(x).key = Key[x] /\ Rec(x).ptr = Ptr[x] /\ Rec(x).dat = Dat[x] /\ Ptr[x] \in Nat /\ x \in Recs
  BY <1>1, <1>3, <1>4, <1>5, WalksChain
<1>7. Key[x] = call[p].key
  BY <1>4, <1>5, <1>6 DEF Found
<1>8. map[call[p].key] # None
  BY <1>1, <1>3, <1>6, <1>7, There DEF Inside
<1>9. d \in DB /\ db \in [Procs \cup Scanners -> DB] /\ x \in Nat /\ Dat[x] \in Nat
  BY <1>0, <1>4, <1>5, <1>6, IndexFacts DEF TypeOK, DB
<1>10. db' = [db EXCEPT ![p].idxoff = x, ![p].datoff = Dat[x], ![p].ptrval = Ptr[x]]
  BY <1>4, <1>5, <1>6 DEF Found, db_readidx
<1>11. /\ db'[p].idxoff = x /\ db'[p].datoff = Dat[x] /\ db'[p].ptrval = Ptr[x] /\ db'[p].ptroff = d.ptroff
       /\ db' \in [Procs \cup Scanners -> DB]
  <2>1. db'[p] = [d EXCEPT !.idxoff = x, !.datoff = Dat[x], !.ptrval = Ptr[x]]
    BY <1>4, <1>9, <1>10
  <2>2. db' = [db EXCEPT ![p] = [d EXCEPT !.idxoff = x, !.datoff = Dat[x], !.ptrval = Ptr[x]]]
    BY <1>4, <1>10
  <2>3. [d EXCEPT !.idxoff = x, !.datoff = Dat[x], !.ptrval = Ptr[x]] \in DB
    BY <1>6, <1>9 DEF DB
  <2>4. db' \in [Procs \cup Scanners -> DB]
    BY <1>9, <2>2, <2>3
  <2> QED BY <1>9, <2>1, <2>4 DEF DB
<1>12. TypeOK'
  BY <1>0, <1>1, <1>2, <1>11 DEF TypeOK, OnlyMoves
<1>13. Chained' = Chained /\ Key' = Key /\ Ptr' = Ptr /\ Dat' = Dat
  BY <1>0, <1>1, SameIndex DEF Holding
<1>14. AtRecord(p)'
  BY <1>1, <1>3, <1>6, <1>7, <1>11, <1>13 DEF AtRecord, ChainOff
<1>15. Knows(p)' /\ HasData(p)' /\ Expects(p)'
  BY <1>1, <1>2, <1>8, <1>14 DEF Knows, HasData, Expects, FoundSteps, Unchaining, AbsentSteps, ChainptrSteps,
     InsertSteps, AppendSteps, DeleteSteps
<1> QED BY <1>0, <1>1, <1>2, <1>8, <1>12, <1>15, QuietStep DEF StoreInv, Holding, Unchaining, Between, AppendSteps

\* _db_readdat changes nothing, in the files or in the map.
LEMMA ReaddatStep ==
    ASSUME DbInv, NEW p \in Procs, db_readdat(p)
    PROVE  StoreInv' /\ map' = map
<1>0. TypeOK /\ CallInv /\ OnlyMoves(p) /\ InCall(p)
  BY StepMoves DEF DbInv, Step, CallInv
<1>1. /\ pc[p] = "readdat" /\ pc'[p] = "return" /\ UNCHANGED <<head, idx, dat, rd, wr, db, call, must, got>>
      /\ map' = [map EXCEPT ![call[p].key] = map[call[p].key]]
  BY <1>0 DEF db_readdat, Go, Result, Effect, files, locks, seen, TypeOK
<1>2. map' = map
  BY <1>0, <1>1 DEF TypeOK
<1>3. TypeOK'
  BY <1>0, <1>1, <1>2 DEF TypeOK, OnlyMoves
<1>4. Knows(p)' /\ HasData(p)' /\ Expects(p)'
  BY <1>1 DEF Knows, HasData, Expects, FoundSteps, Unchaining, AbsentSteps, ChainptrSteps,
     InsertSteps, AppendSteps, DeleteSteps
<1> QED BY <1>0, <1>1, <1>2, <1>3, <1>4, QuietStep DEF StoreInv, Holding, Unchaining, Between, AppendSteps

\* The unlock at the end of a call leaves the files as they are.
LEMMA ReturnStep ==
    ASSUME DbInv, NEW p \in Procs, Return(p)
    PROVE  StoreInv'
<1>0. TypeOK /\ CallInv /\ OnlyMoves(p) /\ InCall(p)
  BY StepMoves DEF DbInv, Step, CallInv
<1>1. /\ pc[p] = "return" /\ pc'[p] = "idle" /\ UNCHANGED <<head, idx, dat, map, must, got>>
      /\ db' = [db EXCEPT ![p] = NoDB] /\ call' = [call EXCEPT ![p] = None] /\ Unlock(p, ChainOff(p))
  BY <1>0 DEF Return, Go, Clear, files, seen, TypeOK
<1>2. TypeOK'
  <2>1. ChainOff(p) \in 0 .. NHash
    BY <1>0, <1>1, CallFacts DEF InCall
  <2>2. /\ rd' \in [0 .. NHash -> SUBSET (Procs \cup Scanners)]
        /\ wr' \in [0 .. NHash -> SUBSET Procs]
    BY <1>0, <1>1, <2>1, LocksTyped
  <2>3. NoDB \in DB
    BY DEF NoDB, DB
  <2>4. db' \in [Procs \cup Scanners -> DB] /\ call' \in [Procs -> KS!Calls \cup {None}]
    BY <1>0, <1>1, <2>3 DEF TypeOK
  <2> QED BY <1>0, <1>1, <2>2, <2>4 DEF TypeOK, OnlyMoves
<1>3. Knows(p)' /\ HasData(p)' /\ Expects(p)'
  BY <1>1 DEF Knows, HasData, Expects, FoundSteps, Unchaining, AbsentSteps, ChainptrSteps,
     InsertSteps, AppendSteps, DeleteSteps
<1>4. call'[p] = None
  BY <1>0, <1>1 DEF TypeOK
<1> QED BY <1>0, <1>1, <1>2, <1>3, <1>4, QuietStep DEF StoreInv, Holding, Unchaining, Between, AppendSteps

\* A call of its own may make a key no longer one that scans must find.
LEMMA CallsStep ==
    ASSUME DbInv, NEW p \in Procs, NEW c \in Offered, Call(p, c)
    PROVE  StoreInv'
<1>0. TypeOK /\ CallInv /\ OnlyMoves(p) /\ InCall(p) /\ ScanInv /\ Procs \cap Scanners = {}
  BY StepMoves, DbAssumption DEF DbInv, Step, CallInv
<1>1. /\ pc[p] = "idle" /\ pc'[p] = "lock" /\ UNCHANGED <<head, idx, dat, rd, wr, map, db>>
      /\ call' = [call EXCEPT ![p] = c]
      /\ must' = IF c.op = "fetch" THEN must ELSE [s \in Scanners |-> must[s] \ {c.key}]
      /\ got' = [s \in Scanners |-> got[s] \cap must'[s]]
  BY <1>0 DEF Call, Go, files, locks, TypeOK
<1>2. /\ must \in [Scanners -> SUBSET Keys] /\ got \in [Scanners -> SUBSET Keys]
      /\ call \in [Procs -> KS!Calls \cup {None}]
  BY <1>0 DEF TypeOK
<1>3. \A s \in Scanners : /\ must'[s] = IF c.op = "fetch" THEN must[s] ELSE must[s] \ {c.key}
                          /\ got'[s] = got[s] \cap must'[s]
  BY <1>1, <1>2
<1>4. TypeOK'
  <2>1. must' \in [Scanners -> SUBSET Keys] /\ got' \in [Scanners -> SUBSET Keys]
    BY <1>1, <1>2
  <2>2. call' \in [Procs -> KS!Calls \cup {None}]
    BY <1>1, <1>2, OfferedAssumption
  <2> QED BY <1>0, <1>1, <2>1, <2>2 DEF TypeOK, OnlyMoves
<1>5. Knows(p)' /\ HasData(p)' /\ Expects(p)'
  BY <1>1 DEF Knows, HasData, Expects, FoundSteps, Unchaining, AbsentSteps, ChainptrSteps,
     InsertSteps, AppendSteps, DeleteSteps
<1>6. HeldInv' /\ ListInv' /\ KnowsInv' /\ DataInv' /\ MapInv'
  BY <1>0, <1>1, <1>5, QuietStep DEF Holding, Unchaining, Between, AppendSteps
<1>7. Recs' = Recs /\ Key' = Key /\ Dat' = Dat /\ Chained' = Chained
  BY <1>0, <1>1, SameIndex DEF Holding
<1>8. BeingWritten' \subseteq IF c.op = "fetch" THEN BeingWritten ELSE BeingWritten \cup {c.key}
  BY <1>1, <1>2 DEF BeingWritten
<1>9. ScanInv'
  <2> SUFFICES ASSUME NEW s \in Scanners
               PROVE  /\ got'[s] \subseteq must'[s] /\ must'[s] \cap BeingWritten' = {}
                      /\ pc'[s] = "idle" => must'[s] = {}
                      /\ pc'[s] = "eof" => must'[s] \subseteq got'[s]
                      /\ \A k \in must'[s] : \E r \in Chained'[Hash[k]] : Key'[r] = k
                      /\ pc'[s] \in {"next", "n_idx", "n_dat"} =>
                            /\ db'[s].off > NHash
                            /\ \A h \in 1 .. NHash : \A r \in Chained'[h] : Key'[r] \in must'[s] =>
                                   (Key'[r] \in got'[s] <=> r < Position(s)')
                      /\ pc'[s] = "n_dat" =>
                            /\ db'[s].off - 1 \in Recs' /\ Key'[db'[s].off - 1] = db'[s].key
                            /\ db'[s].key # Blank /\ Dat'[db'[s].off - 1] = db'[s].datoff
    BY DEF ScanInv, ScanRight
  <2>1. pc'[s] = pc[s] /\ db' = db
    BY <1>0, <1>1 DEF OnlyMoves
  <2>2. must'[s] \subseteq must[s] /\ got'[s] = got[s] \cap must'[s] /\ must'[s] \cap BeingWritten' = {}
    <3>1. must[s] \cap BeingWritten = {}
      BY <1>0 DEF ScanInv, ScanRight
    <3> QED BY <1>3, <1>8, <3>1
  <2>3. Position(s)' = Position(s)
    BY <2>1 DEF Position
  <2> QED BY <1>0, <1>7, <2>1, <2>2, <2>3 DEF ScanInv, ScanRight
<1> QED BY <1>4, <1>6, <1>9 DEF StoreInv

\* Taking the lock of the free list keeps what is known of the chain.
LEMMA LockFreeStep ==
    ASSUME DbInv, NEW p \in Procs, LockFree(p)
    PROVE  StoreInv'
<1>0. TypeOK /\ CallInv /\ OnlyMoves(p) /\ InCall(p) /\ Knows(p) /\ Expects(p)
  BY StepMoves DEF DbInv, Step, CallInv, KnowsInv
<1>1. /\ \/ pc[p] = "d_lock" /\ pc'[p] = "d_dat"
         \/ pc[p] = "f_lock" /\ pc'[p] = "f_first"
      /\ UNCHANGED <<head, idx, dat, db, map, call, must, got>> /\ WriteLock(p, FREE_OFF)
  BY <1>0 DEF LockFree, Go, Quiet, files, seen, TypeOK
<1>2. TypeOK'
  <2>1. /\ rd' \in [0 .. NHash -> SUBSET (Procs \cup Scanners)]
        /\ wr' \in [0 .. NHash -> SUBSET Procs]
    BY <1>0, <1>1, LocksTyped, IndexFacts
  <2> QED BY <1>0, <1>1, <2>1 DEF TypeOK, OnlyMoves
<1>3. Chained' = Chained /\ Key' = Key /\ Ptr' = Ptr /\ Dat' = Dat
  BY <1>0, <1>1, SameIndex DEF Holding
<1>4. Knows(p)' /\ HasData(p)' /\ Expects(p)'
  <2>1. AtRecord(p)' = AtRecord(p) /\ Absent(p)' = Absent(p) /\ ChainOff(p)' = ChainOff(p)
    BY <1>1, <1>3 DEF AtRecord, Absent, ChainOff
  <2> QED BY <1>0, <1>1, <1>3, <2>1 DEF Knows, HasData, Expects, FoundSteps, Unchaining, AbsentSteps, ChainptrSteps,
     InsertSteps, AppendSteps, DeleteSteps
<1> QED BY <1>0, <1>1, <1>2, <1>4, QuietStep DEF StoreInv, Holding, Unchaining, Between, AppendSteps

\* Reading the free list pointer and saving the chain pointer, in _db_dodelete.
LEMMA ReadFreeStep ==
    ASSUME DbInv, NEW p \in Procs, ReadFree(p)
    PROVE  StoreInv'
<1>0. TypeOK /\ CallInv /\ OnlyMoves(p) /\ InCall(p) /\ Knows(p) /\ Expects(p)
  BY StepMoves DEF DbInv, Step, CallInv, KnowsInv
<1>1. /\ pc[p] = "d_free" /\ pc'[p] = "d_idx"
      /\ UNCHANGED <<head, idx, dat, rd, wr, map, call, must, got>>
  BY <1>0 DEF ReadFree, Go, Quiet, files, locks, seen, TypeOK
<1>2. PICK d : d = db[p]
  OBVIOUS
<1>3. PICK v : v = Ptr[FREE_OFF]
  OBVIOUS
<1>4. db_readptr(FREE_OFF) = v /\ v \in Nat
  <2>1. db_readptr(FREE_OFF) = Ptr[FREE_OFF] /\ Ptr \in [0 .. NHash \cup Recs -> Nat] /\ FREE_OFF \in 0 .. NHash
    BY <1>0, IndexFacts
  <2> QED BY <1>3, <2>1
<1>5. d \in DB /\ db \in [Procs \cup Scanners -> DB]
  BY <1>0, <1>2 DEF TypeOK
<1>6. db' = [db EXCEPT ![p].freeptr = v, ![p].saveptr = d.ptrval]
  BY <1>2, <1>4 DEF ReadFree
<1>7. /\ db'[p].freeptr = v /\ db'[p].saveptr = d.ptrval /\ db'[p].ptrval = d.ptrval
      /\ db'[p].idxoff = d.idxoff /\ db'[p].datoff = d.datoff /\ db'[p].ptroff = d.ptroff
      /\ db' \in [Procs \cup Scanners -> DB]
  BY <1>2, <1>4, <1>5, <1>6 DEF DB
<1>8. TypeOK'
  BY <1>0, <1>1, <1>7 DEF TypeOK, OnlyMoves
<1>9. Chained' = Chained /\ Key' = Key /\ Ptr' = Ptr /\ Dat' = Dat
  BY <1>0, <1>1, SameIndex DEF Holding
<1>10. AtRecord(p)'
  <2>1. AtRecord(p)
    BY <1>0, <1>1 DEF Knows, FoundSteps
  <2> QED BY <1>1, <1>2, <1>7, <1>9, <2>1 DEF AtRecord, ChainOff
<1>11. Knows(p)' /\ HasData(p)' /\ Expects(p)'
  BY <1>0, <1>1, <1>3, <1>7, <1>9, <1>10 DEF Knows, HasData, Expects, FoundSteps, Unchaining, AbsentSteps,
     ChainptrSteps, InsertSteps, AppendSteps, DeleteSteps
<1> QED BY <1>0, <1>1, <1>2, <1>7, <1>8, <1>11, QuietStep DEF StoreInv, Holding, Unchaining, Between, AppendSteps

\* Reading the head of the chain, before a record is put in front of it.
LEMMA ReadChainStep ==
    ASSUME DbInv, NEW p \in Procs, ReadChain(p)
    PROVE  StoreInv'
<1>0. TypeOK /\ CallInv /\ OnlyMoves(p) /\ InCall(p) /\ Knows(p) /\ Expects(p)
  BY StepMoves DEF DbInv, Step, CallInv, KnowsInv
<1>1. /\ \/ pc[p] = "s_ptr" /\ pc'[p] = "f_lock"
         \/ pc[p] = "s_reread" /\ pc'[p] = "a_dat"
      /\ UNCHANGED <<head, idx, dat, rd, wr, map, call, must, got>>
  BY <1>0 DEF ReadChain, Go, Quiet, files, locks, seen, TypeOK
<1>2. PICK h : h = ChainOff(p)
  OBVIOUS
<1>3. h \in 0 .. NHash
  BY <1>0, <1>1, <1>2, CallFacts DEF InCall
<1>4. PICK v : v = Ptr[h]
  OBVIOUS
<1>5. db_readptr(h) = v /\ v \in Nat
  <2>1. db_readptr(h) = Ptr[h] /\ Ptr \in [0 .. NHash \cup Recs -> Nat]
    BY <1>0, <1>3, IndexFacts
  <2> QED BY <1>3, <1>4, <2>1
<1>6. db' = [db EXCEPT ![p] = [NoDB EXCEPT !.chainptr = v]]
  BY <1>2, <1>5 DEF ReadChain
<1>7. db'[p].chainptr = v /\ db' \in [Procs \cup Scanners -> DB]
  <2>1. [NoDB EXCEPT !.chainptr = v] \in DB /\ [NoDB EXCEPT !.chainptr = v].chainptr = v
    BY <1>5 DEF NoDB, DB
  <2> QED BY <1>0, <1>6, <2>1 DEF TypeOK
<1>8. TypeOK'
  BY <1>0, <1>1, <1>7 DEF TypeOK, OnlyMoves
<1>9. Chained' = Chained /\ Key' = Key /\ Ptr' = Ptr /\ Dat' = Dat
  BY <1>0, <1>1, SameIndex DEF Holding
<1>10. Absent(p)' /\ Hash[call'[p].key] = h
  <2>1. Absent(p)
    BY <1>0, <1>1 DEF Knows, AbsentSteps, InsertSteps
  <2> QED BY <1>1, <1>2, <1>9, <2>1 DEF Absent, ChainOff
<1>11. Knows(p)' /\ HasData(p)' /\ Expects(p)'
  <2>1. db'[p].chainptr = Ptr'[ChainOff(p)']
    BY <1>4, <1>7, <1>9, <1>10 DEF ChainOff
  <2>2. Knows(p)'
    BY <1>1, <1>10, <2>1 DEF Knows, FoundSteps, Unchaining, ChainptrSteps, InsertSteps, AppendSteps
  <2>3. HasData(p)'
    BY <1>1 DEF HasData
  <2>4. Expects(p)'
    BY <1>0, <1>1 DEF InCall, Expects, FoundSteps, Unchaining, InsertSteps, AppendSteps, DeleteSteps
  <2> QED BY <2>2, <2>3, <2>4
<1> QED BY <1>0, <1>1, <1>8, <1>11, QuietStep DEF StoreInv, Holding, Unchaining, Between, AppendSteps

\* The steps of db_findfree that read.
LEMMA FirstFreeStep ==
    ASSUME DbInv, NEW p \in Procs, FirstFree(p)
    PROVE  StoreInv'
<1>0. TypeOK /\ CallInv /\ OnlyMoves(p) /\ InCall(p) /\ Knows(p) /\ Expects(p)
  BY StepMoves DEF DbInv, Step, CallInv, KnowsInv
<1>1. /\ pc[p] = "f_first" /\ pc'[p] = "f_walk"
      /\ UNCHANGED <<head, idx, dat, rd, wr, map, call, must, got>>
  BY <1>0 DEF FirstFree, Go, Quiet, files, locks, seen, TypeOK
<1>2. PICK v : v = Ptr[FREE_OFF]
  OBVIOUS
<1>3. db_readptr(FREE_OFF) = v /\ v \in Nat
  <2>1. db_readptr(FREE_OFF) = Ptr[FREE_OFF] /\ Ptr \in [0 .. NHash \cup Recs -> Nat] /\ FREE_OFF \in 0 .. NHash
    BY <1>0, IndexFacts
  <2> QED BY <1>2, <2>1
<1>4. db[p] \in DB /\ db \in [Procs \cup Scanners -> DB]
  BY <1>0 DEF TypeOK
<1>5. db' = [db EXCEPT ![p].saveoff = FREE_OFF, ![p].off = v]
  BY <1>3 DEF FirstFree
<1>6. /\ db'[p].saveoff = FREE_OFF /\ db'[p].off = v /\ db'[p].chainptr = db[p].chainptr
      /\ db' \in [Procs \cup Scanners -> DB]
  BY <1>3, <1>4, <1>5 DEF DB, FREE_OFF
<1>7. TypeOK'
  BY <1>0, <1>1, <1>6 DEF TypeOK, OnlyMoves
<1>8. Chained' = Chained /\ Key' = Key /\ Ptr' = Ptr /\ Free' = Free
  BY <1>0, <1>1, SameIndex DEF Holding
<1>9. Knows(p)' /\ HasData(p)' /\ Expects(p)'
  <2>1. Absent(p)' /\ db'[p].chainptr = Ptr'[ChainOff(p)']
    BY <1>0, <1>1, <1>6, <1>8 DEF Knows, Absent, ChainOff, AbsentSteps, ChainptrSteps, InsertSteps
  <2>2. WalkingFree(p)'
    BY <1>2, <1>6, <1>8 DEF WalkingFree, FREE_OFF
  <2>3. Knows(p)'
    BY <1>1, <2>1, <2>2 DEF Knows, FoundSteps, Unchaining
  <2>4. HasData(p)'
    BY <1>1 DEF HasData
  <2>5. Expects(p)'
    BY <1>0, <1>1 DEF Expects, FoundSteps, Unchaining, InsertSteps, AppendSteps, DeleteSteps
  <2> QED BY <2>3, <2>4, <2>5
<1> QED BY <1>0, <1>1, <1>7, <1>9, QuietStep DEF StoreInv, Holding, Unchaining, Between, AppendSteps

\* Where a call that walks the free list is.
LEMMA WalksFree ==
    ASSUME DbInv, NEW p \in Procs, pc[p] = "f_walk", NEW d, d = db[p], d.off # 0
    PROVE  /\ IsChain(FREE_OFF, Free, Ptr) /\ d.saveoff \in {FREE_OFF} \cup Free
           /\ d.off = Ptr[d.saveoff] /\ d.off # d.saveoff /\ d.off \in Free
           /\ d.off \in Recs /\ Rec(d.off).ptr = Ptr[d.off] /\ Rec(d.off).dat = Dat[d.off]
           /\ Ptr[d.off] \in Nat /\ Dat[d.off] \in Nat
<1>0. TypeOK /\ ListInv /\ WalkingFree(p)
  BY DEF DbInv, KnowsInv, Knows
<1>1. /\ IsChain(FREE_OFF, Free, Ptr) /\ d.saveoff \in {FREE_OFF} \cup Free
      /\ d.off = Ptr[d.saveoff] /\ d.off # d.saveoff
  BY <1>0 DEF ListInv, WalkingFree
<1>2. d.off \in Free
  BY <1>1 DEF IsChain, Linked
<1>3. d.off \in Recs
  BY <1>0, <1>2, ListFacts
<1>4. /\ Rec(d.off).ptr = Ptr[d.off] /\ Rec(d.off).dat = Dat[d.off]
      /\ Ptr \in [0 .. NHash \cup Recs -> Nat] /\ Dat \in [Recs -> Nat]
  BY <1>0, <1>3, IndexFacts
<1> QED BY <1>1, <1>2, <1>3, <1>4

\* _db_findfree goes on along the free list, or comes to a record that fits.
LEMMA WalkFreeStep ==
    ASSUME DbInv, NEW p \in Procs, WalkFree(p)
    PROVE  StoreInv'
<1>0. TypeOK /\ CallInv /\ OnlyMoves(p) /\ InCall(p) /\ Knows(p) /\ Expects(p)
  BY StepMoves DEF DbInv, Step, CallInv, KnowsInv
<1>1. /\ pc[p] = "f_walk" /\ pc'[p] \in {"f_take", "f_walk"}
      /\ UNCHANGED <<head, idx, dat, rd, wr, map, call, must, got>>
  BY <1>0 DEF WalkFree, Go, Quiet, files, locks, seen, TypeOK
<1>2. PICK d : d = db[p]
  OBVIOUS
<1>3. PICK x : x = d.off
  OBVIOUS
<1>4. /\ IsChain(FREE_OFF, Free, Ptr) /\ d.saveoff \in {FREE_OFF} \cup Free /\ x # 0
      /\ x = Ptr[d.saveoff] /\ x # d.saveoff /\ x \in Free
      /\ Rec(x).ptr = Ptr[x] /\ Rec(x).dat = Dat[x] /\ Ptr[x] \in Nat /\ Dat[x] \in Nat
  BY <1>1, <1>2, <1>3, WalksFree DEF WalkFree
<1>5. d \in DB /\ db \in [Procs \cup Scanners -> DB] /\ x \in Nat
  BY <1>0, <1>2, <1>3 DEF TypeOK, DB
<1>6. \/ /\ pc'[p] = "f_take"
         /\ db' = [db EXCEPT ![p].idxoff = x, ![p].datoff = Dat[x], ![p].ptrval = Ptr[x]]
      \/ /\ pc'[p] = "f_walk"
         /\ db' = [db EXCEPT ![p].saveoff = x, ![p].off = Ptr[x]]
  BY <1>0, <1>1, <1>2, <1>3, <1>4 DEF WalkFree, db_readidx, Go, TypeOK
<1>7. /\ db' \in [Procs \cup Scanners -> DB] /\ db'[p].chainptr = d.chainptr
      /\ pc'[p] = "f_take" => /\ db'[p].idxoff = x /\ db'[p].datoff = Dat[x] /\ db'[p].ptrval = Ptr[x]
                              /\ db'[p].saveoff = d.saveoff
      /\ pc'[p] = "f_walk" => db'[p].saveoff = x /\ db'[p].off = Ptr[x]
  <2>1. CASE /\ pc'[p] = "f_take"
             /\ db' = [db EXCEPT ![p].idxoff = x, ![p].datoff = Dat[x], ![p].ptrval = Ptr[x]]
    <3>1. db'[p] = [d EXCEPT !.idxoff = x, !.datoff = Dat[x], !.ptrval = Ptr[x]]
      BY <1>2, <1>5, <2>1
    <3>2. db' = [db EXCEPT ![p] = [d EXCEPT !.idxoff = x, !.datoff = Dat[x], !.ptrval = Ptr[x]]]
      BY <1>2, <2>1
    <3>3. [d EXCEPT !.idxoff = x, !.datoff = Dat[x], !.ptrval = Ptr[x]] \in DB
      BY <1>4, <1>5 DEF DB
    <3>4. db' \in [Procs \cup Scanners -> DB]
      BY <1>5, <3>2, <3>3
    <3> QED BY <1>5, <2>1, <3>1, <3>4 DEF DB
  <2>2. CASE /\ pc'[p] = "f_walk"
             /\ db' = [db EXCEPT ![p].saveoff = x, ![p].off = Ptr[x]]
    BY <1>2, <1>4, <1>5, <2>2 DEF DB
  <2> QED BY <1>6, <2>1, <2>2
<1>8. TypeOK'
  BY <1>0, <1>1, <1>7 DEF TypeOK, OnlyMoves
<1>9. Chained' = Chained /\ Key' = Key /\ Ptr' = Ptr /\ Free' = Free /\ Dat' = Dat
  BY <1>0, <1>1, SameIndex DEF Holding
<1>10. Knows(p)' /\ HasData(p)' /\ Expects(p)'
  <2>1. Absent(p)' /\ db'[p].chainptr = Ptr'[ChainOff(p)']
    BY <1>0, <1>1, <1>2, <1>7, <1>9 DEF Knows, Absent, ChainOff, AbsentSteps, ChainptrSteps, InsertSteps
  <2>2. pc'[p] = "f_take" => AtFree(p)'
    BY <1>4, <1>7, <1>9 DEF AtFree
  <2>3. pc'[p] = "f_walk" => WalkingFree(p)'
    <3>1. Ptr[x] # 0 => Ptr[x] # x
      BY <1>4 DEF IsChain, Linked
    <3> QED BY <1>4, <1>7, <1>9, <3>1 DEF WalkingFree
  <2>4. Knows(p)'
    BY <1>1, <2>1, <2>2, <2>3 DEF Knows, FoundSteps, Unchaining
  <2>5. HasData(p)'
    BY <1>1 DEF HasData
  <2>6. Expects(p)'
    BY <1>0, <1>1 DEF Expects, FoundSteps, Unchaining, InsertSteps, AppendSteps, DeleteSteps
  <2> QED BY <2>4, <2>5, <2>6
<1> QED BY <1>0, <1>1, <1>8, <1>10, QuietStep DEF StoreInv, Holding, Unchaining, Between, AppendSteps

\* _db_findfree gives the lock back when no record fits.
LEMMA NoneFreeStep ==
    ASSUME DbInv, NEW p \in Procs, NoneFree(p)
    PROVE  StoreInv'
<1>0. TypeOK /\ CallInv /\ OnlyMoves(p) /\ InCall(p) /\ Knows(p) /\ Expects(p)
  BY StepMoves DEF DbInv, Step, CallInv, KnowsInv
<1>1. /\ pc[p] = "f_walk" /\ pc'[p] = "a_dat" /\ Unlock(p, FREE_OFF)
      /\ UNCHANGED <<head, idx, dat, db, map, call, must, got>>
  BY <1>0 DEF NoneFree, Go, Quiet, files, seen, TypeOK
<1>2. TypeOK'
  <2>1. /\ rd' \in [0 .. NHash -> SUBSET (Procs \cup Scanners)]
        /\ wr' \in [0 .. NHash -> SUBSET Procs]
    BY <1>0, <1>1, LocksTyped, IndexFacts
  <2> QED BY <1>0, <1>1, <2>1 DEF TypeOK, OnlyMoves
<1>3. Chained' = Chained /\ Key' = Key /\ Ptr' = Ptr
  BY <1>0, <1>1, SameIndex DEF Holding
<1>4. Knows(p)' /\ HasData(p)' /\ Expects(p)'
  <2>1. Absent(p)' /\ db'[p].chainptr = Ptr'[ChainOff(p)']
    BY <1>0, <1>1, <1>3 DEF Knows, Absent, ChainOff, AbsentSteps, ChainptrSteps, InsertSteps
  <2>2. Knows(p)'
    BY <1>1, <2>1 DEF Knows, FoundSteps, Unchaining
  <2>3. HasData(p)'
    BY <1>1 DEF HasData
  <2>4. Expects(p)'
    BY <1>0, <1>1 DEF Expects, FoundSteps, Unchaining, InsertSteps, AppendSteps, DeleteSteps
  <2> QED BY <2>2, <2>3, <2>4
<1> QED BY <1>0, <1>1, <1>2, <1>4, QuietStep DEF StoreInv, Holding, Unchaining, Between, AppendSteps

-----------------------------------------------------------------------------
\* A step that writes to the data file only, at w, and not over the data of a
\* record that another process has to itself.
LEMMA DataStep ==
    ASSUME DbInv, NEW p \in Procs, OnlyMoves(p), UNCHANGED <<head, idx, call, must, got>>,
           Inside(p), call[p].op # "fetch", ~Unchaining(p),
           \/ pc[p] \notin Holding /\ pc'[p] \notin Holding
           \/ pc[p] = "r_dat" /\ pc'[p] = "r_idx" /\ db'[p].idxoff = db[p].idxoff,
           NEW w, Len(dat) \in Nat, Len(dat') \in Nat, Len(dat) <= Len(dat'),
           \A i \in 1 .. Len(dat) : i # w => dat'[i] = dat[i],
           \A q \in Procs \ {p} : /\ pc[q] \in Holding => Dat[db[q].idxoff] # w
                                  /\ pc[q] = "a_idx" => db[q].datoff # w,
           \A k \in Keys : k # call[p].key => map'[k] = map[k],
           Knows(p)' /\ HasData(p)' /\ Expects(p)'
    PROVE  /\ HeldInv' /\ ListInv' /\ KnowsInv' /\ ScanInv'
           /\ Recs' = Recs /\ Dat' = Dat
           /\ \A r \in Recs : Dat[r] \in 1 .. Len(dat') /\ (Dat[r] # w => dat'[Dat[r]] = dat[Dat[r]])
<1>0. /\ TypeOK /\ CallInv /\ LocksInv /\ HeldInv /\ ListInv /\ KnowsInv /\ DataInv /\ MapInv /\ ScanInv
  BY DEF DbInv
<1>1. /\ Recs' = Recs /\ Key' = Key /\ Dat' = Dat /\ Ptr' = Ptr
      /\ Held' = Held /\ Chained' = Chained /\ Free' = Free
  BY SameIndex DEF Holding
<1>2. /\ \A r \in Recs : SameRec(r)
      /\ \A g \in 1 .. NHash : SameChain(g)
      /\ SameFree
  BY <1>0, <1>1, AllSame
<1>3. HeldInv'
  <2>1. \A r \in Recs' : Key'[r] = Blank => r <= PtrMax
    BY <1>0, <1>1 DEF HeldInv
  <2>2. \A q \in Procs : pc'[q] \in Holding => /\ pc[q] \in Holding /\ db[q].idxoff = db'[q].idxoff
                                               /\ pc'[q] = "chain" <=> pc[q] = "chain"
    BY DEF OnlyMoves, Holding
  <2>3. \A q, t \in Procs : pc'[q] \in Holding /\ pc'[t] \in Holding /\ db'[q].idxoff = db'[t].idxoff => q = t
    BY <1>0, <2>2 DEF HeldInv
  <2>4. \A q \in Procs : pc'[q] \in Holding =>
          /\ db'[q].idxoff \in Recs'
          /\ Key'[db'[q].idxoff] = IF pc'[q] = "chain" THEN call'[q].key ELSE Blank
    BY <1>0, <1>1, <2>2 DEF HeldInv
  <2> QED BY <2>1, <2>3, <2>4 DEF HeldInv
<1>4. ListInv'
  <2>1. ASSUME NEW g \in 1 .. NHash
        PROVE  /\ (\A q \in Procs : Unchaining(q)' => ChainOff(q)' # g) => IsChain(g, Chained'[g], Ptr')
               /\ \A r, o \in Chained'[g] : Key'[r] = Key'[o] => r = o
    BY <1>2, ListsElsewhere
  <2>2. IsChain(FREE_OFF, Free', Ptr')
    BY <1>0, <1>1 DEF ListInv
  <2> QED BY <2>1, <2>2 DEF ListInv, FREE_OFF
<1>5. KnowsInv'
  <2> SUFFICES ASSUME NEW q \in Procs \ {p} PROVE Knows(q)' /\ HasData(q)' /\ Expects(q)'
    BY DEF KnowsInv
  <2>1. pc'[q] = pc[q] /\ db'[q] = db[q] /\ call'[q] = call[q]
    BY DEF OnlyMoves
  <2>2. Inside(q) => SameChain(ChainOff(q)) /\ map'[call[q].key] = map[call[q].key]
    <3> SUFFICES ASSUME Inside(q) PROVE SameChain(ChainOff(q)) /\ map'[call[q].key] = map[call[q].key]
      OBVIOUS
    <3>1. ChainOff(q) \in 1 .. NHash /\ call[q].key \in Keys
      BY <1>0, CallFacts DEF CallInv, InCall, Inside
    <3>2. call[q].key # call[p].key
      BY <1>0, Alone DEF ChainOff
    <3> QED BY <1>2, <3>1, <3>2
  <2>3. pc[q] \in Holding => /\ SameRec(db[q].idxoff)
                             /\ dat'[Dat[db[q].idxoff]] = dat[Dat[db[q].idxoff]]
    BY <1>0, <1>2 DEF HeldInv, DataInv
  <2>4. pc[q] = "a_idx" => HasData(q)'
    <3> SUFFICES ASSUME pc[q] = "a_idx" PROVE HasData(q)'
      OBVIOUS
    <3>1. /\ db[q].datoff \in 1 .. Len(dat) /\ dat[db[q].datoff] = call[q].val
          /\ \A r \in Recs : Dat[r] # db[q].datoff /\ db[q].datoff # w
      BY <1>0 DEF KnowsInv, HasData
    <3>2. db[q].datoff \in 1 .. Len(dat')
      BY <3>1
    <3> QED BY <1>1, <2>1, <3>1, <3>2 DEF HasData
  <2>5. Undisturbed(q)
    BY <1>2, <2>1, <2>2, <2>3, <2>4 DEF Undisturbed
  <2> QED BY <2>5, StillKnows
<1>6. ScanInv'
  <2>1. BeingWritten' = BeingWritten
    BY DEF BeingWritten
  <2> QED BY <1>1, <1>2, <2>1, ScansElsewhere
<1>7. \A r \in Recs : Dat[r] \in 1 .. Len(dat') /\ (Dat[r] # w => dat'[Dat[r]] = dat[Dat[r]])
  <2>1. \A r \in Recs : Dat[r] \in 1 .. Len(dat)
    BY <1>0 DEF DataInv
  <2> QED BY <2>1
<1> QED BY <1>1, <1>3, <1>4, <1>5, <1>6, <1>7

\* Then the map is right if it is for the one record whose data has changed.
LEMMA MapData ==
    ASSUME DbInv, NEW p \in Procs, OnlyMoves(p), UNCHANGED <<head, idx, call>>, Key' = Key, Dat' = Dat,
           Chained' = Chained, NEW x,
           \A g \in 1 .. NHash : \A r \in Chained[g] : r # x =>
               dat'[Dat[r]] = dat[Dat[r]] /\ map'[Key[r]] = map[Key[r]],
           \A g \in 1 .. NHash : x \in Chained[g] => \/ dat'[Dat[x]] = map'[Key[x]]
                                                     \/ pc'[p] = "d_free" /\ db'[p].idxoff = x,
           pc[p] \notin {"d_free", "d_idx"}, Between(p) => Between(p)',
           \A k \in Keys : map'[k] = map[k] \/ \E r \in Chained[Hash[k]] : Key[r] = k
    PROVE  MapInv'
<1>0. TypeOK /\ MapInv
  BY DEF DbInv
<1>1. ASSUME NEW g \in 1 .. NHash, NEW r \in Chained[g],
             \A q \in Procs : pc'[q] \in {"d_free", "d_idx"} => db'[q].idxoff # r
      PROVE  dat'[Dat[r]] = map'[Key[r]]
  <2>1. CASE r = x
    BY <1>1, <2>1
  <2>2. CASE r # x
    <3>1. \A q \in Procs : pc[q] \in {"d_free", "d_idx"} => db[q].idxoff # r
      BY <1>1 DEF OnlyMoves
    <3> QED BY <1>0, <1>1, <2>2, <3>1 DEF MapInv
  <2> QED BY <2>1, <2>2
<1>2. ASSUME NEW k \in Keys, \A r \in Chained[Hash[k]] : Key[r] # k,
             \A q \in Procs : Between(q)' => call'[q].key # k
      PROVE  map'[k] = None
  <2>1. \A q \in Procs : Between(q) => call[q].key # k
    BY <1>2 DEF OnlyMoves, Between, Unchaining
  <2> QED BY <1>0, <1>2, <2>1 DEF MapInv
<1> QED BY <1>1, <1>2 DEF MapInv

\* Nobody else has to itself the record of the key of a call that writes.
LEMMA NotHeld ==
    ASSUME DbInv, NEW p \in Procs, NEW x \in Recs, x \notin Held
    PROVE  \A q \in Procs : /\ pc[q] \in Holding => Dat[db[q].idxoff] # Dat[x]
                            /\ pc[q] = "a_idx" => db[q].datoff # Dat[x]
<1>0. HeldInv /\ DataInv /\ KnowsInv
  BY DEF DbInv
<1>1. ASSUME NEW q \in Procs, pc[q] \in Holding PROVE Dat[db[q].idxoff] # Dat[x]
  <2>1. db[q].idxoff \in Recs /\ db[q].idxoff # x
    BY <1>0, <1>1 DEF HeldInv, Held
  <2> QED BY <1>0, <2>1 DEF DataInv
<1>2. ASSUME NEW q \in Procs, pc[q] = "a_idx" PROVE db[q].datoff # Dat[x]
  BY <1>0, <1>2 DEF KnowsInv, HasData
<1> QED BY <1>1, <1>2

\* Replacing one element of the data file.
LEMMA WritesData ==
    ASSUME TypeOK, NEW w \in 1 .. Len(dat), NEW v \in Vals \cup {Blank}, dat' = [dat EXCEPT ![w] = v]
    PROVE  /\ dat' \in Seq(Vals \cup {Blank}) /\ Len(dat') = Len(dat) /\ Len(dat) \in Nat
           /\ dat'[w] = v /\ \A i \in 1 .. Len(dat) : i # w => dat'[i] = dat[i]
<1>1. dat \in Seq(Vals \cup {Blank})
  BY DEF TypeOK
<1>2. Len(dat) \in Nat
  BY <1>1
<1>3. [dat EXCEPT ![w] = v] \in Seq(Vals \cup {Blank}) /\ Len([dat EXCEPT ![w] = v]) = Len(dat)
  BY <1>1, ReplaceInSeq
<1> QED BY <1>1, <1>2, <1>3

\* _db_dodelete blanks the data of its own record and of no other.
LEMMA BlankDataStep ==
    ASSUME DbInv, NEW p \in Procs, BlankData(p)
    PROVE  StoreInv'
<1>0. /\ TypeOK /\ CallInv /\ OnlyMoves(p) /\ InCall(p) /\ Knows(p) /\ Expects(p) /\ LocksInv /\ DataInv
  BY StepMoves DEF DbInv, Step, CallInv, KnowsInv
<1>1. /\ pc[p] = "d_dat" /\ pc'[p] = "d_free" /\ dat' = [dat EXCEPT ![db[p].datoff] = Blank]
      /\ UNCHANGED <<head, idx, rd, wr, db, map, call, must, got>>
  BY <1>0 DEF BlankData, Go, Quiet, locks, seen, TypeOK
<1>2. PICK h : h = ChainOff(p)
  OBVIOUS
<1>3. PICK x : x = db[p].idxoff
  OBVIOUS
<1>4. h \in 1 .. NHash /\ x \in Chained[h] /\ Key[x] = call[p].key /\ db[p].datoff = Dat[x]
  <2>1. h \in 1 .. NHash
    BY <1>0, <1>1, <1>2, CallFacts DEF InCall
  <2>2. AtRecord(p)
    BY <1>0, <1>1 DEF Knows, FoundSteps
  <2> QED BY <1>2, <1>3, <2>1, <2>2 DEF AtRecord
<1>5. x \in Recs /\ x \notin Held
  BY <1>0, <1>4, ListFacts
<1>6. PICK w : w = Dat[x]
  OBVIOUS
<1>7. w \in 1 .. Len(dat) /\ dat' = [dat EXCEPT ![w] = Blank]
  BY <1>0, <1>1, <1>4, <1>5, <1>6 DEF DataInv
<1>8. /\ dat' \in Seq(Vals \cup {Blank}) /\ Len(dat') = Len(dat) /\ Len(dat) \in Nat
      /\ dat'[w] = Blank /\ \A i \in 1 .. Len(dat) : i # w => dat'[i] = dat[i]
  BY <1>0, <1>7, WritesData
<1>9. TypeOK'
  BY <1>0, <1>1, <1>8 DEF TypeOK, OnlyMoves
<1>10. Chained' = Chained /\ Key' = Key /\ Ptr' = Ptr /\ Dat' = Dat /\ Recs' = Recs
  BY <1>0, <1>1, SameIndex DEF Holding
<1>11. Knows(p)' /\ HasData(p)' /\ Expects(p)'
  <2>1. AtRecord(p)' = AtRecord(p)
    BY <1>1, <1>10 DEF AtRecord, ChainOff
  <2>2. Knows(p)'
    BY <1>0, <1>1, <2>1 DEF Knows, FoundSteps, Unchaining, AbsentSteps, ChainptrSteps, InsertSteps, AppendSteps
  <2>3. HasData(p)'
    BY <1>1 DEF HasData
  <2>4. Expects(p)'
    BY <1>0, <1>1 DEF Expects, FoundSteps, Unchaining, InsertSteps, AppendSteps, DeleteSteps
  <2> QED BY <2>2, <2>3, <2>4
<1>12. Inside(p) /\ call[p].op # "fetch" /\ ~Unchaining(p) /\ pc[p] \notin Holding /\ pc'[p] \notin Holding
  BY <1>0, <1>1 DEF Inside, InCall, Unchaining, Holding, DeleteSteps
<1>13. \A q \in Procs : /\ pc[q] \in Holding => Dat[db[q].idxoff] # w
                        /\ pc[q] = "a_idx" => db[q].datoff # w
  BY <1>5, <1>6, NotHeld
<1>14. /\ HeldInv' /\ ListInv' /\ KnowsInv' /\ ScanInv'
       /\ \A r \in Recs : Dat[r] \in 1 .. Len(dat') /\ (Dat[r] # w => dat'[Dat[r]] = dat[Dat[r]])
  <2>1. Len(dat') \in Nat /\ Len(dat) <= Len(dat')
    BY <1>8
  <2>2. \A k \in Keys : k # call[p].key => map'[k] = map[k]
    BY <1>1
  <2>3. \A i \in 1 .. Len(dat) : i # w => dat'[i] = dat[i]
    BY <1>8
  <2>4. \A q \in Procs \ {p} : /\ pc[q] \in Holding => Dat[db[q].idxoff] # w
                               /\ pc[q] = "a_idx" => db[q].datoff # w
    BY <1>13
  <2>5. OnlyMoves(p) /\ UNCHANGED <<head, idx, call, must, got>> /\ Len(dat) \in Nat
    BY <1>0, <1>1, <1>8
  <2>6. \/ pc[p] \notin Holding /\ pc'[p] \notin Holding
        \/ pc[p] = "r_dat" /\ pc'[p] = "r_idx" /\ db'[p].idxoff = db[p].idxoff
    BY <1>12
  <2>7. Inside(p) /\ call[p].op # "fetch" /\ ~Unchaining(p)
    BY <1>12
  <2> QED BY <1>11, <2>1, <2>2, <2>3, <2>4, <2>5, <2>6, <2>7, DataStep
<1>15. DataInv'
  <2>1. \A q \in Procs : pc'[q] = "a_idx" => pc[q] = "a_idx" /\ db'[q] = db[q]
    BY <1>0, <1>1 DEF OnlyMoves
  <2> QED BY <1>0, <1>10, <1>14, <2>1 DEF DataInv
<1>16. MapInv'
  <2>1. ASSUME NEW g \in 1 .. NHash, NEW r \in Chained[g], r # x
        PROVE  dat'[Dat[r]] = dat[Dat[r]] /\ map'[Key[r]] = map[Key[r]]
    <3>1. r \in Recs /\ Dat[r] # w
      BY <1>0, <1>5, <1>6, <2>1, ListFacts DEF DataInv
    <3> QED BY <1>1, <1>14, <3>1
  <2>2. ~Between(p)
    BY <1>1 DEF Between, Unchaining, AppendSteps
  <2> QED BY <1>0, <1>1, <1>3, <1>10, <2>1, <2>2, MapData
<1> QED BY <1>9, <1>14, <1>15, <1>16 DEF StoreInv

\* Data at the end of the data file belongs to no record yet.
LEMMA AppendDataStep ==
    ASSUME DbInv, NEW p \in Procs, AppendData(p)
    PROVE  StoreInv'
<1>0. /\ TypeOK /\ CallInv /\ OnlyMoves(p) /\ InCall(p) /\ Knows(p) /\ Expects(p) /\ LocksInv /\ DataInv /\ KnowsInv
      /\ HeldInv
  BY StepMoves DEF DbInv, Step, CallInv, KnowsInv
<1>1. /\ pc[p] = "a_dat" /\ pc'[p] = "a_idx" /\ dat' = Append(dat, call[p].val)
      /\ UNCHANGED <<head, idx, rd, wr, map, call, must, got>>
  BY <1>0 DEF AppendData, Go, Quiet, locks, seen, TypeOK
<1>2. call[p].val \in Vals /\ dat \in Seq(Vals \cup {Blank})
  BY <1>0, <1>1, CallFacts DEF InCall, TypeOK, AppendSteps
<1>3. PICK w : w = Len(dat) + 1
  OBVIOUS
<1>4. /\ dat' \in Seq(Vals \cup {Blank}) /\ Len(dat') = w /\ Len(dat) \in Nat /\ w \in Nat
      /\ dat'[w] = call[p].val /\ \A i \in 1 .. Len(dat) : i # w /\ dat'[i] = dat[i]
  BY <1>1, <1>2, <1>3
<1>5. db' = [db EXCEPT ![p].datoff = w] /\ db \in [Procs \cup Scanners -> DB]
  BY <1>0, <1>3 DEF AppendData, TypeOK
<1>6. db'[p].datoff = w /\ db'[p].chainptr = db[p].chainptr /\ db' \in [Procs \cup Scanners -> DB]
  <2>1. w \in Nat /\ db[p] \in DB
    BY <1>4, <1>5
  <2> QED BY <1>5, <2>1 DEF DB
<1>7. TypeOK'
  BY <1>0, <1>1, <1>4, <1>6 DEF TypeOK, OnlyMoves
<1>8. Chained' = Chained /\ Key' = Key /\ Ptr' = Ptr /\ Dat' = Dat /\ Recs' = Recs
  BY <1>0, <1>1, SameIndex DEF Holding
<1>9. \A r \in Recs : Dat[r] \in 1 .. Len(dat) /\ Dat[r] # w
  BY <1>0, <1>4 DEF DataInv
<1>10. Knows(p)' /\ HasData(p)' /\ Expects(p)'
  <2>1. Absent(p)' /\ db'[p].chainptr = Ptr'[ChainOff(p)']
    BY <1>0, <1>1, <1>6, <1>8 DEF Knows, Absent, ChainOff, AbsentSteps, ChainptrSteps, AppendSteps
  <2>2. Knows(p)'
    BY <1>1, <2>1 DEF Knows, FoundSteps, Unchaining
  <2>3. HasData(p)'
    <3>1. w \in 1 .. Len(dat')
      BY <1>3, <1>4
    <3> QED BY <1>1, <1>4, <1>6, <1>8, <1>9, <3>1 DEF HasData
  <2>4. Expects(p)'
    BY <1>0, <1>1 DEF Expects, FoundSteps, Unchaining, InsertSteps, AppendSteps, DeleteSteps
  <2> QED BY <2>2, <2>3, <2>4
<1>11. Inside(p) /\ call[p].op # "fetch" /\ ~Unchaining(p) /\ pc[p] \notin Holding /\ pc'[p] \notin Holding
  BY <1>0, <1>1 DEF Inside, InCall, Unchaining, Holding, AppendSteps
<1>12. \A q \in Procs : /\ pc[q] \in Holding => Dat[db[q].idxoff] # w
                        /\ pc[q] = "a_idx" => db[q].datoff \in 1 .. Len(dat) /\ db[q].datoff # w
  BY <1>0, <1>4, <1>9 DEF HeldInv, KnowsInv, HasData
<1>13. /\ HeldInv' /\ ListInv' /\ KnowsInv' /\ ScanInv'
       /\ \A r \in Recs : Dat[r] \in 1 .. Len(dat') /\ (Dat[r] # w => dat'[Dat[r]] = dat[Dat[r]])
  <2>1. Len(dat') \in Nat /\ Len(dat) <= Len(dat')
    BY <1>3, <1>4
  <2>2. \A k \in Keys : k # call[p].key => map'[k] = map[k]
    BY <1>1
  <2>3. \A i \in 1 .. Len(dat) : i # w => dat'[i] = dat[i]
    BY <1>4
  <2>4. \A q \in Procs \ {p} : /\ pc[q] \in Holding => Dat[db[q].idxoff] # w
                               /\ pc[q] = "a_idx" => db[q].datoff # w
    BY <1>12
  <2>5. OnlyMoves(p) /\ UNCHANGED <<head, idx, call, must, got>> /\ Len(dat) \in Nat
    BY <1>0, <1>1, <1>4
  <2>6. \/ pc[p] \notin Holding /\ pc'[p] \notin Holding
        \/ pc[p] = "r_dat" /\ pc'[p] = "r_idx" /\ db'[p].idxoff = db[p].idxoff
    BY <1>11
  <2>7. Inside(p) /\ call[p].op # "fetch" /\ ~Unchaining(p)
    BY <1>11
  <2> QED BY <1>10, <2>1, <2>2, <2>3, <2>4, <2>5, <2>6, <2>7, DataStep
<1>14. DataInv'
  <2>1. \A q \in Procs \ {p} : pc'[q] = "a_idx" => pc[q] = "a_idx" /\ db'[q] = db[q] /\ db'[q].datoff # w
    BY <1>0, <1>12 DEF OnlyMoves
  <2>2. \A q, t \in Procs : pc'[q] = "a_idx" /\ pc'[t] = "a_idx" /\ db'[q].datoff = db'[t].datoff => q = t
    BY <1>0, <1>6, <2>1 DEF DataInv
  <2> QED BY <1>0, <1>8, <1>13, <2>2 DEF DataInv
<1>15. MapInv'
  <2>1. ASSUME NEW g \in 1 .. NHash, NEW r \in Chained[g]
        PROVE  dat'[Dat[r]] = dat[Dat[r]] /\ map'[Key[r]] = map[Key[r]] /\ r # 0
    <3>1. r \in Recs /\ r # 0
      BY <1>0, <2>1, ListFacts
    <3> QED BY <1>1, <1>9, <1>13, <3>1
  <2>2. Between(p)'
    BY <1>1 DEF Between, AppendSteps
  <2>3. PICK x : x = 0
    OBVIOUS
  <2> QED BY <1>0, <1>1, <1>8, <2>1, <2>2, <2>3, MapData
<1> QED BY <1>7, <1>13, <1>14, <1>15 DEF StoreInv

\* _db_writedat over a record writes the data of that record only.
LEMMA OverwriteDataStep ==
    ASSUME DbInv, NEW p \in Procs, OverwriteData(p)
    PROVE  StoreInv'
<1>0. /\ TypeOK /\ CallInv /\ OnlyMoves(p) /\ InCall(p) /\ Knows(p) /\ Expects(p) /\ LocksInv /\ DataInv /\ HeldInv
      /\ ListInv
  BY StepMoves DEF DbInv, Step, CallInv, KnowsInv
<1>1. /\ \/ pc[p] = "r_dat" /\ pc'[p] = "r_idx" /\ map' = map
         \/ pc[p] = "o_dat" /\ pc'[p] = "return" /\ map' = [map EXCEPT ![call[p].key] = call[p].val]
      /\ dat' = [dat EXCEPT ![db[p].datoff] = call[p].val]
      /\ UNCHANGED <<head, idx, rd, wr, db, call, must, got>>
  BY <1>0 DEF OverwriteData, Go, Quiet, Effect, locks, seen, TypeOK
<1>2. PICK h : h = ChainOff(p)
  OBVIOUS
<1>3. PICK x : x = db[p].idxoff
  OBVIOUS
<1>4. /\ h \in 1 .. NHash /\ call[p].val \in Vals /\ call[p].key \in Keys /\ call[p].op # "fetch"
  BY <1>0, <1>1, <1>2, CallFacts DEF InCall, InsertSteps
<1>5. /\ x \in Recs /\ db[p].datoff = Dat[x]
      /\ pc[p] = "o_dat" => x \in Chained[h] /\ Key[x] = call[p].key /\ x \notin Held
      /\ pc[p] = "r_dat" => Key[x] = Blank /\ x \in Held
  <2>1. CASE pc[p] = "o_dat"
    <3>1. AtRecord(p)
      BY <1>0, <2>1 DEF Knows, FoundSteps
    <3>2. x \in Chained[h] /\ Key[x] = call[p].key /\ db[p].datoff = Dat[x]
      BY <1>2, <1>3, <3>1 DEF AtRecord
    <3> QED BY <1>0, <1>4, <2>1, <3>2, ListFacts
  <2>2. CASE pc[p] = "r_dat"
    BY <1>0, <1>3, <2>2 DEF Knows, HeldInv, Holding, Held
  <2> QED BY <1>1, <2>1, <2>2
<1>6. PICK w : w = Dat[x]
  OBVIOUS
<1>7. w \in 1 .. Len(dat) /\ dat' = [dat EXCEPT ![w] = call[p].val]
  BY <1>0, <1>1, <1>5, <1>6 DEF DataInv
<1>8. /\ dat' \in Seq(Vals \cup {Blank}) /\ Len(dat') = Len(dat) /\ Len(dat) \in Nat
      /\ dat'[w] = call[p].val /\ \A i \in 1 .. Len(dat) : i # w => dat'[i] = dat[i]
  BY <1>0, <1>4, <1>7, WritesData
<1>9. /\ map' \in [Keys -> Vals \cup {None}] /\ \A k \in Keys : k # call[p].key => map'[k] = map[k]
      /\ pc[p] = "o_dat" => map'[call[p].key] = call[p].val
      /\ pc[p] = "r_dat" => map' = map
  BY <1>0, <1>1, <1>4 DEF TypeOK
<1>10. TypeOK'
  BY <1>0, <1>1, <1>8, <1>9 DEF TypeOK, OnlyMoves
<1>11. Chained' = Chained /\ Key' = Key /\ Ptr' = Ptr /\ Dat' = Dat /\ Recs' = Recs
  BY <1>0, <1>1, SameIndex DEF Holding
<1>12. Knows(p)' /\ HasData(p)' /\ Expects(p)'
  <2>1. CASE pc[p] = "o_dat"
    BY <1>1, <2>1 DEF Knows, HasData, Expects, FoundSteps, Unchaining, AbsentSteps, ChainptrSteps,
       InsertSteps, AppendSteps, DeleteSteps
  <2>2. CASE pc[p] = "r_dat"
    <3>1. Absent(p)' /\ db'[p].chainptr = Ptr'[ChainOff(p)'] /\ db'[p].datoff = Dat'[db'[p].idxoff]
      BY <1>0, <1>1, <1>3, <1>5, <1>11, <2>2 DEF Knows, Absent, ChainOff, AbsentSteps, ChainptrSteps, InsertSteps
    <3>2. Knows(p)'
      BY <1>1, <2>2, <3>1 DEF Knows, FoundSteps, Unchaining
    <3>3. HasData(p)'
      BY <1>1, <1>5, <1>6, <1>8, <2>2 DEF HasData
    <3>4. Expects(p)'
      BY <1>0, <1>1, <2>2 DEF Expects, FoundSteps, Unchaining, InsertSteps, AppendSteps, DeleteSteps
    <3> QED BY <3>2, <3>3, <3>4
  <2> QED BY <1>1, <2>1, <2>2
<1>13. \A q \in Procs \ {p} : /\ pc[q] \in Holding => Dat[db[q].idxoff] # w
                              /\ pc[q] = "a_idx" => db[q].datoff # w
  <2>1. CASE pc[p] = "o_dat"
    BY <1>5, <1>6, <2>1, NotHeld
  <2>2. CASE pc[p] = "r_dat"
    <3>1. ASSUME NEW q \in Procs \ {p}, pc[q] \in Holding PROVE Dat[db[q].idxoff] # w
      <4>1. db[q].idxoff # x /\ db[q].idxoff \in Recs
        BY <1>0, <1>3, <2>2, <3>1 DEF HeldInv, Holding
      <4> QED BY <1>0, <1>5, <1>6, <4>1 DEF DataInv
    <3>2. ASSUME NEW q \in Procs \ {p}, pc[q] = "a_idx" PROVE db[q].datoff # w
      BY <1>5, <1>6, <3>2 DEF DbInv, KnowsInv, HasData
    <3> QED BY <3>1, <3>2
  <2> QED BY <1>1, <2>1, <2>2
<1>14. Inside(p) /\ ~Unchaining(p)
  BY <1>1 DEF Inside, Unchaining
<1>15. /\ HeldInv' /\ ListInv' /\ KnowsInv' /\ ScanInv'
       /\ \A r \in Recs : Dat[r] \in 1 .. Len(dat') /\ (Dat[r] # w => dat'[Dat[r]] = dat[Dat[r]])
  <2>1. \/ pc[p] \notin Holding /\ pc'[p] \notin Holding
        \/ pc[p] = "r_dat" /\ pc'[p] = "r_idx" /\ db'[p].idxoff = db[p].idxoff
    BY <1>1 DEF Holding
  <2>2. Len(dat') \in Nat /\ Len(dat) <= Len(dat') /\ Len(dat) \in Nat
    BY <1>8
  <2>3. \A i \in 1 .. Len(dat) : i # w => dat'[i] = dat[i]
    BY <1>8
  <2>4. OnlyMoves(p) /\ UNCHANGED <<head, idx, call, must, got>> /\ call[p].op # "fetch"
    BY <1>0, <1>1, <1>4
  <2>5. \A k \in Keys : k # call[p].key => map'[k] = map[k]
    BY <1>9
  <2> QED BY <1>12, <1>13, <1>14, <2>1, <2>2, <2>3, <2>4, <2>5, DataStep
<1>16. DataInv'
  <2>1. \A q \in Procs : pc'[q] = "a_idx" => pc[q] = "a_idx" /\ db'[q] = db[q]
    BY <1>0, <1>1 DEF OnlyMoves
  <2> QED BY <1>0, <1>11, <1>15, <2>1 DEF DataInv
<1>17. MapInv'
  <2>1. ASSUME NEW g \in 1 .. NHash, NEW r \in Chained[g], r # x
        PROVE  dat'[Dat[r]] = dat[Dat[r]] /\ map'[Key[r]] = map[Key[r]]
    <3>1. r \in Recs /\ Dat[r] # w /\ Key[r] \in Keys /\ Hash[Key[r]] = g
      BY <1>0, <1>5, <1>6, <2>1, ListFacts DEF DataInv
    <3>2. pc[p] = "o_dat" => Key[r] # call[p].key
      BY <1>0, <1>2, <1>4, <1>5, <2>1, <3>1 DEF ListInv, ChainOff
    <3> QED BY <1>1, <1>9, <1>15, <3>1, <3>2
  <2>2. \A g \in 1 .. NHash : x \in Chained[g] => dat'[Dat[x]] = map'[Key[x]]
    BY <1>0, <1>1, <1>5, <1>6, <1>8, <1>9, ListFacts
  <2>3. \A k \in Keys : map'[k] = map[k] \/ \E r \in Chained[Hash[k]] : Key[r] = k
    BY <1>1, <1>2, <1>5, <1>9 DEF ChainOff
  <2>4. ~Between(p) /\ pc[p] \notin {"d_free", "d_idx"}
    BY <1>1 DEF Between, Unchaining, AppendSteps
  <2> QED BY <1>0, <1>1, <1>11, <2>1, <2>2, <2>3, <2>4, MapData
<1> QED BY <1>10, <1>15, <1>16, <1>17 DEF StoreInv

-----------------------------------------------------------------------------
\* What the map has for the keys of one chain.
MapRight(g) ==
    /\ \A r \in Chained[g] : (\A q \in Procs : pc[q] \in {"d_free", "d_idx"} => db[q].idxoff # r) =>
                                dat[Dat[r]] = map[Key[r]]
    /\ \A k \in Keys : Hash[k] = g /\ (\A r \in Chained[g] : Key[r] # k)
                           /\ (\A q \in Procs : Between(q) => call[q].key # k) => map[k] = None

\* The chains a step does not touch still hold the map of their keys.
LEMMA MapOfOthers ==
    ASSUME DbInv, NEW p \in Procs, OnlyMoves(p), NEW h, h = ChainOff(p), dat' = dat,
           \A g \in 1 .. NHash \ {h} : SameChain(g),
           \A k \in Keys : Hash[k] # h => map'[k] = map[k]
    PROVE  \A g \in 1 .. NHash \ {h} : MapRight(g)'
<1> SUFFICES ASSUME NEW g \in 1 .. NHash \ {h} PROVE MapRight(g)'
  OBVIOUS
<1>1. \A k \in Keys : Hash[k] = g => map'[k] = map[k]
  OBVIOUS
<1>2. g \in 1 .. NHash /\ SameChain(g) /\ ChainOff(p) # g
  OBVIOUS
<1>3. pc[p] \in {"d_free", "d_idx"} => \/ ChainOff(p) # g
                                       \/ pc'[p] \in {"d_free", "d_idx"} /\ db'[p].idxoff = db[p].idxoff
  BY <1>2
<1>4. Between(p) => ChainOff(p) # g \/ (Between(p)' /\ call'[p] = call[p])
  BY <1>2
<1>5. /\ \A r \in Chained'[g] :
            (\A q \in Procs : pc'[q] \in {"d_free", "d_idx"} => db'[q].idxoff # r) =>
                dat'[Dat'[r]] = map'[Key'[r]]
      /\ \A k \in Keys : Hash[k] = g /\ (\A r \in Chained'[g] : Key'[r] # k)
                             /\ (\A q \in Procs : Between(q)' => call'[q].key # k) => map'[k] = None
  BY <1>1, <1>2, <1>3, <1>4, MapElsewhere
<1> QED BY <1>5 DEF MapRight

\* A step that writes to the index file, in a call that has its own chain, h, locked
\* for writing: what it leaves to be shown is about the records of its key.
LEMMA IndexStep ==
    ASSUME DbInv, NEW p \in Procs, OnlyMoves(p), Inside(p), call[p].op # "fetch", NEW h, h = ChainOff(p),
           NEW k0, k0 = call[p].key,
           UNCHANGED <<dat, must, got>>, call'[p] \in {call[p], None},
           \A g \in 1 .. NHash \ {h} : SameChain(g),
           \A q \in Procs \ {p} : pc[q] \in Holding => SameRec(db[q].idxoff),
           \/ pc[p] \in Freeing
           \/ SameFree /\ \A r \in Recs : Key[r] # Blank => SameRec(r),
           \A r \in Recs' : \A q \in Procs \ {p} : pc[q] = "a_idx" => Dat'[r] # db[q].datoff,
           \A k \in Keys : k # k0 => map'[k] = map[k],
           \A r : r \in Chained[h] /\ Key[r] # k0 => r \in Chained'[h] /\ Key'[r] = Key[r] /\ Dat'[r] = Dat[r],
           \A r : r \in Chained'[h] /\ Key'[r] # k0 => r \in Chained[h] /\ Key'[r] = Key[r] /\ Dat'[r] = Dat[r],
           \A r, o \in Chained'[h] : Key'[r] = k0 /\ Key'[o] = k0 => r = o,
           (\A q \in Procs : Unchaining(q)' => ChainOff(q)' # h) => IsChain(h, Chained'[h], Ptr'),
           \A r \in Chained'[h] : Key'[r] = k0 => dat[Dat'[r]] = map'[k0],
           \/ map'[k0] = None
           \/ Between(p)' /\ call'[p] = call[p]
           \/ \E r \in Chained'[h] : Key'[r] = k0,
           IsChain(FREE_OFF, Free', Ptr'),
           Knows(p)' /\ HasData(p)' /\ Expects(p)'
    PROVE  ListInv' /\ KnowsInv' /\ MapInv' /\ ScanInv'
<1>0. /\ TypeOK /\ CallInv /\ LocksInv /\ HeldInv /\ ListInv /\ KnowsInv /\ DataInv /\ MapInv /\ ScanInv
  BY DEF DbInv
<1>1. h \in 1 .. NHash /\ k0 \in Keys /\ Hash[k0] = h /\ call[p] # None
  BY <1>0, CallFacts DEF CallInv, InCall, Inside, ChainOff
<1>2. KnowsInv'
  <2> SUFFICES ASSUME NEW q \in Procs \ {p} PROVE Knows(q)' /\ HasData(q)' /\ Expects(q)'
    BY DEF KnowsInv
  <2>1. pc'[q] = pc[q] /\ db'[q] = db[q] /\ call'[q] = call[q]
    BY DEF OnlyMoves
  <2>2. Inside(q) => SameChain(ChainOff(q)) /\ map'[call[q].key] = map[call[q].key]
    <3> SUFFICES ASSUME Inside(q) PROVE SameChain(ChainOff(q)) /\ map'[call[q].key] = map[call[q].key]
      OBVIOUS
    <3>1. ChainOff(q) \in 1 .. NHash /\ call[q].key \in Keys
      BY <1>0, CallFacts DEF CallInv, InCall, Inside
    <3>2. ChainOff(q) # h
      BY <1>0, Alone
    <3>3. call[q].key # k0
      BY <3>2 DEF ChainOff
    <3> QED BY <3>1, <3>2, <3>3
  <2>3. pc[q] \in Freeing => SameFree
    BY <1>0, Alone
  <2>4. pc[q] = "a_idx" => HasData(q)'
    BY <1>0, <2>1 DEF KnowsInv, HasData
  <2>5. Undisturbed(q)
    BY <2>1, <2>2, <2>3, <2>4 DEF Undisturbed
  <2> QED BY <2>5, StillKnows
<1>3. ListInv'
  <2>1. ASSUME NEW g \in 1 .. NHash, g # h
        PROVE  /\ (\A q \in Procs : Unchaining(q)' => ChainOff(q)' # g) => IsChain(g, Chained'[g], Ptr')
               /\ \A r, o \in Chained'[g] : Key'[r] = Key'[o] => r = o
    BY <2>1, ListsElsewhere
  <2>2. \A r, o \in Chained'[h] : Key'[r] = Key'[o] => r = o
    BY <1>0, <1>1 DEF ListInv
  <2> QED BY <2>1, <2>2 DEF ListInv, FREE_OFF
<1>4. MapInv'
  <2>0. \A k \in Keys : Hash[k] # h => map'[k] = map[k]
    BY <1>1
  <2>1. \A g \in 1 .. NHash \ {h} : MapRight(g)'
    BY <2>0, MapOfOthers
  <2>2. ASSUME NEW r \in Chained'[h],
               \A q \in Procs : pc'[q] \in {"d_free", "d_idx"} => db'[q].idxoff # r
        PROVE  dat'[Dat'[r]] = map'[Key'[r]]
    <3>1. CASE Key'[r] = k0
      BY <3>1
    <3>2. CASE Key'[r] # k0
      <4>1. r \in Chained[h] /\ Key'[r] = Key[r] /\ Dat'[r] = Dat[r] /\ Key[r] \in Keys
        BY <1>0, <1>1, <3>2, ListFacts
      <4>2. pc[p] \in {"d_free", "d_idx"} => db[p].idxoff # r
        BY <1>0, <3>2, <4>1 DEF KnowsInv, Knows, FoundSteps, AtRecord
      <4>3. \A q \in Procs : pc[q] \in {"d_free", "d_idx"} => db[q].idxoff # r
        BY <2>2, <4>2 DEF OnlyMoves
      <4>4. dat[Dat[r]] = map[Key[r]]
        BY <1>0, <1>1, <4>1, <4>3 DEF MapInv
      <4> QED BY <3>2, <4>1, <4>4
    <3> QED BY <3>1, <3>2
  <2>3. ASSUME NEW k \in Keys, Hash[k] = h, \A r \in Chained'[h] : Key'[r] # k,
               \A q \in Procs : Between(q)' => call'[q].key # k
        PROVE  map'[k] = None
    <3>1. CASE k = k0
      BY <2>3, <3>1
    <3>2. CASE k # k0
      <4>1. \A r \in Chained[h] : Key[r] # k
        BY <2>3, <3>2
      <4>2. \A q \in Procs : Between(q) => call[q].key # k
        BY <2>3, <3>2 DEF OnlyMoves, Between, Unchaining
      <4> QED BY <1>0, <2>3, <3>2, <4>1, <4>2 DEF MapInv
    <3> QED BY <3>1, <3>2
  <2>4. \A k \in Keys : Hash[k] \in 1 .. NHash
    BY DbAssumption
  <2>5. \A g \in 1 .. NHash : \A r \in Chained'[g] :
          (\A q \in Procs : pc'[q] \in {"d_free", "d_idx"} => db'[q].idxoff # r) =>
              dat'[Dat'[r]] = map'[Key'[r]]
    BY <2>1, <2>2 DEF MapRight
  <2>6. \A k \in Keys : (\A r \in Chained'[Hash[k]] : Key'[r] # k)
                           /\ (\A q \in Procs : Between(q)' => call'[q].key # k) => map'[k] = None
    BY <2>1, <2>3, <2>4 DEF MapRight
  <2> QED BY <2>5, <2>6 DEF MapInv
<1>5. ScanInv'
  <2>1. BeingWritten' \subseteq BeingWritten
    <3>1. \A q \in Procs : call'[q] # None => call'[q] = call[q]
      BY DEF OnlyMoves
    <3> QED BY <3>1 DEF BeingWritten
  <2>2. k0 \in BeingWritten
    BY <1>1 DEF BeingWritten
  <2>3. \A g \in 1 .. NHash : \A r : /\ r \in Chained[g] /\ Key[r] \notin BeingWritten =>
                                            r \in Chained'[g] /\ Key'[r] = Key[r]
                                     /\ r \in Chained'[g] /\ Key'[r] \notin BeingWritten =>
                                            r \in Chained[g] /\ Key'[r] = Key[r]
    BY <2>2 DEF SameChain, SameRec
  <2> QED BY <2>1, <2>3, ScansElsewhere
<1> QED BY <1>2, <1>3, <1>4, <1>5

\* A step after which all records but one, x, are where they were.
LEMMA OneRecord ==
    ASSUME DbInv, NEW p \in Procs, OnlyMoves(p), NEW x,
           pc[p] \in Holding => db[p].idxoff = x, pc'[p] \in Holding => db'[p].idxoff = x,
           \A q \in Procs \ {p} : pc[q] \in Holding => db[q].idxoff # x,
           \A r : r # x => (r \in Recs' <=> r \in Recs),
           \A r \in Recs : r # x => Key'[r] = Key[r]
    PROVE  /\ \A r : r # x => /\ r \in Held' <=> r \in Held
                              /\ \A g \in 1 .. NHash : r \in Chained'[g] <=> r \in Chained[g]
                              /\ r \in Free' <=> r \in Free
           /\ x \in Held' <=> pc'[p] \in Holding
           /\ \A g \in 1 .. NHash : x \in Chained'[g] <=> /\ x \in Recs' /\ x <= PtrMax /\ Key'[x] # Blank
                                                          /\ pc'[p] \notin Holding /\ Hash[Key'[x]] = g
           /\ x \in Free' <=> x \in Recs' /\ Key'[x] = Blank /\ pc'[p] \notin Holding
<1>1. \A r : r \in Held' <=> \E q \in Procs : pc'[q] \in Holding /\ db'[q].idxoff = r
  BY DEF Held
<1>2. \A r : r \in Held <=> \E q \in Procs : pc[q] \in Holding /\ db[q].idxoff = r
  BY DEF Held
<1>3. \A q \in Procs \ {p} : pc'[q] = pc[q] /\ db'[q] = db[q]
  BY DEF OnlyMoves
<1>4. \A r : r # x => (r \in Held' <=> r \in Held)
  BY <1>1, <1>2, <1>3
<1>5. x \in Held' <=> pc'[p] \in Holding
  BY <1>1, <1>3
<1>6. \A g \in 1 .. NHash : \A r : r \in Chained[g] <=> /\ r \in Recs /\ r <= PtrMax /\ Key[r] # Blank
                                                        /\ r \notin Held /\ Hash[Key[r]] = g
  BY DEF Chained
<1>7. \A g \in 1 .. NHash : \A r : r \in Chained'[g] <=> /\ r \in Recs' /\ r <= PtrMax /\ Key'[r] # Blank
                                                         /\ r \notin Held' /\ Hash[Key'[r]] = g
  BY DEF Chained
<1>8. \A r : r \in Free <=> r \in Recs /\ Key[r] = Blank /\ r \notin Held
  BY DEF Free
<1>9. \A r : r \in Free' <=> r \in Recs' /\ Key'[r] = Blank /\ r \notin Held'
  BY DEF Free
<1> QED BY <1>4, <1>5, <1>6, <1>7, <1>8, <1>9

\* Who holds which record after such a step.
LEMMA HeldStep ==
    ASSUME DbInv, NEW p \in Procs, OnlyMoves(p), NEW x,
           pc'[p] \in Holding => /\ db'[p].idxoff = x /\ x \in Recs'
                                 /\ Key'[x] = IF pc'[p] = "chain" THEN call'[p].key ELSE Blank,
           \A q \in Procs \ {p} : pc[q] \in Holding => db[q].idxoff # x,
           \A r \in Recs : r # x => r \in Recs' /\ Key'[r] = Key[r],
           \A r \in Recs' : Key'[r] = Blank => r <= PtrMax
    PROVE  HeldInv'
<1>0. HeldInv
  BY DEF DbInv
<1>1. \A q \in Procs \ {p} : pc'[q] = pc[q] /\ db'[q] = db[q] /\ call'[q] = call[q]
  BY DEF OnlyMoves
<1>2. \A q, t \in Procs : pc'[q] \in Holding /\ pc'[t] \in Holding /\ db'[q].idxoff = db'[t].idxoff => q = t
  BY <1>0, <1>1 DEF HeldInv
<1>3. ASSUME NEW q \in Procs \ {p}, pc'[q] \in Holding
      PROVE  /\ db'[q].idxoff \in Recs'
             /\ Key'[db'[q].idxoff] = IF pc'[q] = "chain" THEN call'[q].key ELSE Blank
  <2>1. pc[q] \in Holding /\ db[q].idxoff # x /\ db[q].idxoff \in Recs
    BY <1>0, <1>1, <1>3 DEF HeldInv
  <2>2. Key[db[q].idxoff] = IF pc[q] = "chain" THEN call[q].key ELSE Blank
    BY <1>0, <2>1 DEF HeldInv
  <2> QED BY <1>1, <2>1, <2>2
<1> QED BY <1>2, <1>3 DEF HeldInv

\* db_dodelete, the index record: it is nobody's but the process's own, and the rest
\* of the chain is as it will be when the pointer to the record has been written.
LEMMA BlankIndexStep ==
    ASSUME DbInv, NEW p \in Procs, BlankIndex(p)
    PROVE  StoreInv'
<1>0. /\ TypeOK /\ CallInv /\ OnlyMoves(p) /\ InCall(p) /\ Knows(p) /\ Expects(p) /\ LocksInv /\ DataInv /\ HeldInv
      /\ ListInv /\ KnowsInv
  BY StepMoves DEF DbInv, Step, CallInv, KnowsInv
<1>1. /\ pc[p] = "d_idx" /\ pc'[p] = "d_head" /\ UNCHANGED <<head, dat, rd, wr, call, must, got>>
      /\ idx' = [idx EXCEPT ![db[p].idxoff - NHash].key = Blank, ![db[p].idxoff - NHash].ptr = db[p].freeptr]
      /\ db' = [db EXCEPT ![p].ptrval = db[p].freeptr]
      /\ map' = IF call[p].op = "delete" THEN [map EXCEPT ![call[p].key] = None] ELSE map
  BY <1>0 DEF BlankIndex, Go, Quiet, Effect, locks, seen, TypeOK
<1>2. PICK h : h = ChainOff(p)
  OBVIOUS
<1>3. PICK x : x = db[p].idxoff
  OBVIOUS
<1>4. PICK o : o = db[p].ptroff
  OBVIOUS
<1>5. PICK k0 : k0 = call[p].key
  OBVIOUS
<1>6. PICK v : v = db[p].freeptr
  OBVIOUS
<1>7. PICK s : s = db[p].saveptr
  OBVIOUS
<1>8. /\ h \in 1 .. NHash /\ k0 \in Keys /\ Hash[k0] = h /\ call[p].op \in {"delete", "store"} /\ Inside(p)
      /\ pc[p] \in Freeing /\ pc[p] \notin Holding /\ pc'[p] \in Holding /\ ~Unchaining(p)
  <2>1. call[p] # None /\ call[p].op # "fetch"
    BY <1>0, <1>1 DEF InCall, DeleteSteps
  <2> QED BY <1>0, <1>1, <1>2, <1>5, <2>1, CallFacts DEF ChainOff, Inside, Freeing, Holding, Unchaining
<1>9. /\ x \in Chained[h] /\ Key[x] = k0 /\ o \in {h} \cup Chained[h] /\ Ptr[o] = x /\ o # x
      /\ s = Ptr[x] /\ v = Ptr[FREE_OFF]
  BY <1>0, <1>1, <1>2, <1>3, <1>4, <1>5, <1>6, <1>7 DEF Knows, FoundSteps, AtRecord
<1>10. x \in Recs /\ x \notin Held /\ x \notin Free /\ x <= PtrMax /\ x \notin 0 .. NHash /\ x # 0
  <2>1. x \in Recs /\ x \notin Held /\ x \notin Free /\ x <= PtrMax
    BY <1>0, <1>8, <1>9, ListFacts
  <2>2. x \notin 0 .. NHash /\ 0 \in 0 .. NHash
    BY <1>0, <2>1, IndexFacts DEF FREE_OFF
  <2> QED BY <2>1, <2>2
<1>11. v \in Nat /\ idx' = [idx EXCEPT ![x - NHash].key = Blank, ![x - NHash].ptr = v]
  BY <1>0, <1>1, <1>3, <1>6 DEF TypeOK, DB
<1>12. /\ Recs' = Recs /\ Key' = [Key EXCEPT ![x] = Blank] /\ Dat' = Dat /\ Ptr' = [Ptr EXCEPT ![x] = v]
       /\ idx' \in Seq(IndexRecord)
  <2>1. Blank \in Keys \cup {Blank} /\ head' = head
    BY <1>1
  <2> QED BY <1>0, <1>10, <1>11, <2>1, WritesRecord
<1>13. /\ Key'[x] = Blank /\ \A r \in Recs : r # x => Key'[r] = Key[r]
       /\ Ptr'[x] = v /\ \A y \in 0 .. NHash \cup Recs : y # x => Ptr'[y] = Ptr[y]
  <2>1. Key \in [Recs -> Keys \cup {Blank}] /\ Ptr \in [0 .. NHash \cup Recs -> Nat]
    BY <1>0, IndexFacts
  <2> QED BY <1>10, <1>12, <2>1
<1>14. /\ db'[p].idxoff = x /\ db'[p].ptroff = o /\ db'[p].saveptr = s
       /\ db' \in [Procs \cup Scanners -> DB]
  <2>1. db[p] \in DB /\ db \in [Procs \cup Scanners -> DB]
    BY <1>0 DEF TypeOK
  <2> QED BY <1>1, <1>3, <1>4, <1>6, <1>7, <1>11, <2>1 DEF DB
<1>15. /\ map' \in [Keys -> Vals \cup {None}] /\ \A k \in Keys : k # k0 => map'[k] = map[k]
       /\ call[p].op = "delete" => map'[k0] = None
       /\ call[p].op = "store" => map' = map
  BY <1>0, <1>1, <1>5, <1>8 DEF TypeOK
<1>16. TypeOK'
  BY <1>0, <1>1, <1>12, <1>14, <1>15 DEF TypeOK, OnlyMoves
<1>17. \A q \in Procs \ {p} : pc[q] \in Holding => db[q].idxoff # x /\ db[q].idxoff \in Recs
  BY <1>0, <1>10 DEF Held, HeldInv
<1>18. /\ \A r : r # x => /\ r \in Held' <=> r \in Held
                          /\ \A g \in 1 .. NHash : r \in Chained'[g] <=> r \in Chained[g]
                          /\ r \in Free' <=> r \in Free
       /\ x \in Held' /\ x \notin Free' /\ \A g \in 1 .. NHash : x \notin Chained'[g]
  <2>1. (pc[p] \in Holding => db[p].idxoff = x) /\ (pc'[p] \in Holding => db'[p].idxoff = x)
    BY <1>8, <1>14
  <2>2. \A q \in Procs \ {p} : pc[q] \in Holding => db[q].idxoff # x
    BY <1>17
  <2>3. \A r : r # x => (r \in Recs' <=> r \in Recs)
    BY <1>12
  <2>4. \A r \in Recs : r # x => Key'[r] = Key[r]
    BY <1>13
  <2>5. /\ \A r : r # x => /\ r \in Held' <=> r \in Held
                           /\ \A g \in 1 .. NHash : r \in Chained'[g] <=> r \in Chained[g]
                           /\ r \in Free' <=> r \in Free
        /\ x \in Held' <=> pc'[p] \in Holding
        /\ \A g \in 1 .. NHash : x \in Chained'[g] <=> /\ x \in Recs' /\ x <= PtrMax /\ Key'[x] # Blank
                                                        /\ pc'[p] \notin Holding /\ Hash[Key'[x]] = g
        /\ x \in Free' <=> x \in Recs' /\ Key'[x] = Blank /\ pc'[p] \notin Holding
    BY <1>0, <2>1, <2>2, <2>3, <2>4, OneRecord
  <2> QED BY <1>8, <2>5
<1>19. Free' = Free /\ Chained'[h] = Chained[h] \ {x}
  <2>1. \A r : r \in Free' <=> r \in Free
    BY <1>10, <1>18
  <2>2. \A r : r \in Chained'[h] <=> r \in Chained[h] \ {x}
    BY <1>8, <1>18
  <2>3. Free' = Free
    BY <2>1
  <2>4. Chained'[h] = Chained[h] \ {x}
    BY <2>2
  <2> QED BY <2>3, <2>4
<1>20. HeldInv'
  <2>1. \A r \in Recs' : Key'[r] = Blank => r <= PtrMax
    BY <1>0, <1>10, <1>12, <1>13 DEF HeldInv
  <2>2. pc'[p] \in Holding => /\ db'[p].idxoff = x /\ x \in Recs'
                              /\ Key'[x] = IF pc'[p] = "chain" THEN call'[p].key ELSE Blank
    BY <1>1, <1>10, <1>12, <1>13, <1>14
  <2> QED BY <1>0, <1>12, <1>13, <1>17, <2>1, <2>2, HeldStep
<1>21. DataInv'
  <2>1. \A q \in Procs : pc'[q] = "a_idx" => pc[q] = "a_idx" /\ db'[q] = db[q]
    BY <1>0, <1>1 DEF OnlyMoves
  <2> QED BY <1>0, <1>1, <1>12, <2>1 DEF DataInv
<1>22. ASSUME NEW g \in 1 .. NHash \ {h} PROVE SameChain(g)
  <2>1. g \in 1 .. NHash /\ Chained[g] \subseteq Recs /\ x \notin Chained[g] /\ g \in 0 .. NHash
    BY <1>0, <1>8, <1>9, <1>22, ListFacts
  <2>2. Chained'[g] = Chained[g]
    <3>1. \A r : r \in Chained'[g] <=> r \in Chained[g]
      BY <1>18, <2>1
    <3> QED BY <3>1
  <2>3. g # x
    BY <1>10, <2>1
  <2> QED BY <1>12, <1>13, <2>1, <2>2, <2>3 DEF SameChain, SameRec
<1>23. \A q \in Procs \ {p} : pc[q] \in Holding => SameRec(db[q].idxoff)
  BY <1>12, <1>13, <1>17 DEF SameRec
<1>24. IsChain(FREE_OFF, Free', Ptr')
  <2>1. Free \subseteq Recs /\ FREE_OFF \in 0 .. NHash
    BY <1>0, ListFacts, IndexFacts
  <2>2. \A y \in {FREE_OFF} \cup Free : Ptr'[y] = Ptr[y]
    BY <1>10, <1>13, <2>1
  <2>3. IsChain(FREE_OFF, Free, Ptr)
    BY <1>0 DEF ListInv
  <2> QED BY <1>19, <2>2, <2>3, SameLinks
<1>25. \A r \in Chained'[h] : /\ Key'[r] # k0 /\ r \in Chained[h] /\ r # x /\ r \in Recs
                              /\ Key'[r] = Key[r] /\ Dat'[r] = Dat[r]
  <2>1. \A r \in Chained[h] : r \in Recs /\ (Key[r] = k0 => r = x)
    BY <1>0, <1>8, <1>9, ListFacts DEF ListInv
  <2> QED BY <1>12, <1>13, <1>19, <2>1
<1>26. ASSUME NEW r, r \in Chained[h], Key[r] # k0
       PROVE  r \in Chained'[h] /\ Key'[r] = Key[r] /\ Dat'[r] = Dat[r]
  <2>1. r # x /\ r \in Recs
    BY <1>0, <1>8, <1>9, <1>26, ListFacts
  <2> QED BY <1>12, <1>13, <1>19, <1>26, <2>1
<1>27. HalfOut(p)'
  <2>1. PICK C : C = Chained[h]
    OBVIOUS
  <2>2. PICK f : f = Ptr
    OBVIOUS
  <2>3. PICK g : g = [y \in {h} \cup (C \ {x}) |-> IF y = o THEN s ELSE Ptr'[y]]
    OBVIOUS
  <2>4. IsChain(h, C, f)
    BY <1>2, <1>8, <2>1, <2>2, MyChain
  <2>5. h \notin C /\ 0 \notin C /\ h # 0 /\ {h} \cup C \subseteq 0 .. NHash \cup Recs
    BY <1>0, <1>8, <2>1, ListFacts
  <2>6. x \in C /\ o \in {h} \cup C /\ o # x /\ f[o] = x /\ g[o] = f[x]
    BY <1>9, <2>1, <2>2, <2>3
  <2>7. \A y \in {h} \cup (C \ {x}) : y # o => g[y] = f[y]
    BY <1>10, <1>13, <2>2, <2>3, <2>5, <2>6
  <2>8. IsChain(h, C \ {x}, g)
    BY <2>4, <2>5, <2>6, <2>7, TakeOut
  <2>9. Chained'[h] = C \ {x} /\ o \in {h} \cup Chained'[h]
    BY <1>19, <2>1, <2>6
  <2>10. h = Hash[call'[p].key]
    BY <1>1, <1>2 DEF ChainOff
  <2>11. IsChain(h, Chained'[h], [y \in {h} \cup Chained'[h] |-> IF y = o THEN s ELSE Ptr'[y]])
    BY <2>3, <2>8, <2>9
  <2> QED BY <1>14, <2>9, <2>10, <2>11 DEF HalfOut, ChainOff
<1>28. Knows(p)'
  <2>1. Absent(p)'
    BY <1>1, <1>2, <1>5, <1>25 DEF Absent, ChainOff
  <2>2. Ptr'[x] = Ptr'[FREE_OFF]
    BY <1>0, <1>9, <1>10, <1>13, IndexFacts DEF FREE_OFF
  <2> QED BY <1>1, <1>14, <1>27, <2>1, <2>2 DEF Knows, FoundSteps, ChainptrSteps, InsertSteps, AppendSteps
<1>29. HasData(p)'
  BY <1>1 DEF HasData
<1>30. Expects(p)'
  BY <1>0, <1>1, <1>15 DEF Expects, FoundSteps, Unchaining, InsertSteps, AppendSteps, DeleteSteps
<1>31. ListInv' /\ KnowsInv' /\ MapInv' /\ ScanInv'
  <2>1. \A r \in Recs' : \A q \in Procs \ {p} : pc[q] = "a_idx" => Dat'[r] # db[q].datoff
    BY <1>0, <1>12 DEF KnowsInv, HasData
  <2>2. \A r : r \in Chained[h] /\ Key[r] # k0 => r \in Chained'[h] /\ Key'[r] = Key[r] /\ Dat'[r] = Dat[r]
    BY <1>26
  <2>3. \A r : r \in Chained'[h] /\ Key'[r] # k0 => r \in Chained[h] /\ Key'[r] = Key[r] /\ Dat'[r] = Dat[r]
    BY <1>25
  <2>4. /\ \A r, y \in Chained'[h] : Key'[r] = k0 /\ Key'[y] = k0 => r = y
        /\ \A r \in Chained'[h] : Key'[r] = k0 => dat[Dat'[r]] = map'[k0]
    BY <1>25
  <2>5. Unchaining(p)' /\ ChainOff(p)' = h
    BY <1>1, <1>2 DEF Unchaining, ChainOff
  <2>6. (\A q \in Procs : Unchaining(q)' => ChainOff(q)' # h) => IsChain(h, Chained'[h], Ptr')
    BY <2>5
  <2>7. \/ map'[k0] = None
        \/ Between(p)' /\ call'[p] = call[p]
        \/ \E r \in Chained'[h] : Key'[r] = k0
    BY <1>1, <1>8, <1>15, <2>5 DEF Between
  <2>8. call[p].op # "fetch" /\ call'[p] \in {call[p], None} /\ UNCHANGED <<dat, must, got>>
    BY <1>1, <1>8
  <2> QED BY <1>0, <1>2, <1>5, <1>8, <1>15, <1>22, <1>23, <1>24, <1>28, <1>29, <1>30, <2>1, <2>2, <2>3, <2>4,
             <2>6, <2>7, <2>8, IndexStep
<1> QED BY <1>16, <1>20, <1>21, <1>31 DEF StoreInv

\* A step that writes to the index file, but to no hash chain, while the key of its
\* call is on none.
LEMMA OffChainStep ==
    ASSUME DbInv, NEW p \in Procs, OnlyMoves(p), Inside(p), call[p].op # "fetch", NEW h, h = ChainOff(p),
           NEW k0, k0 = call[p].key,
           UNCHANGED <<dat, must, got>>, call'[p] \in {call[p], None},
           \A g \in 1 .. NHash : SameChain(g), Absent(p),
           Unchaining(p) => Unchaining(p)' /\ call'[p] = call[p],
           \A q \in Procs \ {p} : pc[q] \in Holding => SameRec(db[q].idxoff),
           \/ pc[p] \in Freeing
           \/ SameFree /\ \A r \in Recs : Key[r] # Blank => SameRec(r),
           \A r \in Recs' : \A q \in Procs \ {p} : pc[q] = "a_idx" => Dat'[r] # db[q].datoff,
           \A k \in Keys : k # k0 => map'[k] = map[k],
           \/ map'[k0] = None
           \/ Between(p)' /\ call'[p] = call[p],
           IsChain(FREE_OFF, Free', Ptr'),
           Knows(p)' /\ HasData(p)' /\ Expects(p)'
    PROVE  ListInv' /\ KnowsInv' /\ MapInv' /\ ScanInv'
<1>0. TypeOK /\ CallInv /\ ListInv
  BY DEF DbInv
<1>1. h \in 1 .. NHash
  BY <1>0, CallFacts DEF CallInv, InCall, Inside
<1>2. /\ Chained'[h] = Chained[h] /\ 0 \notin {h} \cup Chained[h]
      /\ \A y \in {h} \cup Chained[h] : Ptr'[y] = Ptr[y]
      /\ \A r \in Chained[h] : Key'[r] = Key[r] /\ Dat'[r] = Dat[r] /\ Key[r] # k0
  BY <1>0, <1>1, ListFacts DEF SameChain, SameRec, Absent
<1>3. (\A q \in Procs : Unchaining(q)' => ChainOff(q)' # h) => IsChain(h, Chained'[h], Ptr')
  <2>1. CASE Unchaining(p)
    BY <2>1 DEF ChainOff
  <2>2. CASE ~Unchaining(p)
    <3>1. IsChain(h, Chained[h], Ptr)
      BY <2>2, MyChain
    <3>2. IsChain(h, Chained[h], Ptr')
      BY <1>2, <3>1, SameLinks
    <3> QED BY <1>2, <3>2
  <2> QED BY <2>1, <2>2
<1>4. \A g \in 1 .. NHash \ {h} : SameChain(g)
  OBVIOUS
<1>5. /\ \A r : r \in Chained[h] /\ Key[r] # k0 => r \in Chained'[h] /\ Key'[r] = Key[r] /\ Dat'[r] = Dat[r]
      /\ \A r : r \in Chained'[h] /\ Key'[r] # k0 => r \in Chained[h] /\ Key'[r] = Key[r] /\ Dat'[r] = Dat[r]
      /\ \A r, o \in Chained'[h] : Key'[r] = k0 /\ Key'[o] = k0 => r = o
      /\ \A r \in Chained'[h] : Key'[r] = k0 => dat[Dat'[r]] = map'[k0]
  BY <1>2
<1>6. \/ map'[k0] = None
      \/ Between(p)' /\ call'[p] = call[p]
      \/ \E r \in Chained'[h] : Key'[r] = k0
  OBVIOUS
<1> QED BY <1>3, <1>4, <1>5, <1>6, IndexStep

\* db_dodelete, the head of the free list: the record is free.
LEMMA SetFreeStep ==
    ASSUME DbInv, NEW p \in Procs, SetFree(p)
    PROVE  StoreInv'
<1>0. /\ TypeOK /\ CallInv /\ OnlyMoves(p) /\ InCall(p) /\ Knows(p) /\ Expects(p) /\ LocksInv /\ DataInv /\ HeldInv
      /\ ListInv /\ KnowsInv
  BY StepMoves DEF DbInv, Step, CallInv, KnowsInv
<1>1. /\ pc[p] = "d_head" /\ pc'[p] = "d_chain" /\ UNCHANGED <<dat, rd, wr, db, map, call, must, got>>
      /\ db_writeptr(FREE_OFF, db[p].idxoff)
  BY <1>0 DEF SetFree, Go, Quiet, locks, seen, TypeOK
<1>2. PICK h : h = ChainOff(p)
  OBVIOUS
<1>3. PICK x : x = db[p].idxoff
  OBVIOUS
<1>4. PICK k0 : k0 = call[p].key
  OBVIOUS
<1>5. /\ h \in 1 .. NHash /\ k0 \in Keys /\ call[p].op \in {"delete", "store"} /\ Inside(p)
      /\ pc[p] \in Freeing /\ pc[p] \in Holding /\ pc'[p] \notin Holding /\ Unchaining(p) /\ Unchaining(p)'
  <2>1. call[p] # None /\ call[p].op # "fetch"
    BY <1>0, <1>1 DEF InCall, DeleteSteps
  <2> QED BY <1>0, <1>1, <1>2, <1>4, <2>1, CallFacts DEF ChainOff, Inside, Freeing, Holding, Unchaining
<1>6. x \in Recs /\ Key[x] = Blank /\ x \in Held /\ x \notin Free /\ Ptr[x] = Ptr[FREE_OFF]
  <2>1. x \in Recs /\ Key[x] = Blank /\ x \in Held
    BY <1>0, <1>1, <1>3, <1>5 DEF HeldInv, Held
  <2> QED BY <1>0, <1>1, <1>3, <2>1, ListFacts DEF Knows
<1>7. /\ x \in Nat /\ x \notin 0 .. NHash /\ x # 0 /\ FREE_OFF \in 0 .. NHash /\ FREE_OFF = 0
      /\ Ptr \in [0 .. NHash \cup Recs -> Nat] /\ db_writeptr(FREE_OFF, x)
  <2>1. Recs \subseteq Nat \ (0 .. NHash) /\ FREE_OFF \in 0 .. NHash /\ Ptr \in [0 .. NHash \cup Recs -> Nat]
    BY <1>0, IndexFacts
  <2> QED BY <1>1, <1>3, <1>6, <2>1 DEF FREE_OFF
<1>8. /\ Recs' = Recs /\ Key' = Key /\ Dat' = Dat /\ Ptr' = [Ptr EXCEPT ![FREE_OFF] = x]
      /\ head' \in [0 .. NHash -> Nat] /\ idx' \in Seq(IndexRecord)
  <2>1. FREE_OFF \in 0 .. NHash \cup Recs
    BY <1>7
  <2> QED BY <1>0, <1>7, <2>1, WritesPtr
<1>9. Ptr'[FREE_OFF] = x /\ \A y \in 0 .. NHash \cup Recs : y # FREE_OFF => Ptr'[y] = Ptr[y]
  BY <1>7, <1>8
<1>10. TypeOK'
  BY <1>0, <1>1, <1>8 DEF TypeOK, OnlyMoves
<1>11. \A q \in Procs \ {p} : pc[q] \in Holding => db[q].idxoff # x /\ db[q].idxoff \in Recs
  BY <1>0, <1>3, <1>5 DEF HeldInv
<1>12. /\ \A r : r # x => /\ r \in Held' <=> r \in Held
                          /\ \A g \in 1 .. NHash : r \in Chained'[g] <=> r \in Chained[g]
                          /\ r \in Free' <=> r \in Free
       /\ x \in Free' /\ \A g \in 1 .. NHash : x \notin Chained'[g]
  <2>1. (pc[p] \in Holding => db[p].idxoff = x) /\ (pc'[p] \in Holding => db'[p].idxoff = x)
    BY <1>3, <1>5
  <2>2. \A q \in Procs \ {p} : pc[q] \in Holding => db[q].idxoff # x
    BY <1>11
  <2>3. (\A r : r # x => (r \in Recs' <=> r \in Recs)) /\ \A r \in Recs : r # x => Key'[r] = Key[r]
    BY <1>8
  <2>4. x \in Recs' /\ Key'[x] = Blank
    BY <1>6, <1>8
  <2> QED BY <1>0, <1>5, <2>1, <2>2, <2>3, <2>4, OneRecord
<1>13. Free' = Free \cup {x}
  BY <1>12
<1>14. ASSUME NEW g \in 1 .. NHash PROVE SameChain(g)
  <2>1. g \in 1 .. NHash /\ Chained[g] \subseteq Recs /\ x \notin Chained[g] /\ g \in 0 .. NHash /\ 0 \notin {g} \cup Chained[g]
    BY <1>0, <1>6, <1>14, ListFacts
  <2>2. Chained'[g] = Chained[g]
    <3>1. \A r : r \in Chained'[g] <=> r \in Chained[g]
      BY <1>12, <2>1
    <3> QED BY <3>1
  <2> QED BY <1>7, <1>8, <1>9, <2>1, <2>2 DEF SameChain, SameRec
<1>15. HeldInv'
  <2>1. \A r \in Recs' : Key'[r] = Blank => r <= PtrMax
    BY <1>0, <1>8 DEF HeldInv
  <2>2. \A q \in Procs \ {p} : pc[q] \in Holding => db[q].idxoff # x
    BY <1>11
  <2>3. \A r \in Recs : r # x => r \in Recs' /\ Key'[r] = Key[r]
    BY <1>8
  <2> QED BY <1>0, <1>5, <2>1, <2>2, <2>3, HeldStep
<1>16. DataInv'
  <2>1. \A q \in Procs : pc'[q] = "a_idx" => pc[q] = "a_idx" /\ db'[q] = db[q]
    BY <1>0, <1>1 DEF OnlyMoves
  <2> QED BY <1>0, <1>1, <1>8, <2>1 DEF DataInv
<1>17. \A q \in Procs \ {p} : pc[q] \in Holding => SameRec(db[q].idxoff)
  <2>1. \A r \in Recs : r # FREE_OFF
    BY <1>0, IndexFacts
  <2> QED BY <1>8, <1>9, <1>11, <2>1 DEF SameRec
<1>18. IsChain(FREE_OFF, Free', Ptr')
  <2>1. PICK C : C = Free
    OBVIOUS
  <2>2. PICK f : f = Ptr
    OBVIOUS
  <2>3. PICK g : g = Ptr'
    OBVIOUS
  <2>4. C \subseteq Recs /\ 0 \notin C /\ FREE_OFF \notin C /\ x \notin C /\ x # FREE_OFF /\ x # 0
    BY <1>0, <1>6, <1>7, <2>1, ListFacts
  <2>5. IsChain(FREE_OFF, C, f)
    BY <1>0, <2>1, <2>2 DEF ListInv
  <2>6. g[FREE_OFF] = x /\ g[x] = f[FREE_OFF]
    BY <1>6, <1>7, <1>9, <2>2, <2>3
  <2>7. \A y \in C : g[y] = f[y]
    BY <1>9, <2>2, <2>3, <2>4
  <2>8. IsChain(FREE_OFF, C \cup {x}, g)
    BY <2>4, <2>5, <2>6, <2>7, PutInFront
  <2> QED BY <1>13, <2>1, <2>3, <2>8
<1>19. Absent(p)
  BY <1>0, <1>1 DEF Knows, AbsentSteps
<1>20. SameChain(h) /\ ChainOff(p)' = h /\ 0 \notin {h} \cup Chained[h]
  BY <1>0, <1>1, <1>2, <1>5, <1>14, ListFacts DEF ChainOff
<1>21. HalfOut(p)'
  <2>1. HalfOut(p)
    BY <1>0, <1>5 DEF Knows
  <2>2. PICK f : f = [y \in {h} \cup Chained[h] |-> IF y = db[p].ptroff THEN db[p].saveptr ELSE Ptr[y]]
    OBVIOUS
  <2>3. IsChain(h, Chained[h], f) /\ db[p].ptroff \in {h} \cup Chained[h]
    BY <1>2, <2>1, <2>2 DEF HalfOut
  <2>4. f = [y \in {h} \cup Chained'[h] |-> IF y = db'[p].ptroff THEN db'[p].saveptr ELSE Ptr'[y]]
    BY <1>1, <1>20, <2>2 DEF SameChain, SameRec
  <2> QED BY <1>1, <1>20, <2>3, <2>4 DEF HalfOut, SameChain
<1>22. Knows(p)'
  <2>1. Absent(p)'
    BY <1>1, <1>2, <1>19, <1>20 DEF Absent, SameChain, SameRec
  <2> QED BY <1>1, <1>21, <2>1 DEF Knows, FoundSteps, ChainptrSteps, InsertSteps, AppendSteps
<1>23. HasData(p)'
  BY <1>1 DEF HasData
<1>24. Expects(p)'
  BY <1>0, <1>1 DEF Expects, FoundSteps, Unchaining, InsertSteps, AppendSteps, DeleteSteps
<1>25. ListInv' /\ KnowsInv' /\ MapInv' /\ ScanInv'
  <2>1. \A r \in Recs' : \A q \in Procs \ {p} : pc[q] = "a_idx" => Dat'[r] # db[q].datoff
    BY <1>0, <1>8 DEF KnowsInv, HasData
  <2>2. call[p].op = "delete" => map[k0] = None
    BY <1>1, <1>4, <1>5, <1>19, NotThere DEF Between, AppendSteps
  <2>3. \/ map'[k0] = None
        \/ Between(p)' /\ call'[p] = call[p]
    BY <1>1, <1>5, <2>2 DEF Between
  <2>4. call[p].op # "fetch" /\ call'[p] = call[p] /\ UNCHANGED <<dat, must, got>> /\ map' = map
    BY <1>1, <1>5
  <2> QED BY <1>0, <1>2, <1>4, <1>5, <1>14, <1>17, <1>18, <1>19, <1>22, <1>23, <1>24, <2>1, <2>3, <2>4,
             OffChainStep
<1> QED BY <1>10, <1>15, <1>16, <1>25 DEF StoreInv

\* db_dodelete, the pointer to the record: the chain is whole again.
LEMMA UnchainStep ==
    ASSUME DbInv, NEW p \in Procs, Unchain(p)
    PROVE  StoreInv'
<1>0. /\ TypeOK /\ CallInv /\ OnlyMoves(p) /\ InCall(p) /\ Knows(p) /\ Expects(p) /\ LocksInv /\ DataInv /\ HeldInv
      /\ ListInv /\ KnowsInv
  BY StepMoves DEF DbInv, Step, CallInv, KnowsInv
<1>1. /\ pc[p] = "d_chain" /\ pc'[p] = IF call[p].op = "delete" THEN "return" ELSE "s_reread"
      /\ UNCHANGED <<dat, db, map, call, must, got>> /\ Unlock(p, FREE_OFF)
      /\ db_writeptr(db[p].ptroff, db[p].saveptr)
  BY <1>0 DEF Unchain, Go, Quiet, seen, TypeOK
<1>2. PICK h : h = ChainOff(p)
  OBVIOUS
<1>3. PICK o : o = db[p].ptroff
  OBVIOUS
<1>4. PICK k0 : k0 = call[p].key
  OBVIOUS
<1>5. PICK s : s = db[p].saveptr
  OBVIOUS
<1>6. /\ h \in 1 .. NHash /\ k0 \in Keys /\ call[p].op \in {"delete", "store"} /\ Inside(p)
      /\ pc[p] \in Freeing /\ pc[p] \notin Holding /\ pc'[p] \notin Holding /\ Unchaining(p) /\ ~Unchaining(p)'
  <2>1. call[p] # None /\ call[p].op # "fetch"
    BY <1>0, <1>1 DEF InCall, DeleteSteps
  <2> QED BY <1>0, <1>1, <1>2, <1>4, <2>1, CallFacts DEF ChainOff, Inside, Freeing, Holding, Unchaining
<1>7. PICK f : f = [y \in {h} \cup Chained[h] |-> IF y = o THEN s ELSE Ptr[y]]
  OBVIOUS
<1>8. o \in {h} \cup Chained[h] /\ IsChain(h, Chained[h], f)
  <2>1. HalfOut(p)
    BY <1>0, <1>6 DEF Knows
  <2> QED BY <1>2, <1>3, <1>5, <1>7, <2>1 DEF HalfOut
<1>9. /\ 0 \notin {h} \cup Chained[h] /\ {h} \cup Chained[h] \subseteq 0 .. NHash \cup Recs
      /\ o \in 0 .. NHash \cup Recs /\ s \in Nat /\ o \notin Held /\ o \notin Free /\ o # FREE_OFF
  <2>1. /\ 0 \notin {h} \cup Chained[h] /\ {h} \cup Chained[h] \subseteq 0 .. NHash \cup Recs
        /\ Chained[h] \cap Held = {} /\ Chained[h] \cap Free = {}
    BY <1>0, <1>6, ListFacts
  <2>2. h \notin Recs /\ Held \subseteq Recs /\ Free \subseteq Recs
    <3>1. h \in 0 .. NHash /\ Recs \subseteq Nat \ (0 .. NHash)
      BY <1>0, <1>6, ListFacts, IndexFacts
    <3> QED BY <1>0, <3>1, ListFacts DEF HeldInv, Held
  <2>3. s \in Nat
    BY <1>0, <1>5 DEF TypeOK, DB
  <2> QED BY <1>8, <2>1, <2>2, <2>3 DEF FREE_OFF
<1>10. /\ Recs' = Recs /\ Key' = Key /\ Dat' = Dat /\ Ptr' = [Ptr EXCEPT ![o] = s]
       /\ head' \in [0 .. NHash -> Nat] /\ idx' \in Seq(IndexRecord)
  BY <1>0, <1>1, <1>3, <1>5, <1>9, WritesPtr
<1>11. Ptr'[o] = s /\ \A y \in 0 .. NHash \cup Recs : y # o => Ptr'[y] = Ptr[y]
  <2>1. Ptr \in [0 .. NHash \cup Recs -> Nat]
    BY <1>0, IndexFacts
  <2> QED BY <1>9, <1>10, <2>1
<1>12. Held' = Held /\ Chained' = Chained /\ Free' = Free
  BY <1>0, <1>6, <1>10, SameLists
<1>13. TypeOK'
  <2>1. /\ rd' \in [0 .. NHash -> SUBSET (Procs \cup Scanners)]
        /\ wr' \in [0 .. NHash -> SUBSET Procs]
    BY <1>0, <1>1, LocksTyped, IndexFacts
  <2> QED BY <1>0, <1>1, <1>10, <2>1 DEF TypeOK, OnlyMoves
<1>14. ASSUME NEW g \in 1 .. NHash \ {h} PROVE SameChain(g)
  <2>1. /\ g \in 1 .. NHash /\ {g} \cup Chained[g] \subseteq 0 .. NHash \cup Recs /\ Chained[g] \subseteq Recs
        /\ Chained[h] \cap Chained[g] = {} /\ g # h
    BY <1>0, <1>6, <1>14, ListFacts
  <2>2. h \notin Recs /\ g \notin Recs /\ Chained[h] \subseteq Recs
    <3>1. h \in 0 .. NHash /\ g \in 0 .. NHash /\ Chained[h] \subseteq Recs
      BY <1>0, <1>6, <2>1, ListFacts
    <3>2. Recs \subseteq Nat \ (0 .. NHash)
      BY <1>0, IndexFacts
    <3> QED BY <3>1, <3>2
  <2>3. \A y \in {g} \cup Chained[g] : y # o
    BY <1>8, <2>1, <2>2
  <2> QED BY <1>10, <1>11, <1>12, <2>1, <2>3 DEF SameChain, SameRec
<1>15. HeldInv'
  <2>1. \A q \in Procs : pc'[q] \in Holding => pc[q] = pc'[q] /\ db[q] = db'[q] /\ call[q] = call'[q] /\ pc[q] \in Holding
    BY <1>0, <1>6 DEF OnlyMoves
  <2> QED BY <1>0, <1>10, <2>1 DEF HeldInv
<1>16. DataInv'
  <2>1. \A q \in Procs : pc'[q] = "a_idx" => pc[q] = "a_idx" /\ db'[q] = db[q]
    BY <1>0, <1>1 DEF OnlyMoves
  <2> QED BY <1>0, <1>1, <1>10, <2>1 DEF DataInv
<1>17. \A q \in Procs \ {p} : pc[q] \in Holding => SameRec(db[q].idxoff)
  BY <1>0, <1>9, <1>10, <1>11 DEF SameRec, HeldInv, Held
<1>18. IsChain(FREE_OFF, Free', Ptr')
  <2>1. Free \subseteq Recs /\ FREE_OFF \in 0 .. NHash
    BY <1>0, ListFacts, IndexFacts
  <2>2. \A y \in {FREE_OFF} \cup Free : Ptr'[y] = Ptr[y]
    BY <1>9, <1>11, <2>1
  <2>3. IsChain(FREE_OFF, Free, Ptr)
    BY <1>0 DEF ListInv
  <2> QED BY <1>12, <2>2, <2>3, SameLinks
<1>19. Absent(p) /\ ChainOff(p)' = h
  BY <1>0, <1>1, <1>2 DEF Knows, AbsentSteps, ChainOff
<1>20. \A r \in Chained[h] : Key[r] # k0
  BY <1>2, <1>4, <1>19 DEF Absent
<1>21. IsChain(h, Chained'[h], Ptr')
  <2>1. \A y \in {h} \cup Chained[h] : Ptr'[y] = f[y]
    BY <1>7, <1>9, <1>11
  <2>2. IsChain(h, Chained[h], Ptr')
    BY <1>8, <1>9, <2>1, SameLinks
  <2> QED BY <1>12, <2>2
<1>22. Knows(p)'
  <2>1. Absent(p)'
    BY <1>1, <1>10, <1>12, <1>19 DEF Absent, ChainOff
  <2> QED BY <1>1, <1>6, <2>1 DEF Knows, FoundSteps, ChainptrSteps, InsertSteps, AppendSteps
<1>23. HasData(p)'
  BY <1>1 DEF HasData
<1>24. Expects(p)'
  BY <1>0, <1>1, <1>6 DEF Expects, FoundSteps, Unchaining, InsertSteps, AppendSteps, DeleteSteps
<1>25. ListInv' /\ KnowsInv' /\ MapInv' /\ ScanInv'
  <2>1. \A r \in Recs' : \A q \in Procs \ {p} : pc[q] = "a_idx" => Dat'[r] # db[q].datoff
    BY <1>0, <1>10 DEF KnowsInv, HasData
  <2>2. call[p].op = "delete" => map[k0] = None
    BY <1>1, <1>4, <1>6, <1>19, NotThere DEF Between, AppendSteps
  <2>3. \/ map'[k0] = None
        \/ Between(p)' /\ call'[p] = call[p]
        \/ \E r \in Chained'[h] : Key'[r] = k0
    BY <1>1, <1>6, <2>2 DEF Between
  <2>4. /\ call[p].op # "fetch" /\ call'[p] \in {call[p], None} /\ UNCHANGED <<dat, must, got>>
        /\ \A k \in Keys : k # k0 => map'[k] = map[k]
    BY <1>1, <1>6
  <2>5. /\ \A r : r \in Chained[h] /\ Key[r] # k0 => r \in Chained'[h] /\ Key'[r] = Key[r] /\ Dat'[r] = Dat[r]
        /\ \A r : r \in Chained'[h] /\ Key'[r] # k0 => r \in Chained[h] /\ Key'[r] = Key[r] /\ Dat'[r] = Dat[r]
        /\ \A r, y \in Chained'[h] : Key'[r] = k0 /\ Key'[y] = k0 => r = y
        /\ \A r \in Chained'[h] : Key'[r] = k0 => dat[Dat'[r]] = map'[k0]
    BY <1>10, <1>12, <1>20
  <2>6. (\A q \in Procs : Unchaining(q)' => ChainOff(q)' # h) => IsChain(h, Chained'[h], Ptr')
    BY <1>21
  <2> QED BY <1>0, <1>2, <1>4, <1>6, <1>14, <1>17, <1>18, <1>22, <1>23, <1>24, <2>1, <2>3, <2>4, <2>5, <2>6,
             IndexStep
<1> QED BY <1>13, <1>15, <1>16, <1>25 DEF StoreInv

-----------------------------------------------------------------------------
\* db_findfree takes a record from the free list.
LEMMA TakeFreeStep ==
    ASSUME DbInv, NEW p \in Procs, TakeFree(p)
    PROVE  StoreInv'
<1>0. /\ TypeOK /\ CallInv /\ OnlyMoves(p) /\ InCall(p) /\ Knows(p) /\ Expects(p) /\ LocksInv /\ DataInv /\ HeldInv
      /\ ListInv /\ KnowsInv
  BY StepMoves DEF DbInv, Step, CallInv, KnowsInv
<1>1. /\ pc[p] = "f_take" /\ pc'[p] = "r_dat" /\ UNCHANGED <<dat, db, map, call, must, got>>
      /\ db_writeptr(db[p].saveoff, db[p].ptrval) /\ Unlock(p, FREE_OFF)
  BY <1>0 DEF TakeFree, Go, Quiet, seen, TypeOK
<1>2. PICK h : h = ChainOff(p)
  OBVIOUS
<1>3. PICK x : x = db[p].idxoff
  OBVIOUS
<1>4. PICK k0 : k0 = call[p].key
  OBVIOUS
<1>5. PICK o : o = db[p].saveoff
  OBVIOUS
<1>6. PICK v : v = db[p].ptrval
  OBVIOUS
<1>7. /\ h \in 1 .. NHash /\ k0 \in Keys /\ call[p].op = "store" /\ Inside(p) /\ ~Unchaining(p)
      /\ pc[p] \in Freeing /\ pc[p] \notin Holding /\ pc'[p] \in Holding /\ ~Between(p)
  <2>1. call[p] # None /\ call[p].op = "store"
    BY <1>0, <1>1 DEF InCall, InsertSteps
  <2> QED BY <1>0, <1>1, <1>2, <1>4, <2>1, CallFacts DEF ChainOff, Inside, Freeing, Holding, Unchaining, Between,
             AppendSteps
<1>8. /\ o \in {FREE_OFF} \cup Free /\ x \in Free /\ x = Ptr[o] /\ x # o /\ v = Ptr[x]
      /\ db[p].datoff = Dat[x] /\ Absent(p) /\ db[p].chainptr = Ptr[h]
  BY <1>0, <1>1, <1>2, <1>3, <1>5, <1>6 DEF Knows, AtFree, AbsentSteps, ChainptrSteps, InsertSteps
<1>9. /\ x \in Recs /\ Key[x] = Blank /\ x \notin Held /\ Free \subseteq Recs /\ 0 \notin Free /\ FREE_OFF = 0
      /\ FREE_OFF \in 0 .. NHash /\ o \in 0 .. NHash \cup Recs /\ Ptr \in [0 .. NHash \cup Recs -> Nat] /\ v \in Nat
  <2>1. /\ Free \subseteq Recs /\ Free \cap Held = {} /\ 0 \notin Free /\ \A r \in Free : Key[r] = Blank
    BY <1>0, ListFacts
  <2>2. FREE_OFF \in 0 .. NHash /\ Ptr \in [0 .. NHash \cup Recs -> Nat]
    BY <1>0, IndexFacts
  <2> QED BY <1>8, <2>1, <2>2 DEF FREE_OFF
<1>10. /\ Recs' = Recs /\ Key' = Key /\ Dat' = Dat /\ Ptr' = [Ptr EXCEPT ![o] = v]
       /\ head' \in [0 .. NHash -> Nat] /\ idx' \in Seq(IndexRecord)
  BY <1>0, <1>1, <1>5, <1>6, <1>9, WritesPtr
<1>11. Ptr'[o] = v /\ \A y \in 0 .. NHash \cup Recs : y # o => Ptr'[y] = Ptr[y]
  BY <1>9, <1>10
<1>12. TypeOK'
  <2>1. /\ rd' \in [0 .. NHash -> SUBSET (Procs \cup Scanners)]
        /\ wr' \in [0 .. NHash -> SUBSET Procs]
    BY <1>0, <1>1, LocksTyped, IndexFacts
  <2> QED BY <1>0, <1>1, <1>10, <2>1 DEF TypeOK, OnlyMoves
<1>13. \A q \in Procs \ {p} : pc[q] \in Holding => db[q].idxoff # x /\ db[q].idxoff \in Recs /\ db[q].idxoff \notin Free
  <2>1. Free \cap Held = {}
    BY <1>0, ListFacts
  <2> QED BY <1>0, <1>9, <2>1 DEF Held, HeldInv
<1>14. /\ \A r : r # x => /\ r \in Held' <=> r \in Held
                          /\ \A g \in 1 .. NHash : r \in Chained'[g] <=> r \in Chained[g]
                          /\ r \in Free' <=> r \in Free
       /\ x \notin Free' /\ \A g \in 1 .. NHash : x \notin Chained'[g]
  <2>1. (pc[p] \in Holding => db[p].idxoff = x) /\ (pc'[p] \in Holding => db'[p].idxoff = x)
    BY <1>1, <1>3
  <2>2. \A q \in Procs \ {p} : pc[q] \in Holding => db[q].idxoff # x
    BY <1>13
  <2>3. (\A r : r # x => (r \in Recs' <=> r \in Recs)) /\ \A r \in Recs : r # x => Key'[r] = Key[r]
    BY <1>10
  <2> QED BY <1>0, <1>7, <2>1, <2>2, <2>3, OneRecord
<1>15. Free' = Free \ {x}
  BY <1>8, <1>14
<1>16. ASSUME NEW g \in 1 .. NHash PROVE SameChain(g)
  <2>1. /\ g \in 1 .. NHash /\ Chained[g] \subseteq Recs /\ g \in 0 .. NHash /\ 0 \notin {g} \cup Chained[g]
        /\ Chained[g] \cap Free = {}
    BY <1>0, <1>16, ListFacts
  <2>2. Chained'[g] = Chained[g]
    <3>1. \A r : r \in Chained'[g] <=> r \in Chained[g]
      BY <1>8, <1>14, <2>1
    <3> QED BY <3>1
  <2>3. g \notin Recs
    BY <1>0, <2>1, IndexFacts
  <2>4. \A y \in {g} \cup Chained[g] : y # o
    BY <1>8, <1>9, <2>1, <2>3
  <2> QED BY <1>10, <1>11, <2>1, <2>2, <2>4 DEF SameChain, SameRec
<1>17. HeldInv'
  <2>1. \A r \in Recs' : Key'[r] = Blank => r <= PtrMax
    BY <1>0, <1>10 DEF HeldInv
  <2>2. \A q \in Procs \ {p} : pc[q] \in Holding => db[q].idxoff # x
    BY <1>13
  <2>3. \A r \in Recs : r # x => r \in Recs' /\ Key'[r] = Key[r]
    BY <1>10
  <2>4. pc'[p] \in Holding => /\ db'[p].idxoff = x /\ x \in Recs'
                              /\ Key'[x] = IF pc'[p] = "chain" THEN call'[p].key ELSE Blank
    BY <1>1, <1>3, <1>9, <1>10
  <2> QED BY <1>0, <2>1, <2>2, <2>3, <2>4, HeldStep
<1>18. DataInv'
  <2>1. \A q \in Procs : pc'[q] = "a_idx" => pc[q] = "a_idx" /\ db'[q] = db[q]
    BY <1>0, <1>1 DEF OnlyMoves
  <2> QED BY <1>0, <1>1, <1>10, <2>1 DEF DataInv
<1>19. \A q \in Procs \ {p} : pc[q] \in Holding => SameRec(db[q].idxoff)
  <2>1. \A r \in Recs : r # FREE_OFF
    BY <1>0, IndexFacts
  <2> QED BY <1>8, <1>10, <1>11, <1>13, <2>1 DEF SameRec
<1>20. IsChain(FREE_OFF, Free', Ptr')
  <2>1. PICK C : C = Free
    OBVIOUS
  <2>2. PICK f : f = Ptr
    OBVIOUS
  <2>3. PICK g : g = Ptr'
    OBVIOUS
  <2>4. C \subseteq Recs /\ 0 \notin C /\ FREE_OFF \notin C /\ x \in C /\ o \in {FREE_OFF} \cup C /\ o # x
    BY <1>8, <1>9, <2>1
  <2>5. IsChain(FREE_OFF, C, f)
    BY <1>0, <2>1, <2>2 DEF ListInv
  <2>6. f[o] = x /\ g[o] = f[x]
    BY <1>8, <1>11, <2>2, <2>3
  <2>7. \A y \in {FREE_OFF} \cup (C \ {x}) : y # o => g[y] = f[y]
    BY <1>9, <1>11, <2>2, <2>3, <2>4
  <2>8. IsChain(FREE_OFF, C \ {x}, g)
    BY <2>4, <2>5, <2>6, <2>7, TakeOut
  <2> QED BY <1>15, <2>1, <2>3, <2>8
<1>21. SameChain(h) /\ ChainOff(p)' = h
  BY <1>1, <1>2, <1>7, <1>16 DEF ChainOff
<1>22. Knows(p)'
  <2>1. Absent(p)'
    BY <1>1, <1>2, <1>8, <1>21 DEF Absent, SameChain, SameRec
  <2>2. db'[p].chainptr = Ptr'[h] /\ db'[p].datoff = Dat'[db'[p].idxoff]
    BY <1>1, <1>3, <1>8, <1>10, <1>21 DEF SameChain
  <2> QED BY <1>1, <1>21, <2>1, <2>2 DEF Knows, FoundSteps, Unchaining
<1>23. HasData(p)'
  BY <1>1 DEF HasData
<1>24. Expects(p)'
  BY <1>0, <1>1 DEF Expects, FoundSteps, Unchaining, InsertSteps, AppendSteps, DeleteSteps
<1>25. ListInv' /\ KnowsInv' /\ MapInv' /\ ScanInv'
  <2>1. \A r \in Recs' : \A q \in Procs \ {p} : pc[q] = "a_idx" => Dat'[r] # db[q].datoff
    BY <1>0, <1>10 DEF KnowsInv, HasData
  <2>2. map[k0] = None
    BY <1>4, <1>7, <1>8, NotThere
  <2>3. \/ map'[k0] = None
        \/ Between(p)' /\ call'[p] = call[p]
    BY <1>1, <2>2
  <2>4. call[p].op # "fetch" /\ call'[p] = call[p] /\ UNCHANGED <<dat, must, got>> /\ map' = map
    BY <1>1, <1>7
  <2> QED BY <1>0, <1>2, <1>4, <1>7, <1>8, <1>16, <1>19, <1>20, <1>22, <1>23, <1>24, <2>1, <2>3, <2>4,
             OffChainStep
<1> QED BY <1>12, <1>17, <1>18, <1>25 DEF StoreInv

\* db_store gives a record from the free list its key.
LEMMA ReuseIndexStep ==
    ASSUME DbInv, NEW p \in Procs, ReuseIndex(p)
    PROVE  StoreInv'
<1>0. /\ TypeOK /\ CallInv /\ OnlyMoves(p) /\ InCall(p) /\ Knows(p) /\ Expects(p) /\ LocksInv /\ DataInv /\ HeldInv
      /\ ListInv /\ KnowsInv /\ HasData(p)
  BY StepMoves DEF DbInv, Step, CallInv, KnowsInv
<1>1. /\ pc[p] = "r_idx" /\ pc'[p] = "chain" /\ UNCHANGED <<head, dat, rd, wr, db, call, must, got>>
      /\ idx' = [idx EXCEPT ![db[p].idxoff - NHash].key = call[p].key, ![db[p].idxoff - NHash].ptr = db[p].chainptr]
      /\ map' = [map EXCEPT ![call[p].key] = call[p].val]
  BY <1>0 DEF ReuseIndex, Go, Effect, locks, seen, TypeOK
<1>2. PICK h : h = ChainOff(p)
  OBVIOUS
<1>3. PICK x : x = db[p].idxoff
  OBVIOUS
<1>4. PICK k0 : k0 = call[p].key
  OBVIOUS
<1>5. PICK v : v = db[p].chainptr
  OBVIOUS
<1>6. /\ h \in 1 .. NHash /\ k0 \in Keys /\ k0 # Blank /\ call[p].op = "store" /\ Inside(p) /\ ~Unchaining(p)
      /\ pc[p] \in Holding /\ pc'[p] \in Holding /\ call[p].val \in Vals
  <2>1. call[p] # None /\ call[p].op = "store"
    BY <1>0, <1>1 DEF InCall, InsertSteps
  <2> QED BY <1>0, <1>1, <1>2, <1>4, <2>1, CallFacts, DbAssumption DEF ChainOff, Inside, Holding, Unchaining
<1>7. /\ x \in Recs /\ Key[x] = Blank /\ x \in Held /\ x \notin Free /\ Absent(p) /\ v = Ptr[h] /\ v \in Nat
      /\ dat[Dat[x]] = call[p].val
  <2>1. x \in Recs /\ Key[x] = Blank /\ x \in Held
    BY <1>0, <1>1, <1>3, <1>6 DEF HeldInv, Held
  <2>2. x \notin Free
    BY <1>0, <2>1, ListFacts
  <2>3. Absent(p) /\ v = Ptr[h] /\ dat[Dat[x]] = call[p].val
    BY <1>0, <1>1, <1>2, <1>3, <1>5 DEF Knows, HasData, AbsentSteps, ChainptrSteps, InsertSteps
  <2>4. v \in Nat
    BY <1>0, <1>5 DEF TypeOK, DB
  <2> QED BY <2>1, <2>2, <2>3, <2>4
<1>8. /\ Recs' = Recs /\ Key' = [Key EXCEPT ![x] = k0] /\ Dat' = Dat /\ Ptr' = [Ptr EXCEPT ![x] = v]
      /\ idx' \in Seq(IndexRecord)
  <2>1. idx' = [idx EXCEPT ![x - NHash].key = k0, ![x - NHash].ptr = v] /\ head' = head /\ k0 \in Keys \cup {Blank}
    BY <1>1, <1>3, <1>4, <1>5, <1>6
  <2> QED BY <1>0, <1>7, <2>1, WritesRecord
<1>9. /\ Key'[x] = k0 /\ \A r \in Recs : r # x => Key'[r] = Key[r]
      /\ Ptr'[x] = v /\ \A y \in 0 .. NHash \cup Recs : y # x => Ptr'[y] = Ptr[y]
  <2>1. Key \in [Recs -> Keys \cup {Blank}] /\ Ptr \in [0 .. NHash \cup Recs -> Nat]
    BY <1>0, IndexFacts
  <2> QED BY <1>7, <1>8, <2>1
<1>10. /\ map' \in [Keys -> Vals \cup {None}] /\ \A k \in Keys : k # k0 => map'[k] = map[k]
       /\ map'[k0] = call[p].val
  BY <1>0, <1>1, <1>4, <1>6 DEF TypeOK
<1>11. TypeOK'
  BY <1>0, <1>1, <1>8, <1>10 DEF TypeOK, OnlyMoves
<1>12. \A q \in Procs \ {p} : pc[q] \in Holding => db[q].idxoff # x /\ db[q].idxoff \in Recs
  BY <1>0, <1>3, <1>6 DEF HeldInv
<1>13. /\ \A r : r # x => /\ r \in Held' <=> r \in Held
                          /\ \A g \in 1 .. NHash : r \in Chained'[g] <=> r \in Chained[g]
                          /\ r \in Free' <=> r \in Free
       /\ x \notin Free' /\ \A g \in 1 .. NHash : x \notin Chained'[g]
  <2>1. (pc[p] \in Holding => db[p].idxoff = x) /\ (pc'[p] \in Holding => db'[p].idxoff = x)
    BY <1>1, <1>3
  <2>2. \A q \in Procs \ {p} : pc[q] \in Holding => db[q].idxoff # x
    BY <1>12
  <2>3. \A r : r # x => (r \in Recs' <=> r \in Recs)
    BY <1>8
  <2>4. \A r \in Recs : r # x => Key'[r] = Key[r]
    BY <1>9
  <2>5. /\ \A r : r # x => /\ r \in Held' <=> r \in Held
                           /\ \A g \in 1 .. NHash : r \in Chained'[g] <=> r \in Chained[g]
                           /\ r \in Free' <=> r \in Free
        /\ x \in Held' <=> pc'[p] \in Holding
        /\ \A g \in 1 .. NHash : x \in Chained'[g] <=> /\ x \in Recs' /\ x <= PtrMax /\ Key'[x] # Blank
                                                        /\ pc'[p] \notin Holding /\ Hash[Key'[x]] = g
        /\ x \in Free' <=> x \in Recs' /\ Key'[x] = Blank /\ pc'[p] \notin Holding
    BY <1>0, <2>1, <2>2, <2>3, <2>4, OneRecord
  <2> QED BY <1>6, <2>5
<1>14. Free' = Free
  <2>1. \A r : r \in Free' <=> r \in Free
    BY <1>7, <1>13
  <2> QED BY <2>1
<1>15. ASSUME NEW g \in 1 .. NHash PROVE SameChain(g)
  <2>1. /\ g \in 1 .. NHash /\ Chained[g] \subseteq Recs /\ g \in 0 .. NHash /\ x \notin Chained[g]
    BY <1>0, <1>7, <1>15, ListFacts
  <2>2. Chained'[g] = Chained[g]
    <3>1. \A r : r \in Chained'[g] <=> r \in Chained[g]
      BY <1>13, <2>1
    <3> QED BY <3>1
  <2>3. g # x
    BY <1>0, <1>7, <2>1, IndexFacts
  <2> QED BY <1>8, <1>9, <2>1, <2>2, <2>3 DEF SameChain, SameRec
<1>16. HeldInv'
  <2>1. \A r \in Recs' : Key'[r] = Blank => r <= PtrMax
    BY <1>0, <1>6, <1>8, <1>9 DEF HeldInv
  <2>2. \A q \in Procs \ {p} : pc[q] \in Holding => db[q].idxoff # x
    BY <1>12
  <2>3. \A r \in Recs : r # x => r \in Recs' /\ Key'[r] = Key[r]
    BY <1>8, <1>9
  <2>4. pc'[p] \in Holding => /\ db'[p].idxoff = x /\ x \in Recs'
                              /\ Key'[x] = IF pc'[p] = "chain" THEN call'[p].key ELSE Blank
    BY <1>1, <1>3, <1>4, <1>7, <1>8, <1>9
  <2> QED BY <1>0, <2>1, <2>2, <2>3, <2>4, HeldStep
<1>17. DataInv'
  <2>1. \A q \in Procs : pc'[q] = "a_idx" => pc[q] = "a_idx" /\ db'[q] = db[q]
    BY <1>0, <1>1 DEF OnlyMoves
  <2> QED BY <1>0, <1>1, <1>8, <2>1 DEF DataInv
<1>18. \A r \in Recs : r # x => SameRec(r)
  BY <1>8, <1>9 DEF SameRec
<1>19. SameFree /\ IsChain(FREE_OFF, Free', Ptr')
  <2>1. Free \subseteq Recs /\ FREE_OFF \in 0 .. NHash /\ FREE_OFF # x
    BY <1>0, <1>7, ListFacts, IndexFacts
  <2>2. \A y \in {FREE_OFF} \cup Free : Ptr'[y] = Ptr[y]
    BY <1>7, <1>9, <2>1
  <2>3. IsChain(FREE_OFF, Free, Ptr)
    BY <1>0 DEF ListInv
  <2>4. SameFree
    BY <1>7, <1>14, <1>18, <2>1, <2>2 DEF SameFree
  <2> QED BY <1>14, <2>2, <2>3, <2>4, SameLinks
<1>20. SameChain(h) /\ ChainOff(p)' = h
  BY <1>1, <1>2, <1>6, <1>15 DEF ChainOff
<1>21. Knows(p)'
  <2>1. Absent(p)'
    BY <1>1, <1>2, <1>7, <1>20 DEF Absent, SameChain, SameRec
  <2>2. db'[p].chainptr = Ptr'[h] /\ Ptr'[db'[p].idxoff] = db'[p].chainptr
    BY <1>1, <1>3, <1>5, <1>7, <1>9, <1>20 DEF SameChain
  <2> QED BY <1>1, <1>20, <2>1, <2>2 DEF Knows, FoundSteps, Unchaining
<1>22. HasData(p)'
  BY <1>1, <1>3, <1>7, <1>8 DEF HasData
<1>23. Expects(p)'
  BY <1>1, <1>4, <1>10 DEF Expects, FoundSteps, Unchaining, InsertSteps, AppendSteps, DeleteSteps
<1>24. ListInv' /\ KnowsInv' /\ MapInv' /\ ScanInv'
  <2>1. \A r \in Recs' : \A q \in Procs \ {p} : pc[q] = "a_idx" => Dat'[r] # db[q].datoff
    BY <1>0, <1>8 DEF KnowsInv, HasData
  <2>2. \A q \in Procs \ {p} : pc[q] \in Holding => SameRec(db[q].idxoff)
    BY <1>12, <1>18
  <2>3. \/ map'[k0] = None
        \/ Between(p)' /\ call'[p] = call[p]
    BY <1>1 DEF Between
  <2>4. call[p].op # "fetch" /\ call'[p] = call[p] /\ UNCHANGED <<dat, must, got>>
    BY <1>1, <1>6
  <2>5. \A r \in Recs : Key[r] # Blank => SameRec(r)
    BY <1>7, <1>18
  <2> QED BY <1>0, <1>2, <1>4, <1>6, <1>7, <1>10, <1>15, <1>19, <1>21, <1>22, <1>23, <2>1, <2>2, <2>3, <2>4,
             <2>5, OffChainStep
<1> QED BY <1>11, <1>16, <1>17, <1>24 DEF StoreInv

\* db_store appends an index record.
LEMMA AppendIndexStep ==
    ASSUME DbInv, NEW p \in Procs, AppendIndex(p)
    PROVE  StoreInv'
<1>0. /\ TypeOK /\ CallInv /\ OnlyMoves(p) /\ InCall(p) /\ Knows(p) /\ Expects(p) /\ LocksInv /\ DataInv /\ HeldInv
      /\ ListInv /\ KnowsInv /\ HasData(p)
  BY StepMoves DEF DbInv, Step, CallInv, KnowsInv
<1>1. PICK h : h = ChainOff(p)
  OBVIOUS
<1>2. PICK x : x = NextOff
  OBVIOUS
<1>3. PICK k0 : k0 = call[p].key
  OBVIOUS
<1>4. PICK v : v = db[p].chainptr
  OBVIOUS
<1>5. PICK w : w = db[p].datoff
  OBVIOUS
<1>6. PICK rec : rec = [key |-> k0, klen |-> KeyLen[k0], dat |-> w, len |-> DatLen[call[p].val], ptr |-> v]
  OBVIOUS
<1>7. /\ pc[p] = "a_idx" /\ pc'[p] = "chain" /\ UNCHANGED <<head, dat, rd, wr, call, must, got>>
      /\ idx' = Append(idx, rec) /\ db' = [db EXCEPT ![p].idxoff = x]
      /\ map' = IF x <= PtrMax THEN [map EXCEPT ![k0] = call[p].val] ELSE map
  BY <1>0, <1>2, <1>3, <1>4, <1>5, <1>6 DEF AppendIndex, Go, Effect, Quiet, locks, seen, TypeOK
<1>8. /\ h \in 1 .. NHash /\ k0 \in Keys /\ k0 # Blank /\ call[p].op = "store" /\ Inside(p) /\ ~Unchaining(p)
      /\ pc[p] \notin Holding /\ pc'[p] \in Holding /\ call[p].val \in Vals
  <2>1. call[p] # None /\ call[p].op = "store"
    BY <1>0, <1>7 DEF InCall, AppendSteps
  <2> QED BY <1>0, <1>1, <1>3, <1>7, <2>1, CallFacts, DbAssumption DEF ChainOff, Inside, Holding, Unchaining
<1>9. /\ Absent(p) /\ v = Ptr[h] /\ v \in Nat /\ w \in 1 .. Len(dat) /\ w \in Nat /\ dat[w] = call[p].val
      /\ \A r \in Recs : Dat[r] # w
  <2>1. Absent(p) /\ v = Ptr[h]
    BY <1>0, <1>1, <1>4, <1>7 DEF Knows, AbsentSteps, ChainptrSteps, AppendSteps
  <2>2. w \in 1 .. Len(dat) /\ dat[w] = call[p].val /\ \A r \in Recs : Dat[r] # w
    BY <1>0, <1>5, <1>7 DEF HasData
  <2>3. v \in Nat /\ w \in Nat
    BY <1>0, <1>4, <1>5 DEF TypeOK, DB
  <2> QED BY <2>1, <2>2, <2>3
<1>10. rec \in IndexRecord /\ rec.key = k0 /\ rec.dat = w /\ rec.ptr = v
  BY <1>6, <1>8, <1>9, DbAssumption DEF IndexRecord
<1>11. /\ x \in Nat \ (0 .. NHash \cup Recs) /\ Recs' = Recs \cup {x}
       /\ idx' \in Seq(IndexRecord)
       /\ Key'[x] = k0 /\ Dat'[x] = w /\ Ptr'[x] = v
       /\ \A r \in Recs : Key'[r] = Key[r] /\ Dat'[r] = Dat[r]
       /\ \A y \in 0 .. NHash \cup Recs : Ptr'[y] = Ptr[y]
  BY <1>0, <1>2, <1>7, <1>10, AppendsRecord
<1>12. db'[p].idxoff = x /\ db'[p].chainptr = v /\ db' \in [Procs \cup Scanners -> DB]
  <2>1. db[p] \in DB /\ db \in [Procs \cup Scanners -> DB]
    BY <1>0 DEF TypeOK
  <2> QED BY <1>4, <1>7, <1>11, <2>1 DEF DB
<1>13. /\ map' \in [Keys -> Vals \cup {None}] /\ \A k \in Keys : k # k0 => map'[k] = map[k]
       /\ x <= PtrMax => map'[k0] = call[p].val
  BY <1>0, <1>7, <1>8 DEF TypeOK
<1>14. TypeOK'
  BY <1>0, <1>7, <1>11, <1>12, <1>13 DEF TypeOK, OnlyMoves
<1>15. \A q \in Procs \ {p} : pc[q] \in Holding => db[q].idxoff # x /\ db[q].idxoff \in Recs
  BY <1>0, <1>11 DEF HeldInv
<1>16. /\ \A r : r # x => /\ r \in Held' <=> r \in Held
                          /\ \A g \in 1 .. NHash : r \in Chained'[g] <=> r \in Chained[g]
                          /\ r \in Free' <=> r \in Free
       /\ x \notin Free' /\ \A g \in 1 .. NHash : x \notin Chained'[g]
  <2>1. (pc[p] \in Holding => db[p].idxoff = x) /\ (pc'[p] \in Holding => db'[p].idxoff = x)
    BY <1>8, <1>12
  <2>2. \A q \in Procs \ {p} : pc[q] \in Holding => db[q].idxoff # x
    BY <1>15
  <2>3. (\A r : r # x => (r \in Recs' <=> r \in Recs)) /\ \A r \in Recs : r # x => Key'[r] = Key[r]
    BY <1>11
  <2> QED BY <1>0, <1>8, <2>1, <2>2, <2>3, OneRecord
<1>17. \A r \in Recs : r # x /\ SameRec(r)
  BY <1>11 DEF SameRec
<1>18. Free' = Free
  <2>1. x \notin Free
    BY <1>0, <1>11, ListFacts
  <2> QED BY <1>16, <2>1
<1>19. ASSUME NEW g \in 1 .. NHash PROVE SameChain(g)
  <2>1. /\ g \in 1 .. NHash /\ Chained[g] \subseteq Recs /\ g \in 0 .. NHash
    BY <1>0, <1>19, ListFacts
  <2>2. Chained'[g] = Chained[g]
    <3>1. \A r : r \in Chained'[g] <=> r \in Chained[g]
      BY <1>16, <1>17, <2>1
    <3> QED BY <3>1
  <2> QED BY <1>11, <1>17, <2>1, <2>2 DEF SameChain
<1>20. HeldInv'
  <2>1. \A r \in Recs' : Key'[r] = Blank => r <= PtrMax
    BY <1>0, <1>8, <1>11 DEF HeldInv
  <2>2. \A q \in Procs \ {p} : pc[q] \in Holding => db[q].idxoff # x
    BY <1>15
  <2>3. \A r \in Recs : r # x => r \in Recs' /\ Key'[r] = Key[r]
    BY <1>11
  <2>4. pc'[p] \in Holding => /\ db'[p].idxoff = x /\ x \in Recs'
                              /\ Key'[x] = IF pc'[p] = "chain" THEN call'[p].key ELSE Blank
    BY <1>3, <1>7, <1>11, <1>12
  <2> QED BY <1>0, <2>1, <2>2, <2>3, <2>4, HeldStep
<1>21. \A q \in Procs \ {p} : pc[q] = "a_idx" => db[q].datoff # w
  BY <1>0, <1>5, <1>7 DEF DataInv
<1>22. DataInv'
  <2>1. \A q \in Procs : pc'[q] = "a_idx" => pc[q] = "a_idx" /\ db'[q] = db[q]
    BY <1>0, <1>7 DEF OnlyMoves
  <2>2. \A r \in Recs' : Dat'[r] \in 1 .. Len(dat')
    BY <1>0, <1>7, <1>9, <1>11 DEF DataInv
  <2>3. \A r, y \in Recs' : Dat'[r] = Dat'[y] => r = y
    BY <1>0, <1>9, <1>11 DEF DataInv
  <2> QED BY <1>0, <2>1, <2>2, <2>3 DEF DataInv
<1>23. SameFree /\ IsChain(FREE_OFF, Free', Ptr')
  <2>1. Free \subseteq Recs /\ FREE_OFF \in 0 .. NHash
    BY <1>0, ListFacts, IndexFacts
  <2>2. \A y \in {FREE_OFF} \cup Free : Ptr'[y] = Ptr[y]
    BY <1>11, <2>1
  <2>3. IsChain(FREE_OFF, Free, Ptr)
    BY <1>0 DEF ListInv
  <2>4. SameFree
    BY <1>17, <1>18, <2>1, <2>2 DEF SameFree
  <2> QED BY <1>18, <2>2, <2>3, <2>4, SameLinks
<1>24. SameChain(h) /\ ChainOff(p)' = h
  BY <1>1, <1>7, <1>8, <1>19 DEF ChainOff
<1>25. Knows(p)'
  <2>1. Absent(p)'
    BY <1>1, <1>7, <1>9, <1>24 DEF Absent, SameChain, SameRec
  <2>2. db'[p].chainptr = Ptr'[h] /\ Ptr'[db'[p].idxoff] = db'[p].chainptr
    BY <1>9, <1>11, <1>12, <1>24 DEF SameChain
  <2> QED BY <1>7, <1>24, <2>1, <2>2 DEF Knows, FoundSteps, Unchaining
<1>26. HasData(p)'
  BY <1>7, <1>9, <1>11, <1>12 DEF HasData
<1>27. Expects(p)'
  BY <1>3, <1>7, <1>12, <1>13 DEF Expects, FoundSteps, Unchaining, InsertSteps, AppendSteps, DeleteSteps
<1>28. ListInv' /\ KnowsInv' /\ MapInv' /\ ScanInv'
  <2>1. \A r \in Recs' : \A q \in Procs \ {p} : pc[q] = "a_idx" => Dat'[r] # db[q].datoff
    BY <1>0, <1>11, <1>21 DEF KnowsInv, HasData
  <2>2. \A q \in Procs \ {p} : pc[q] \in Holding => SameRec(db[q].idxoff)
    BY <1>15, <1>17
  <2>3. \/ map'[k0] = None
        \/ Between(p)' /\ call'[p] = call[p]
    BY <1>7 DEF Between
  <2>4. call[p].op # "fetch" /\ call'[p] = call[p] /\ UNCHANGED <<dat, must, got>>
    BY <1>7, <1>8
  <2>5. \A r \in Recs : Key[r] # Blank => SameRec(r)
    BY <1>17
  <2> QED BY <1>0, <1>1, <1>3, <1>8, <1>9, <1>13, <1>19, <1>23, <1>25, <1>26, <1>27, <2>1, <2>2, <2>3, <2>4,
             <2>5, OffChainStep
<1> QED BY <1>14, <1>20, <1>22, <1>28 DEF StoreInv

\* db_store puts its record at the head of the chain.
LEMMA ChainStep ==
    ASSUME DbInv, NEW p \in Procs, Chain(p)
    PROVE  StoreInv'
<1>0. /\ TypeOK /\ CallInv /\ OnlyMoves(p) /\ InCall(p) /\ Knows(p) /\ Expects(p) /\ LocksInv /\ DataInv /\ HeldInv
      /\ ListInv /\ KnowsInv /\ HasData(p)
  BY StepMoves DEF DbInv, Step, CallInv, KnowsInv
<1>1. /\ pc[p] = "chain" /\ pc'[p] = "return" /\ UNCHANGED <<dat, rd, wr, db, map, call, must, got>>
      /\ db_writeptr(ChainOff(p), db[p].idxoff) /\ db[p].idxoff <= PtrMax
  BY <1>0 DEF Chain, Go, Quiet, locks, seen, TypeOK
<1>2. PICK h : h = ChainOff(p)
  OBVIOUS
<1>3. PICK x : x = db[p].idxoff
  OBVIOUS
<1>4. PICK k0 : k0 = call[p].key
  OBVIOUS
<1>5. /\ h \in 1 .. NHash /\ k0 \in Keys /\ k0 # Blank /\ Hash[k0] = h /\ call[p].op = "store" /\ Inside(p)
      /\ ~Unchaining(p) /\ ~Unchaining(p)' /\ pc[p] \in Holding /\ pc'[p] \notin Holding
  <2>1. call[p] # None /\ call[p].op = "store"
    BY <1>0, <1>1 DEF InCall
  <2> QED BY <1>0, <1>1, <1>2, <1>4, <2>1, CallFacts, DbAssumption DEF ChainOff, Inside, Holding, Unchaining
<1>6. /\ x \in Recs /\ Key[x] = k0 /\ x \in Held /\ x \notin Free /\ x <= PtrMax /\ Absent(p) /\ Ptr[x] = Ptr[h]
      /\ dat[Dat[x]] = map[k0]
  <2>1. x \in Recs /\ Key[x] = k0 /\ x \in Held
    BY <1>0, <1>1, <1>3, <1>4, <1>5 DEF HeldInv, Held
  <2>2. x \notin Free
    BY <1>0, <2>1, ListFacts
  <2>3. Absent(p) /\ Ptr[x] = Ptr[h] /\ dat[Dat[x]] = map[k0]
    BY <1>0, <1>1, <1>2, <1>3, <1>4 DEF Knows, HasData, Expects, AbsentSteps, ChainptrSteps
  <2> QED BY <1>1, <1>3, <2>1, <2>2, <2>3
<1>7. /\ x \in Nat /\ x \notin 0 .. NHash /\ x # 0 /\ h \in 0 .. NHash /\ h \notin Recs /\ h # FREE_OFF /\ h # x
      /\ Ptr \in [0 .. NHash \cup Recs -> Nat] /\ db_writeptr(h, x)
  <2>1. /\ Recs \subseteq Nat \ (0 .. NHash) /\ 0 \in 0 .. NHash /\ Ptr \in [0 .. NHash \cup Recs -> Nat]
        /\ h \in 0 .. NHash /\ h # FREE_OFF
    BY <1>0, <1>5, IndexFacts DEF FREE_OFF
  <2> QED BY <1>1, <1>2, <1>3, <1>6, <2>1
<1>8. /\ Recs' = Recs /\ Key' = Key /\ Dat' = Dat /\ Ptr' = [Ptr EXCEPT ![h] = x]
      /\ head' \in [0 .. NHash -> Nat] /\ idx' \in Seq(IndexRecord)
  <2>1. h \in 0 .. NHash \cup Recs
    BY <1>7
  <2> QED BY <1>0, <1>7, <2>1, WritesPtr
<1>9. Ptr'[h] = x /\ \A y \in 0 .. NHash \cup Recs : y # h => Ptr'[y] = Ptr[y]
  BY <1>7, <1>8
<1>10. TypeOK'
  BY <1>0, <1>1, <1>8 DEF TypeOK, OnlyMoves
<1>11. \A q \in Procs \ {p} : pc[q] \in Holding => db[q].idxoff # x /\ db[q].idxoff \in Recs
  BY <1>0, <1>3, <1>5 DEF HeldInv
<1>12. /\ \A r : r # x => /\ r \in Held' <=> r \in Held
                          /\ \A g \in 1 .. NHash : r \in Chained'[g] <=> r \in Chained[g]
                          /\ r \in Free' <=> r \in Free
       /\ x \notin Free' /\ \A g \in 1 .. NHash : x \in Chained'[g] <=> g = h
  <2>1. (pc[p] \in Holding => db[p].idxoff = x) /\ (pc'[p] \in Holding => db'[p].idxoff = x)
    BY <1>3, <1>5
  <2>2. \A q \in Procs \ {p} : pc[q] \in Holding => db[q].idxoff # x
    BY <1>11
  <2>3. (\A r : r # x => (r \in Recs' <=> r \in Recs)) /\ \A r \in Recs : r # x => Key'[r] = Key[r]
    BY <1>8
  <2>4. x \in Recs' /\ Key'[x] = k0 /\ x <= PtrMax /\ k0 # Blank /\ Hash[k0] = h
    BY <1>5, <1>6, <1>8
  <2> QED BY <1>0, <1>5, <2>1, <2>2, <2>3, <2>4, OneRecord
<1>13. Free' = Free
  <2>1. \A r : r \in Free' <=> r \in Free
    BY <1>6, <1>12
  <2> QED BY <2>1
<1>14. Chained'[h] = Chained[h] \cup {x}
  <2>1. \A r : r \in Chained'[h] <=> r \in Chained[h] \cup {x}
    BY <1>5, <1>12
  <2> QED BY <2>1
<1>15. \A r \in Recs : r # h /\ SameRec(r)
  BY <1>7, <1>8, <1>9 DEF SameRec
<1>16. ASSUME NEW g \in 1 .. NHash \ {h} PROVE SameChain(g)
  <2>1. /\ g \in 1 .. NHash /\ Chained[g] \subseteq Recs /\ g \in 0 .. NHash /\ x \notin Chained[g] /\ g # h
    BY <1>0, <1>6, <1>16, ListFacts
  <2>2. Chained'[g] = Chained[g]
    <3>1. \A r : r \in Chained'[g] <=> r \in Chained[g]
      BY <1>12, <2>1
    <3> QED BY <3>1
  <2> QED BY <1>9, <1>15, <2>1, <2>2 DEF SameChain
<1>17. HeldInv'
  <2>1. \A r \in Recs' : Key'[r] = Blank => r <= PtrMax
    BY <1>0, <1>8 DEF HeldInv
  <2>2. \A q \in Procs \ {p} : pc[q] \in Holding => db[q].idxoff # x
    BY <1>11
  <2>3. \A r \in Recs : r # x => r \in Recs' /\ Key'[r] = Key[r]
    BY <1>8
  <2> QED BY <1>0, <1>5, <2>1, <2>2, <2>3, HeldStep
<1>18. DataInv'
  <2>1. \A q \in Procs : pc'[q] = "a_idx" => pc[q] = "a_idx" /\ db'[q] = db[q]
    BY <1>0, <1>1 DEF OnlyMoves
  <2> QED BY <1>0, <1>1, <1>8, <2>1 DEF DataInv
<1>19. SameFree /\ IsChain(FREE_OFF, Free', Ptr')
  <2>1. Free \subseteq Recs /\ FREE_OFF \in 0 .. NHash
    BY <1>0, ListFacts, IndexFacts
  <2>2. \A y \in {FREE_OFF} \cup Free : Ptr'[y] = Ptr[y]
    BY <1>7, <1>9, <1>15, <2>1
  <2>3. IsChain(FREE_OFF, Free, Ptr)
    BY <1>0 DEF ListInv
  <2>4. SameFree
    BY <1>13, <1>15, <2>1, <2>2 DEF SameFree
  <2> QED BY <1>13, <2>2, <2>3, <2>4, SameLinks
<1>20. IsChain(h, Chained'[h], Ptr')
  <2>1. PICK C : C = Chained[h]
    OBVIOUS
  <2>2. PICK f : f = Ptr
    OBVIOUS
  <2>3. PICK g : g = Ptr'
    OBVIOUS
  <2>4. IsChain(h, C, f)
    BY <1>2, <1>5, <2>1, <2>2, MyChain
  <2>5. x # h /\ x \notin C /\ x # 0 /\ h \notin C /\ 0 \notin C /\ h # 0 /\ C \subseteq Recs
    BY <1>0, <1>5, <1>6, <1>7, <2>1, ListFacts
  <2>6. g[h] = x /\ g[x] = f[h]
    BY <1>6, <1>7, <1>9, <2>2, <2>3
  <2>7. \A y \in C : g[y] = f[y]
    BY <1>9, <1>15, <2>2, <2>3, <2>5
  <2>8. IsChain(h, C \cup {x}, g)
    BY <2>4, <2>5, <2>6, <2>7, PutInFront
  <2> QED BY <1>14, <2>1, <2>3, <2>8
<1>21. \A r \in Chained[h] : r \in Recs /\ Key[r] # k0
  BY <1>0, <1>2, <1>4, <1>5, <1>6, ListFacts DEF Absent
<1>22. Knows(p)' /\ HasData(p)' /\ Expects(p)'
  BY <1>1 DEF Knows, HasData, Expects, FoundSteps, Unchaining, AbsentSteps, ChainptrSteps,
     InsertSteps, AppendSteps, DeleteSteps
<1>23. ListInv' /\ KnowsInv' /\ MapInv' /\ ScanInv'
  <2>1. \A r \in Recs' : \A q \in Procs \ {p} : pc[q] = "a_idx" => Dat'[r] # db[q].datoff
    BY <1>0, <1>8 DEF KnowsInv, HasData
  <2>2. \A q \in Procs \ {p} : pc[q] \in Holding => SameRec(db[q].idxoff)
    BY <1>11, <1>15
  <2>3. \/ map'[k0] = None
        \/ Between(p)' /\ call'[p] = call[p]
        \/ \E r \in Chained'[h] : Key'[r] = k0
    BY <1>6, <1>8, <1>14
  <2>4. /\ call[p].op # "fetch" /\ call'[p] \in {call[p], None} /\ UNCHANGED <<dat, must, got>>
        /\ \A k \in Keys : k # k0 => map'[k] = map[k]
    BY <1>1, <1>5
  <2>5. /\ \A r : r \in Chained[h] /\ Key[r] # k0 => r \in Chained'[h] /\ Key'[r] = Key[r] /\ Dat'[r] = Dat[r]
        /\ \A r : r \in Chained'[h] /\ Key'[r] # k0 => r \in Chained[h] /\ Key'[r] = Key[r] /\ Dat'[r] = Dat[r]
        /\ \A r, y \in Chained'[h] : Key'[r] = k0 /\ Key'[y] = k0 => r = y
        /\ \A r \in Chained'[h] : Key'[r] = k0 => dat[Dat'[r]] = map'[k0]
    BY <1>1, <1>6, <1>8, <1>14, <1>21
  <2>6. (\A q \in Procs : Unchaining(q)' => ChainOff(q)' # h) => IsChain(h, Chained'[h], Ptr')
    BY <1>20
  <2>7. \A r \in Recs : Key[r] # Blank => SameRec(r)
    BY <1>15
  <2> QED BY <1>0, <1>2, <1>4, <1>5, <1>16, <1>19, <1>22, <2>1, <2>2, <2>3, <2>4, <2>5, <2>6, <2>7, IndexStep
<1> QED BY <1>10, <1>17, <1>18, <1>23 DEF StoreInv

\* err_quit in db_writeptr: the record stays where no pointer can lead to it.
LEMMA QuitStep ==
    ASSUME DbInv, NEW p \in Procs, Quit(p)
    PROVE  StoreInv'
<1>0. /\ TypeOK /\ CallInv /\ OnlyMoves(p) /\ InCall(p) /\ Knows(p) /\ Expects(p) /\ LocksInv /\ DataInv /\ HeldInv
      /\ ListInv /\ KnowsInv
  BY StepMoves DEF DbInv, Step, CallInv, KnowsInv
<1>1. /\ pc[p] = "chain" /\ pc'[p] = "gone" /\ db[p].idxoff > PtrMax /\ UNCHANGED <<head, idx, dat, must, got>>
      /\ Unlock(p, ChainOff(p)) /\ map' = [map EXCEPT ![call[p].key] = None]
      /\ call' = [call EXCEPT ![p] = None] /\ db' = [db EXCEPT ![p] = NoDB]
  BY <1>0 DEF Quit, Go, Clear, files, seen, TypeOK
<1>2. PICK h : h = ChainOff(p)
  OBVIOUS
<1>3. PICK x : x = db[p].idxoff
  OBVIOUS
<1>4. PICK k0 : k0 = call[p].key
  OBVIOUS
<1>5. /\ h \in 1 .. NHash /\ h \in 0 .. NHash /\ k0 \in Keys /\ k0 # Blank /\ call[p].op = "store" /\ Inside(p)
      /\ ~Unchaining(p) /\ pc[p] \in Holding /\ pc'[p] \notin Holding
  <2>1. call[p] # None /\ call[p].op = "store"
    BY <1>0, <1>1 DEF InCall
  <2> QED BY <1>0, <1>1, <1>2, <1>4, <2>1, CallFacts, DbAssumption DEF ChainOff, Inside, Holding, Unchaining
<1>6. /\ x \in Recs /\ Key[x] = k0 /\ x \in Held /\ x \notin Free /\ ~(x <= PtrMax) /\ Absent(p)
  <2>1. x \in Recs /\ Key[x] = k0 /\ x \in Held
    BY <1>0, <1>1, <1>3, <1>4, <1>5 DEF HeldInv, Held
  <2>2. x \notin Free /\ Absent(p)
    BY <1>0, <1>1, <2>1, ListFacts DEF Knows, AbsentSteps
  <2>3. x \in Nat /\ PtrMax \in Nat
    BY <1>0, <1>3, IndexFacts DEF TypeOK, DB
  <2> QED BY <1>1, <1>3, <2>1, <2>2, <2>3
<1>7. Recs' = Recs /\ Key' = Key /\ Dat' = Dat /\ Ptr' = Ptr
  BY <1>1 DEF Recs, Key, Dat, Ptr, Rec, db_readptr
<1>8. /\ map' \in [Keys -> Vals \cup {None}] /\ map'[k0] = None /\ \A k \in Keys : k # k0 => map'[k] = map[k]
  BY <1>0, <1>1, <1>4, <1>5 DEF TypeOK
<1>9. TypeOK' /\ call'[p] = None
  <2>1. /\ rd' \in [0 .. NHash -> SUBSET (Procs \cup Scanners)]
        /\ wr' \in [0 .. NHash -> SUBSET Procs]
    BY <1>0, <1>1, <1>2, <1>5, LocksTyped
  <2>2. NoDB \in DB
    BY DEF NoDB, DB
  <2>3. db' \in [Procs \cup Scanners -> DB] /\ call' \in [Procs -> KS!Calls \cup {None}] /\ call'[p] = None
    BY <1>0, <1>1, <2>2 DEF TypeOK
  <2> QED BY <1>0, <1>1, <1>8, <2>1, <2>3 DEF TypeOK, OnlyMoves
<1>10. \A q \in Procs \ {p} : pc[q] \in Holding => db[q].idxoff # x /\ db[q].idxoff \in Recs
  BY <1>0, <1>3, <1>5 DEF HeldInv
<1>11. /\ \A r : r # x => /\ r \in Held' <=> r \in Held
                          /\ \A g \in 1 .. NHash : r \in Chained'[g] <=> r \in Chained[g]
                          /\ r \in Free' <=> r \in Free
       /\ x \notin Free' /\ \A g \in 1 .. NHash : x \notin Chained'[g]
  <2>1. (pc[p] \in Holding => db[p].idxoff = x) /\ (pc'[p] \in Holding => db'[p].idxoff = x)
    BY <1>3, <1>5
  <2>2. \A q \in Procs \ {p} : pc[q] \in Holding => db[q].idxoff # x
    BY <1>10
  <2>3. (\A r : r # x => (r \in Recs' <=> r \in Recs)) /\ \A r \in Recs : r # x => Key'[r] = Key[r]
    BY <1>7
  <2>4. Key'[x] # Blank /\ ~(x <= PtrMax)
    BY <1>5, <1>6, <1>7
  <2> QED BY <1>0, <2>1, <2>2, <2>3, <2>4, OneRecord
<1>12. Free' = Free
  <2>1. \A r : r \in Free' <=> r \in Free
    BY <1>6, <1>11
  <2> QED BY <2>1
<1>13. \A r \in Recs : SameRec(r)
  BY <1>7 DEF SameRec
<1>14. ASSUME NEW g \in 1 .. NHash PROVE SameChain(g)
  <2>1. g \in 1 .. NHash /\ Chained[g] \subseteq Recs /\ x \notin Chained[g]
    BY <1>0, <1>6, <1>14, ListFacts
  <2>2. Chained'[g] = Chained[g]
    <3>1. \A r : r \in Chained'[g] <=> r \in Chained[g]
      BY <1>11, <2>1
    <3> QED BY <3>1
  <2> QED BY <1>7, <1>13, <2>1, <2>2 DEF SameChain
<1>15. HeldInv'
  <2>1. \A r \in Recs' : Key'[r] = Blank => r <= PtrMax
    BY <1>0, <1>7 DEF HeldInv
  <2>2. \A q \in Procs \ {p} : pc[q] \in Holding => db[q].idxoff # x
    BY <1>10
  <2>3. \A r \in Recs : r # x => r \in Recs' /\ Key'[r] = Key[r]
    BY <1>7
  <2> QED BY <1>0, <1>5, <2>1, <2>2, <2>3, HeldStep
<1>16. DataInv'
  <2>1. \A q \in Procs : pc'[q] = "a_idx" => pc[q] = "a_idx" /\ db'[q] = db[q]
    BY <1>0, <1>1 DEF OnlyMoves
  <2> QED BY <1>0, <1>1, <1>7, <2>1 DEF DataInv
<1>17. SameFree /\ IsChain(FREE_OFF, Free', Ptr')
  <2>1. Free \subseteq Recs
    BY <1>0, ListFacts
  <2> QED BY <1>0, <1>7, <1>12, <1>13, <2>1 DEF SameFree, ListInv
<1>18. Knows(p)' /\ HasData(p)' /\ Expects(p)'
  BY <1>1 DEF Knows, HasData, Expects, FoundSteps, Unchaining, AbsentSteps, ChainptrSteps,
     InsertSteps, AppendSteps, DeleteSteps
<1>19. ListInv' /\ KnowsInv' /\ MapInv' /\ ScanInv'
  <2>1. \A r \in Recs' : \A q \in Procs \ {p} : pc[q] = "a_idx" => Dat'[r] # db[q].datoff
    BY <1>0, <1>7 DEF KnowsInv, HasData
  <2>2. \A q \in Procs \ {p} : pc[q] \in Holding => SameRec(db[q].idxoff)
    BY <1>10, <1>13
  <2>3. \/ map'[k0] = None
        \/ Between(p)' /\ call'[p] = call[p]
    BY <1>8
  <2>4. call[p].op # "fetch" /\ call'[p] \in {call[p], None} /\ UNCHANGED <<dat, must, got>>
    BY <1>1, <1>5, <1>9
  <2>5. \A r \in Recs : Key[r] # Blank => SameRec(r)
    BY <1>13
  <2> QED BY <1>0, <1>2, <1>4, <1>5, <1>6, <1>8, <1>14, <1>17, <1>18, <2>1, <2>2, <2>3, <2>4, <2>5, OffChainStep
<1> QED BY <1>9, <1>15, <1>16, <1>19 DEF StoreInv

-----------------------------------------------------------------------------
\* db_rewind and db_nextrec write to no file.
OnlyScans(s) == /\ \A q \in (Procs \cup Scanners) \ {s} : pc'[q] = pc[q] /\ db'[q] = db[q]
                /\ \A t \in Scanners \ {s} : must'[t] = must[t] /\ got'[t] = got[t]
                /\ UNCHANGED <<head, idx, dat, call, ret, map>>
                /\ DOMAIN pc' = Procs \cup Scanners

\* A step of a scan disturbs nothing but what that scan knows.
LEMMA ScanStep ==
    ASSUME DbInv, NEW s \in Scanners, OnlyScans(s)
    PROVE  /\ Recs' = Recs /\ Key' = Key /\ Dat' = Dat /\ Chained' = Chained /\ BeingWritten' = BeingWritten
           /\ TypeOK' /\ ScanRight(s)' => StoreInv'
<1>0. /\ TypeOK /\ CallInv /\ HeldInv /\ ListInv /\ KnowsInv /\ DataInv /\ MapInv /\ ScanInv
      /\ Procs \cap Scanners = {}
  BY DbAssumption DEF DbInv
<1>1. /\ \A q \in Procs : pc'[q] = pc[q] /\ db'[q] = db[q]
      /\ head' = head /\ idx' = idx /\ dat' = dat /\ call' = call /\ ret' = ret /\ map' = map
  BY <1>0 DEF OnlyScans
<1>2. Recs' = Recs /\ Key' = Key /\ Dat' = Dat /\ Ptr' = Ptr
  BY <1>1 DEF Recs, Key, Dat, Ptr, Rec, db_readptr
<1>3. Held' = Held
  BY <1>1 DEF Held
<1>4. Chained' = Chained /\ Free' = Free
  BY <1>2, <1>3 DEF Chained, Free
<1>5. BeingWritten' = BeingWritten
  BY <1>1 DEF BeingWritten
<1>6. /\ \A r \in Recs : SameRec(r)
      /\ \A g \in 1 .. NHash : SameChain(g)
      /\ SameFree
  BY <1>0, <1>2, <1>4, AllSame
<1>7. HeldInv'
  BY <1>0, <1>1, <1>2 DEF HeldInv
<1>8. ListInv'
  <2>1. \A q \in Procs : Unchaining(q)' = Unchaining(q) /\ ChainOff(q)' = ChainOff(q)
    BY <1>1 DEF Unchaining, ChainOff
  <2> QED BY <1>0, <1>2, <1>4, <2>1 DEF ListInv, FREE_OFF
<1>9. KnowsInv'
  <2> SUFFICES ASSUME NEW q \in Procs PROVE Knows(q)' /\ HasData(q)' /\ Expects(q)'
    BY DEF KnowsInv
  <2>1. Inside(q) => SameChain(ChainOff(q)) /\ map'[call[q].key] = map[call[q].key]
    BY <1>0, <1>1, <1>6, CallFacts DEF CallInv, InCall, Inside
  <2>2. pc[q] \in Holding => /\ SameRec(db[q].idxoff)
                             /\ dat'[Dat[db[q].idxoff]] = dat[Dat[db[q].idxoff]]
    BY <1>0, <1>1, <1>6 DEF HeldInv
  <2>3. pc[q] = "a_idx" => HasData(q)'
    BY <1>0, <1>1, <1>2 DEF KnowsInv, HasData
  <2>4. Undisturbed(q)
    BY <1>1, <1>6, <2>1, <2>2, <2>3 DEF Undisturbed
  <2> QED BY <2>4, StillKnows
<1>10. DataInv'
  BY <1>0, <1>1, <1>2 DEF DataInv
<1>11. MapInv'
  <2>1. \A q \in Procs : Between(q)' = Between(q)
    BY <1>1 DEF Between, Unchaining
  <2> QED BY <1>0, <1>1, <1>2, <1>4, <2>1 DEF MapInv
<1>12. ASSUME ScanRight(s)' PROVE ScanInv'
  <2> SUFFICES ASSUME NEW t \in Scanners \ {s} PROVE ScanRight(t)'
    BY <1>12 DEF ScanInv
  <2>1. pc'[t] = pc[t] /\ db'[t] = db[t] /\ must'[t] = must[t] /\ got'[t] = got[t] /\ ScanRight(t)
    BY <1>0 DEF OnlyScans, ScanInv
  <2>2. Position(t)' = Position(t)
    BY <2>1 DEF Position
  <2> QED BY <1>2, <1>4, <1>5, <2>1, <2>2 DEF ScanRight
<1> QED BY <1>2, <1>4, <1>5, <1>7, <1>8, <1>9, <1>10, <1>11, <1>12 DEF StoreInv

\* db_rewind: the keys that are there, and nobody is writing, are on the chains.
LEMMA RewindStep ==
    ASSUME DbInv, NEW s \in Scanners, Rewind(s)
    PROVE  StoreInv'
<1>0. TypeOK /\ CallInv /\ MapInv
  BY DEF DbInv
<1>1. /\ pc[s] = "idle" /\ pc' = [pc EXCEPT ![s] = "next"] /\ db' = [db EXCEPT ![s].off = NHash + 1]
      /\ must' = [must EXCEPT ![s] = {k \in Keys \ BeingWritten : map[k] # None}]
      /\ got' = [got EXCEPT ![s] = {}] /\ UNCHANGED <<head, idx, dat, rd, wr, call, ret, map>>
  BY DEF Rewind, Go, files, locks
<1>2. OnlyScans(s)
  BY <1>0, <1>1 DEF OnlyScans, TypeOK
<1>3. Recs' = Recs /\ Key' = Key /\ Dat' = Dat /\ Chained' = Chained /\ BeingWritten' = BeingWritten
  BY <1>2, ScanStep
<1>4. NHash + 1 \in Nat
  BY DbAssumption
<1>5. pc'[s] = "next" /\ db'[s].off = NHash + 1 /\ db' \in [Procs \cup Scanners -> DB]
  <2>1. s \in DOMAIN pc /\ db[s] \in DB /\ db \in [Procs \cup Scanners -> DB]
    BY <1>0 DEF TypeOK
  <2> QED BY <1>1, <1>4, <2>1 DEF DB
<1>6. /\ must'[s] = {k \in Keys \ BeingWritten : map[k] # None} /\ got'[s] = {}
      /\ must' \in [Scanners -> SUBSET Keys] /\ got' \in [Scanners -> SUBSET Keys]
  <2>1. must \in [Scanners -> SUBSET Keys] /\ got \in [Scanners -> SUBSET Keys]
    BY <1>0 DEF TypeOK
  <2> QED BY <1>1, <2>1
<1>7. TypeOK'
  BY <1>0, <1>1, <1>2, <1>5, <1>6 DEF TypeOK, OnlyScans
<1>8. ASSUME NEW k \in must'[s] PROVE \E r \in Chained'[Hash[k]] : Key'[r] = k
  <2>1. k \in Keys /\ k \notin BeingWritten /\ map[k] # None
    BY <1>6, <1>8
  <2>2. ASSUME NEW q \in Procs, Between(q) PROVE call[q].key # k
    <3>1. call[q] # None /\ call[q].op # "fetch"
      BY <1>0, <2>2 DEF Between, Unchaining, CallInv, InCall, AppendSteps, DeleteSteps
    <3> QED BY <2>1, <3>1 DEF BeingWritten
  <2> QED BY <1>0, <1>3, <2>1, <2>2 DEF MapInv
<1>9. ASSUME NEW h \in 1 .. NHash, NEW r \in Chained'[h] PROVE ~(r < Position(s)')
  <2>1. r \in Recs /\ Recs \subseteq Nat \ (0 .. NHash) /\ NHash \in Nat
    BY <1>0, <1>3, <1>9, ListFacts, IndexFacts
  <2>2. Position(s)' = NHash + 1
    BY <1>5 DEF Position
  <2> QED BY <2>1, <2>2
<1>10. ScanRight(s)'
  <2>1. NHash + 1 > NHash
    BY DbAssumption
  <2>2. got'[s] \subseteq must'[s] /\ must'[s] \cap BeingWritten' = {}
    BY <1>3, <1>6
  <2>3. \A h \in 1 .. NHash : \A r \in Chained'[h] : Key'[r] \in must'[s] =>
            (Key'[r] \in got'[s] <=> r < Position(s)')
    BY <1>6, <1>9
  <2> QED BY <1>5, <1>8, <2>1, <2>2, <2>3 DEF ScanRight
<1> QED BY <1>2, <1>7, <1>10, ScanStep

\* db_nextrec takes the lock of the free list.
LEMMA NextLockStep ==
    ASSUME DbInv, NEW s \in Scanners, NextLock(s)
    PROVE  StoreInv'
<1>0. TypeOK /\ ScanRight(s)
  BY DEF DbInv, ScanInv
<1>1. /\ pc[s] = "next" /\ pc' = [pc EXCEPT ![s] = "n_idx"] /\ ReadLock(s, FREE_OFF)
      /\ UNCHANGED <<head, idx, dat, db, map, ret, call, must, got>>
  BY DEF NextLock, Go, Quiet, files, seen
<1>2. OnlyScans(s) /\ pc'[s] = "n_idx"
  BY <1>0, <1>1 DEF OnlyScans, TypeOK
<1>3. Recs' = Recs /\ Key' = Key /\ Dat' = Dat /\ Chained' = Chained /\ BeingWritten' = BeingWritten
  BY <1>2, ScanStep
<1>4. TypeOK'
  <2>1. /\ rd' \in [0 .. NHash -> SUBSET (Procs \cup Scanners)]
        /\ wr' \in [0 .. NHash -> SUBSET Procs]
    BY <1>0, <1>1, LocksTyped, IndexFacts
  <2> QED BY <1>0, <1>1, <1>2, <2>1 DEF TypeOK, OnlyScans
<1>5. Position(s)' = Position(s)
  BY <1>1, <1>2 DEF Position
<1>6. ScanRight(s)'
  BY <1>0, <1>1, <1>2, <1>3, <1>5 DEF ScanRight
<1> QED BY <1>2, <1>4, <1>6, ScanStep

\* db_nextrec reads the next index record and skips it when it is blank.
LEMMA NextIndexStep ==
    ASSUME DbInv, NEW s \in Scanners, NextIndex(s)
    PROVE  StoreInv'
<1>0. TypeOK /\ ScanRight(s)
  BY DEF DbInv, ScanInv
<1>1. PICK x : x = db[s].off
  OBVIOUS
<1>2. pc[s] = "n_idx" /\ x < NextOff /\ x > NHash /\ x \in Nat /\ x \in Recs
  <2>1. pc[s] = "n_idx" /\ x < NextOff /\ x > NHash /\ x \in Nat
    BY <1>0, <1>1 DEF NextIndex, ScanRight, TypeOK, DB
  <2>2. NHash \in Nat /\ Len(idx) \in Nat
    BY <1>0, DbAssumption DEF TypeOK
  <2> QED BY <2>1, <2>2 DEF NextOff, Recs
<1>3. Rec(x).key = Key[x] /\ Rec(x).dat = Dat[x] /\ Key[x] \in Keys \cup {Blank} /\ Dat[x] \in Nat
  BY <1>0, <1>2, IndexFacts
<1>4. UNCHANGED <<head, idx, dat, rd, wr, map, ret, call, must, got>>
  BY DEF NextIndex, Quiet, files, locks, seen
<1>5. db[s] \in DB /\ db \in [Procs \cup Scanners -> DB] /\ DOMAIN pc = Procs \cup Scanners
  BY <1>0 DEF TypeOK
<1>6. CASE Key[x] = Blank
  <2>1. db' = [db EXCEPT ![s].off = x + 1] /\ pc' = pc
    BY <1>1, <1>3, <1>6 DEF NextIndex
  <2>2. OnlyScans(s) /\ db'[s].off = x + 1 /\ db' \in [Procs \cup Scanners -> DB]
    BY <1>2, <1>4, <1>5, <2>1 DEF OnlyScans, DB
  <2>3. Recs' = Recs /\ Key' = Key /\ Dat' = Dat /\ Chained' = Chained /\ BeingWritten' = BeingWritten
    BY <2>2, ScanStep
  <2>4. TypeOK'
    BY <1>0, <1>4, <2>1, <2>2 DEF TypeOK
  <2>5. Position(s) = x /\ Position(s)' = x + 1
    BY <1>1, <1>2, <2>1, <2>2 DEF Position
  <2>6. ASSUME NEW h \in 1 .. NHash, NEW r \in Chained[h] PROVE r < x + 1 <=> r < x
    <3>1. r \in Recs /\ r # x
      BY <1>0, <1>6, <2>6, ListFacts, DbAssumption
    <3>2. r \in Nat
      BY <1>0, <3>1, IndexFacts
    <3> QED BY <1>2, <3>1, <3>2
  <2>7. x + 1 > NHash
    BY <1>2, DbAssumption
  <2>8. ScanRight(s)'
    <3>1. /\ got[s] \subseteq must[s] /\ must[s] \cap BeingWritten = {}
          /\ \A k \in must[s] : \E r \in Chained[Hash[k]] : Key[r] = k
          /\ \A h \in 1 .. NHash : \A r \in Chained[h] : Key[r] \in must[s] => (Key[r] \in got[s] <=> r < x)
      BY <1>0, <1>2, <2>5 DEF ScanRight
    <3>2. \A h \in 1 .. NHash : \A r \in Chained[h] : Key[r] \in must[s] => (Key[r] \in got[s] <=> r < x + 1)
      BY <2>6, <3>1
    <3> QED BY <1>2, <1>4, <2>1, <2>2, <2>3, <2>5, <2>7, <3>1, <3>2 DEF ScanRight
  <2> QED BY <2>2, <2>4, <2>8, ScanStep
<1>7. CASE Key[x] # Blank
  <2>1. db' = [db EXCEPT ![s].off = x + 1, ![s].key = Key[x], ![s].datoff = Dat[x]]
    BY <1>1, <1>3, <1>5, <1>7 DEF NextIndex, ReadRecord
  <2>2. pc' = [pc EXCEPT ![s] = "n_dat"]
    BY <1>1, <1>3, <1>7 DEF NextIndex, Go
  <2>3. /\ db'[s].off = x + 1 /\ db'[s].key = Key[x] /\ db'[s].datoff = Dat[x]
        /\ db' \in [Procs \cup Scanners -> DB] /\ pc'[s] = "n_dat"
    <3>1. PICK d : d = [db[s] EXCEPT !.off = x + 1, !.key = Key[x], !.datoff = Dat[x]]
      OBVIOUS
    <3>2. d \in DB /\ d.off = x + 1 /\ d.key = Key[x] /\ d.datoff = Dat[x]
      <4>1. PICK e \in DB : e = db[s]
        BY <1>5
      <4>2. PICK y \in Nat : y = x + 1
        BY <1>2
      <4>3. PICK k \in Keys \cup {Blank} : k = Key[x]
        BY <1>3
      <4>4. PICK w \in Nat : w = Dat[x]
        BY <1>3
      <4>5. d = [e EXCEPT !.off = y, !.key = k, !.datoff = w]
        BY <3>1, <4>1, <4>2, <4>3, <4>4
      <4>6. d \in DB /\ d.off = y /\ d.key = k /\ d.datoff = w
        BY <4>5 DEF DB
      <4> QED BY <4>2, <4>3, <4>4, <4>6
    <3>3. db' = [db EXCEPT ![s] = d]
      BY <1>5, <2>1, <3>1
    <3> QED BY <1>5, <2>2, <3>2, <3>3
  <2>4. OnlyScans(s)
    BY <1>4, <1>5, <2>1, <2>2 DEF OnlyScans
  <2>5. Recs' = Recs /\ Key' = Key /\ Dat' = Dat /\ Chained' = Chained /\ BeingWritten' = BeingWritten
    BY <2>4, ScanStep
  <2>6. TypeOK'
    BY <1>0, <1>4, <2>3, <2>4 DEF TypeOK, OnlyScans
  <2>7. x + 1 - 1 = x /\ x + 1 > NHash
    BY <1>2, DbAssumption
  <2>8. Position(s) = x /\ Position(s)' = x
    BY <1>1, <1>2, <2>3, <2>7 DEF Position
  <2>9. ScanRight(s)'
    BY <1>0, <1>2, <1>4, <1>7, <2>3, <2>5, <2>7, <2>8 DEF ScanRight
  <2> QED BY <2>4, <2>6, <2>9, ScanStep
<1> QED BY <1>6, <1>7

\* db_nextrec has the data too: the record it returns is behind it.
LEMMA NextDataStep ==
    ASSUME DbInv, NEW s \in Scanners, NextData(s)
    PROVE  StoreInv'
<1>0. TypeOK /\ ScanRight(s) /\ CallInv /\ HeldInv /\ ListInv
  BY DEF DbInv, ScanInv
<1>1. PICK d : d = db[s]
  OBVIOUS
<1>2. PICK x : x = d.off - 1
  OBVIOUS
<1>3. /\ pc[s] = "n_dat" /\ pc' = [pc EXCEPT ![s] = "next"] /\ Unlock(s, FREE_OFF)
      /\ got' = [got EXCEPT ![s] = @ \cup ({d.key} \cap must[s])]
      /\ db' = [db EXCEPT ![s] = [NoDB EXCEPT !.off = d.off]]
      /\ UNCHANGED <<head, idx, dat, call, ret, map, must>>
  BY <1>1 DEF NextData, Go, files
<1>4. /\ db[s] \in DB /\ db \in [Procs \cup Scanners -> DB] /\ DOMAIN pc = Procs \cup Scanners
      /\ must \in [Scanners -> SUBSET Keys] /\ got \in [Scanners -> SUBSET Keys] /\ d.off \in Nat
  BY <1>0, <1>1 DEF TypeOK, DB
<1>5. OnlyScans(s)
  BY <1>3, <1>4 DEF OnlyScans
<1>6. Recs' = Recs /\ Key' = Key /\ Dat' = Dat /\ Chained' = Chained /\ BeingWritten' = BeingWritten
  BY <1>5, ScanStep
<1>7. /\ pc'[s] = "next" /\ db'[s].off = d.off /\ db' \in [Procs \cup Scanners -> DB]
  <2>1. [NoDB EXCEPT !.off = d.off] \in DB /\ [NoDB EXCEPT !.off = d.off].off = d.off
    BY <1>4 DEF NoDB, DB
  <2> QED BY <1>3, <1>4, <2>1
<1>8. got'[s] = got[s] \cup ({d.key} \cap must[s]) /\ got' \in [Scanners -> SUBSET Keys]
  BY <1>3, <1>4
<1>9. TypeOK'
  <2>1. /\ rd' \in [0 .. NHash -> SUBSET (Procs \cup Scanners)]
        /\ wr' \in [0 .. NHash -> SUBSET Procs]
    BY <1>0, <1>3, LocksTyped, IndexFacts
  <2> QED BY <1>0, <1>3, <1>5, <1>7, <1>8, <2>1 DEF TypeOK, OnlyScans
<1>10. /\ x \in Recs /\ Key[x] = d.key /\ d.key # Blank /\ d.off > NHash /\ Position(s) = x /\ Position(s)' = d.off
       /\ must[s] \cap BeingWritten = {} /\ got[s] \subseteq must[s]
       /\ \A k \in must[s] : \E r \in Chained[Hash[k]] : Key[r] = k
       /\ \A h \in 1 .. NHash : \A r \in Chained[h] : Key[r] \in must[s] => (Key[r] \in got[s] <=> r < x)
  <2>1. Position(s) = x /\ Position(s)' = d.off
    BY <1>1, <1>2, <1>3, <1>7 DEF Position
  <2> QED BY <1>0, <1>1, <1>2, <1>3, <2>1 DEF ScanRight
<1>11. x \in Nat /\ d.off = x + 1 /\ PtrMax \in Nat
  <2>1. x \in Nat /\ PtrMax \in Nat
    BY <1>0, <1>10, IndexFacts
  <2> QED BY <1>2, <1>4, <2>1
<1>12. ASSUME NEW h \in 1 .. NHash, NEW r \in Chained[h], Key[r] \in must[s]
       PROVE  Key[r] \in got'[s] <=> r < d.off
  <2>1. r \in Recs /\ r \in Nat /\ r <= PtrMax /\ Key[r] \in Keys /\ Hash[Key[r]] = h
    <3>1. r \in Recs /\ r <= PtrMax /\ Key[r] \in Keys /\ Hash[Key[r]] = h
      BY <1>0, <1>12, ListFacts
    <3> QED BY <1>0, <3>1, IndexFacts
  <2>2. Key[r] = d.key => r <= x
    <3> SUFFICES ASSUME Key[r] = d.key PROVE r <= x
      OBVIOUS
    <3>1. x \notin Held
      <4> SUFFICES ASSUME NEW q \in Procs, pc[q] \in Holding, db[q].idxoff = x PROVE FALSE
        BY DEF Held
      <4>1. pc[q] = "chain" /\ call[q].key = d.key
        BY <1>0, <1>10 DEF HeldInv
      <4>2. call[q] # None /\ call[q].op # "fetch"
        BY <1>0, <4>1 DEF CallInv, InCall
      <4>3. d.key \in BeingWritten
        BY <4>1, <4>2 DEF BeingWritten
      <4> QED BY <1>10, <1>12, <4>3
    <3>2. CASE x <= PtrMax
      <4>1. x \in Chained[h]
        BY <1>10, <2>1, <3>1, <3>2 DEF Chained
      <4>2. x = r
        BY <1>0, <1>10, <4>1 DEF ListInv
      <4> QED BY <1>11, <4>2
    <3>3. CASE ~(x <= PtrMax)
      BY <1>11, <2>1, <3>3
    <3> QED BY <3>2, <3>3
  <2>3. Key[r] \in got[s] <=> r < x
    BY <1>10, <1>12
  <2>4. CASE r = x
    BY <1>8, <1>10, <1>11, <1>12, <2>4
  <2>5. CASE r # x
    <3>1. r < d.off <=> r < x
      BY <1>11, <2>1, <2>5
    <3>2. Key[r] = d.key => Key[r] \in got[s]
      BY <1>11, <2>1, <2>2, <2>3, <2>5
    <3> QED BY <1>8, <2>3, <3>1, <3>2
  <2> QED BY <2>4, <2>5
<1>13. ScanRight(s)'
  <2>1. got'[s] \subseteq must'[s] /\ must'[s] \cap BeingWritten' = {} /\ must'[s] = must[s]
    BY <1>3, <1>6, <1>8, <1>10
  <2> QED BY <1>6, <1>7, <1>10, <1>12, <2>1 DEF ScanRight
<1> QED BY <1>5, <1>9, <1>13, ScanStep

\* db_nextrec at the end of the index file: no record is ahead.
LEMMA NextEOFStep ==
    ASSUME DbInv, NEW s \in Scanners, NextEOF(s)
    PROVE  StoreInv'
<1>0. TypeOK /\ ScanRight(s)
  BY DEF DbInv, ScanInv
<1>1. /\ pc[s] = "n_idx" /\ db[s].off >= NextOff /\ pc' = [pc EXCEPT ![s] = "eof"] /\ Unlock(s, FREE_OFF)
      /\ UNCHANGED <<head, idx, dat, db, map, ret, call, must, got>>
  BY DEF NextEOF, Go, Quiet, files, seen
<1>2. OnlyScans(s) /\ pc'[s] = "eof"
  BY <1>0, <1>1 DEF OnlyScans, TypeOK
<1>3. Recs' = Recs /\ Key' = Key /\ Dat' = Dat /\ Chained' = Chained /\ BeingWritten' = BeingWritten
  BY <1>2, ScanStep
<1>4. TypeOK'
  <2>1. /\ rd' \in [0 .. NHash -> SUBSET (Procs \cup Scanners)]
        /\ wr' \in [0 .. NHash -> SUBSET Procs]
    BY <1>0, <1>1, LocksTyped, IndexFacts
  <2> QED BY <1>0, <1>1, <1>2, <2>1 DEF TypeOK, OnlyScans
<1>5. ASSUME NEW k \in must[s] PROVE k \in got[s]
  <2>1. PICK r \in Chained[Hash[k]] : Key[r] = k
    BY <1>0 DEF ScanRight
  <2>2. k \in Keys /\ Hash[k] \in 1 .. NHash
    BY <1>0, DbAssumption DEF TypeOK
  <2>3. r \in Recs
    BY <1>0, <2>1, <2>2, ListFacts
  <2>4. r < db[s].off
    <3>1. db[s].off \in Nat
      BY <1>0 DEF TypeOK, DB
    <3>2. NHash \in Nat /\ Len(idx) \in Nat
      BY <1>0, DbAssumption DEF TypeOK
    <3> QED BY <1>1, <2>3, <3>1, <3>2 DEF Recs, NextOff
  <2>5. Position(s) = db[s].off
    BY <1>1 DEF Position
  <2> QED BY <1>0, <1>1, <2>1, <2>2, <2>4, <2>5 DEF ScanRight
<1>6. ScanRight(s)'
  BY <1>0, <1>1, <1>2, <1>3, <1>5 DEF ScanRight
<1> QED BY <1>2, <1>4, <1>6, ScanStep

\* A scan that has come to the end starts again.
LEMMA DoneStep ==
    ASSUME DbInv, NEW s \in Scanners, Done(s)
    PROVE  StoreInv'
<1>0. TypeOK
  BY DEF DbInv
<1>1. /\ pc[s] = "eof" /\ pc' = [pc EXCEPT ![s] = "idle"] /\ db' = [db EXCEPT ![s] = NoDB]
      /\ must' = [must EXCEPT ![s] = {}] /\ got' = [got EXCEPT ![s] = {}]
      /\ UNCHANGED <<head, idx, dat, rd, wr, call, ret, map>>
  BY DEF Done, Go, Clear, files, locks
<1>2. OnlyScans(s) /\ pc'[s] = "idle"
  BY <1>0, <1>1 DEF OnlyScans, TypeOK
<1>3. must'[s] = {} /\ got'[s] = {} /\ must' \in [Scanners -> SUBSET Keys] /\ got' \in [Scanners -> SUBSET Keys]
  BY <1>0, <1>1 DEF TypeOK
<1>4. TypeOK'
  <2>1. NoDB \in DB
    BY DEF NoDB, DB
  <2>2. db' \in [Procs \cup Scanners -> DB]
    BY <1>0, <1>1, <2>1 DEF TypeOK
  <2> QED BY <1>0, <1>1, <1>2, <1>3, <2>2 DEF TypeOK, OnlyScans
<1>5. ScanRight(s)'
  BY <1>2, <1>3 DEF ScanRight
<1> QED BY <1>2, <1>4, <1>5, ScanStep

-----------------------------------------------------------------------------
\* Every step of a call and of a scan keeps the invariant.
LEMMA DbInvNext ==
    ASSUME DbInv, Next
    PROVE  DbInv'
<1>1. CallInv' /\ LocksInv'
  BY CallStep, LocksStep
<1>2. StoreInv'
  <2>1. ASSUME NEW p \in Procs, NEW c \in Offered, Call(p, c) PROVE StoreInv'
    BY <2>1, CallsStep
  <2>2. ASSUME NEW p \in Procs, Step(p) PROVE StoreInv'
    BY <2>2, LockStep, FirstStep, WalkStep, MissingStep, FoundStep, ReaddatStep, ReturnStep, LockFreeStep,
       BlankDataStep, ReadFreeStep, BlankIndexStep, SetFreeStep, UnchainStep, ReadChainStep, FirstFreeStep,
       WalkFreeStep, NoneFreeStep, TakeFreeStep, OverwriteDataStep, ReuseIndexStep, AppendDataStep,
       AppendIndexStep, ChainStep, QuitStep DEF Step
  <2>3. ASSUME NEW s \in Scanners, Scan(s) PROVE StoreInv'
    BY <2>3, RewindStep, NextLockStep, NextIndexStep, NextDataStep, NextEOFStep, DoneStep DEF Scan
  <2> QED BY <2>1, <2>2, <2>3 DEF Next
<1> QED BY <1>1, <1>2 DEF DbInv, StoreInv

\* The invariant depends on the variables only.
LEMMA DbInvStutter ==
    ASSUME DbInv, UNCHANGED vars
    PROVE  DbInv'
<1>1. UNCHANGED <<head, idx, dat, rd, wr, pc, db, call, ret, map, must, got>>
  BY DEF vars, files, locks, seen
<1>2. Recs' = Recs /\ Key' = Key /\ Dat' = Dat /\ Ptr' = Ptr /\ Held' = Held
  BY <1>1 DEF Recs, Key, Dat, Ptr, Rec, db_readptr, Held
<1>3. Chained' = Chained /\ Free' = Free
  BY <1>2 DEF Chained, Free
<1>4. TypeOK' /\ CallInv' /\ LocksInv' /\ HeldInv'
  <2>1. TypeOK'
    BY <1>1 DEF DbInv, TypeOK
  <2>2. CallInv' = CallInv
    BY <1>1 DEF CallInv, InCall, Effected
  <2>3. LocksInv' = LocksInv
    BY <1>1 DEF LocksInv, Inside, ChainOff
  <2>4. HeldInv'
    BY <1>1, <1>2 DEF DbInv, HeldInv
  <2> QED BY <2>1, <2>2, <2>3, <2>4 DEF DbInv
<1>5. ListInv' /\ MapInv' /\ DataInv'
  <2>1. \A q \in Procs : Unchaining(q)' = Unchaining(q) /\ ChainOff(q)' = ChainOff(q) /\ Between(q)' = Between(q)
    BY <1>1 DEF Unchaining, ChainOff, Between
  <2>2. ListInv'
    BY <1>2, <1>3, <2>1 DEF DbInv, ListInv, FREE_OFF
  <2>3. MapInv'
    BY <1>1, <1>2, <1>3, <2>1 DEF DbInv, MapInv
  <2>4. DataInv'
    BY <1>1, <1>2 DEF DbInv, DataInv
  <2> QED BY <2>2, <2>3, <2>4
<1>6. KnowsInv'
  <2> SUFFICES ASSUME NEW q \in Procs PROVE Knows(q)' /\ HasData(q)' /\ Expects(q)'
    BY DEF KnowsInv
  <2>1. TypeOK /\ CallInv /\ HeldInv /\ Knows(q) /\ HasData(q)
    BY DEF DbInv, KnowsInv
  <2>2. /\ \A r \in Recs : SameRec(r)
        /\ \A g \in 1 .. NHash : SameChain(g)
        /\ SameFree
    BY <1>2, <1>3, <2>1, AllSame
  <2>3. Inside(q) => SameChain(ChainOff(q)) /\ map'[call[q].key] = map[call[q].key]
    BY <1>1, <2>1, <2>2, CallFacts DEF CallInv, InCall, Inside
  <2>4. pc[q] \in Holding => /\ SameRec(db[q].idxoff)
                             /\ dat'[Dat[db[q].idxoff]] = dat[Dat[db[q].idxoff]]
    BY <1>1, <2>1, <2>2 DEF HeldInv
  <2>5. HasData(q)'
    BY <1>1, <1>2, <2>1 DEF HasData
  <2>6. Undisturbed(q)
    BY <1>1, <2>2, <2>3, <2>4, <2>5 DEF Undisturbed
  <2> QED BY <2>6, StillKnows
<1>7. ScanInv'
  <2> SUFFICES ASSUME NEW s \in Scanners PROVE ScanRight(s)'
    BY DEF ScanInv
  <2>1. BeingWritten' = BeingWritten /\ Position(s)' = Position(s)
    BY <1>1 DEF BeingWritten, Position
  <2>2. ScanRight(s)
    BY DEF DbInv, ScanInv
  <2> QED BY <1>1, <1>2, <1>3, <2>1, <2>2 DEF ScanRight
<1> QED BY <1>4, <1>5, <1>6, <1>7 DEF DbInv

-----------------------------------------------------------------------------
\* A new database: no record, and every list is empty.
LEMMA DbInvInit == ASSUME Init PROVE DbInv
<1>0. /\ head = [o \in 0 .. NHash |-> 0] /\ idx = <<>> /\ dat = <<>>
      /\ rd = [o \in 0 .. NHash |-> {}] /\ wr = [o \in 0 .. NHash |-> {}]
      /\ pc = [p \in Procs \cup Scanners |-> "idle"] /\ db = [p \in Procs \cup Scanners |-> NoDB]
      /\ map = [k \in Keys |-> None] /\ call = [p \in Procs |-> None]
      /\ ret = [p \in Procs |-> "none"]
      /\ must = [s \in Scanners |-> {}] /\ got = [s \in Scanners |-> {}]
  BY DEF Init, KS!Init
<1>1. NoDB \in DB
  BY DEF NoDB, DB
<1>2. TypeOK
  BY <1>0, <1>1, DbAssumption DEF TypeOK
<1>3. Len(idx) = 0 /\ NHash \in Nat \ {0}
  BY <1>0, DbAssumption
<1>4. Recs = {}
  BY <1>3 DEF Recs
<1>5. Free = {} /\ \A h \in 1 .. NHash : Chained[h] = {}
  BY <1>4 DEF Free, Chained
<1>6. \A o \in 0 .. NHash : Ptr[o] = 0
  BY <1>0, <1>2, IndexFacts
<1>7. (\A p \in Procs : pc[p] = "idle" /\ call[p] = None) /\ \A s \in Scanners : pc[s] = "idle"
  BY <1>0
<1>8. CallInv
  BY <1>0, <1>7 DEF CallInv, InCall, Effected, DeleteSteps, InsertSteps, AppendSteps
<1>9. LocksInv
  BY <1>0, <1>7 DEF LocksInv, Inside, Freeing
<1>10. HeldInv
  BY <1>4, <1>7 DEF HeldInv, Holding
<1>11. ListInv
  <2>1. \A h \in 1 .. NHash : h \in 0 .. NHash /\ Ptr[h] = 0
    BY <1>3, <1>6
  <2>2. \A h \in 1 .. NHash : IsChain(h, Chained[h], Ptr)
    BY <1>5, <2>1 DEF IsChain, Linked
  <2>3. Ptr[FREE_OFF] = 0
    BY <1>3, <1>6 DEF FREE_OFF
  <2>4. IsChain(FREE_OFF, Free, Ptr)
    BY <1>5, <2>3 DEF IsChain, Linked
  <2> QED BY <1>5, <2>2, <2>4 DEF ListInv
<1>12. KnowsInv
  BY <1>7 DEF KnowsInv, Knows, HasData, Expects, FoundSteps, Unchaining, AbsentSteps, ChainptrSteps,
     InsertSteps, AppendSteps, DeleteSteps
<1>13. DataInv
  BY <1>4, <1>7 DEF DataInv
<1>14. MapInv
  BY <1>0, <1>5 DEF MapInv
<1>15. ScanInv
  BY <1>0, <1>7 DEF ScanInv, ScanRight
<1> QED BY <1>2, <1>8, <1>9, <1>10, <1>11, <1>12, <1>13, <1>14, <1>15 DEF DbInv

\* The inductive invariant of the library: which records are on which list, what
\* each process in the middle of db_find_and_lock, db_dodelete, db_findfree and
\* db_store may rely on, and how the files hold the map its callers see.
THEOREM DbInvariance == Spec => []DbInv
<1> QED BY DbInvInit, DbInvNext, DbInvStutter, PTL DEF Spec

-----------------------------------------------------------------------------
\* What db_nextrec has in hand is the record of its key: on the chain, where no
\* db_dodelete is at work on it, or held by the db_store that is about to chain it.
LEMMA NextrecFacts ==
    ASSUME DbInv, NEW s \in Scanners, pc[s] = "n_dat", db[s].off - 1 <= PtrMax,
           NEW x, x = db[s].off - 1, NEW k, k = db[s].key
    PROVE  /\ x \in Recs /\ Key[x] = k /\ k \in Keys /\ db[s].datoff = Dat[x] /\ Hash[k] \in 1 .. NHash
           /\ \A q \in Procs : pc[q] \notin Freeing
           /\ \/ x \in Chained[Hash[k]]
              \/ \E q \in Procs : pc[q] = "chain" /\ db[q].idxoff = x /\ call[q].key = k
<1>0. TypeOK /\ CallInv /\ LocksInv /\ HeldInv /\ ScanRight(s)
  BY DEF DbInv, ScanInv
<1>1. x \in Recs /\ Key[x] = k /\ k # Blank /\ db[s].datoff = Dat[x]
  BY <1>0 DEF ScanRight
<1>2. k \in Keys
  BY <1>0, <1>1, IndexFacts
<1>3. Hash[k] \in 1 .. NHash
  BY <1>2, DbAssumption
<1>4. ASSUME NEW q \in Procs, pc[q] \in Freeing PROVE FALSE
  BY <1>0, <1>4, Alone
<1>5. CASE x \in Held
  <2>1. PICK q \in Procs : pc[q] \in Holding /\ db[q].idxoff = x
    BY <1>5 DEF Held
  <2>2. pc[q] = "chain" /\ call[q].key = k
    BY <1>0, <1>1, <2>1 DEF HeldInv
  <2> QED BY <1>1, <1>2, <1>3, <1>4, <2>1, <2>2
<1>6. CASE x \notin Held
  <2>1. x \in Chained[Hash[k]]
    BY <1>1, <1>3, <1>6 DEF Chained
  <2> QED BY <1>1, <1>2, <1>3, <1>4, <2>1
<1> QED BY <1>5, <1>6

\* NextrecRight in general: under the lock of the free list alone, db_nextrec
\* returns no record that is half deleted, half replaced or half inserted.
THEOREM NextrecIsRight == Spec => []NextrecRight
<1>1. DbInv => NextrecRight
  <2> SUFFICES ASSUME DbInv, NEW s \in Scanners, pc[s] = "n_dat", db[s].off - 1 <= PtrMax
               PROVE  dat[db[s].datoff] = map[db[s].key]
    BY DEF NextrecRight
  <2>1. PICK x, k : x = db[s].off - 1 /\ k = db[s].key
    OBVIOUS
  <2>2. /\ x \in Recs /\ Key[x] = k /\ k \in Keys /\ db[s].datoff = Dat[x] /\ Hash[k] \in 1 .. NHash
        /\ \A q \in Procs : pc[q] \notin Freeing
        /\ \/ x \in Chained[Hash[k]]
           \/ \E q \in Procs : pc[q] = "chain" /\ db[q].idxoff = x /\ call[q].key = k
    BY <2>1, NextrecFacts
  <2>3. CASE x \in Chained[Hash[k]]
    <3>1. \A q \in Procs : pc[q] \notin {"d_free", "d_idx"}
      BY <2>2 DEF Freeing
    <3>2. dat[Dat[x]] = map[Key[x]]
      BY <2>2, <2>3, <3>1 DEF DbInv, MapInv
    <3> QED BY <2>1, <2>2, <3>2
  <2>4. ASSUME NEW q \in Procs, pc[q] = "chain", db[q].idxoff = x, call[q].key = k
        PROVE  dat[Dat[x]] = map[k]
    <3>1. HasData(q) /\ Expects(q)
      BY DEF DbInv, KnowsInv
    <3>2. dat[Dat[x]] = call[q].val
      BY <2>4, <3>1 DEF HasData
    <3>3. db[q].idxoff <= PtrMax
      BY <2>1, <2>4
    <3>4. map[k] = call[q].val
      BY <2>4, <3>1, <3>3 DEF Expects
    <3> QED BY <3>2, <3>4
  <2> QED BY <2>1, <2>2, <2>3, <2>4
<1> QED BY <1>1, DbInvariance, PTL

\* ScanComplete in general: a scan returns every record that nobody wrote
\* meanwhile, and returns it once, although other records come, go and move.
THEOREM ScansComplete == Spec => []ScanComplete
<1>1. DbInv => ScanComplete
  <2> SUFFICES ASSUME DbInv, NEW s \in Scanners
               PROVE  /\ pc[s] = "eof" => must[s] \subseteq got[s]
                      /\ pc[s] = "n_dat" /\ db[s].off - 1 <= PtrMax => db[s].key \notin got[s]
    BY DEF ScanComplete
  <2>1. ScanRight(s) /\ TypeOK /\ CallInv
    BY DEF DbInv, ScanInv
  <2>2. pc[s] = "eof" => must[s] \subseteq got[s]
    BY <2>1 DEF ScanRight
  <2>3. ASSUME pc[s] = "n_dat", db[s].off - 1 <= PtrMax, db[s].key \in got[s]
        PROVE  FALSE
    <3>1. PICK x, k : x = db[s].off - 1 /\ k = db[s].key
      OBVIOUS
    <3>2. /\ x \in Recs /\ Key[x] = k /\ k \in Keys /\ Hash[k] \in 1 .. NHash
          /\ \/ x \in Chained[Hash[k]]
             \/ \E q \in Procs : pc[q] = "chain" /\ db[q].idxoff = x /\ call[q].key = k
      BY <2>3, <3>1, NextrecFacts
    <3>3. k \in must[s] /\ k \notin BeingWritten
      BY <2>1, <2>3, <3>1 DEF ScanRight
    <3>4. ASSUME NEW q \in Procs, pc[q] = "chain", call[q].key = k PROVE FALSE
      <4>1. call[q] # None /\ call[q].op # "fetch"
        BY <2>1, <3>4 DEF CallInv, InCall
      <4> QED BY <3>3, <3>4, <4>1 DEF BeingWritten
    <3>5. x \in Chained[Hash[k]]
      BY <3>2, <3>4
    <3>6. Key[x] \in got[s] => x < Position(s)
      BY <2>1, <2>3, <3>2, <3>3, <3>5 DEF ScanRight
    <3>7. Position(s) = x
      BY <2>3, <3>1 DEF Position
    <3>8. x \in Nat
      BY <2>1, <3>2, IndexFacts
    <3> QED BY <2>3, <3>1, <3>2, <3>6, <3>7, <3>8
  <2> QED BY <2>2, <2>3
<1> QED BY <1>1, DbInvariance, PTL

-----------------------------------------------------------------------------
\* A step of a call is no step of KeyStore, or it is its one effect, or its end.
LEMMA StepImplements ==
    ASSUME DbInv, NEW p \in Procs, Step(p)
    PROVE  UNCHANGED KS!vars \/ KS!TakeEffect(p) \/ KS!Return(p) \/ KS!Quit(p)
<1>0. TypeOK /\ CallInv /\ InCall(p) /\ Expects(p)
  BY DEF DbInv, CallInv, KnowsInv
<1>1. ASSUME Quiet PROVE UNCHANGED KS!vars
  BY <1>1 DEF Quiet, KS!vars
<1>2. pc[p] \notin {"idle", "gone"} => call[p] # None /\ call[p].key \in Keys
  BY <1>0, CallFacts DEF InCall
<1>3. call[p] # None => map = [map EXCEPT ![call[p].key] = map[call[p].key]]
  BY <1>0, CallFacts DEF TypeOK
<1>4. CASE Lock(p) \/ First(p) \/ Walk(p) \/ LockFree(p) \/ BlankData(p) \/ ReadFree(p) \/ SetFree(p)
           \/ Unchain(p) \/ ReadChain(p) \/ FirstFree(p) \/ WalkFree(p) \/ NoneFree(p) \/ TakeFree(p)
           \/ AppendData(p) \/ Chain(p)
  BY <1>1, <1>4 DEF Lock, First, Walk, LockFree, BlankData, ReadFree, SetFree, Unchain, ReadChain, FirstFree,
     WalkFree, NoneFree, TakeFree, AppendData, Chain
<1>5. CASE Missing(p)
  <2>1. map' = map /\ map[call[p].key] = None
    BY <1>5, MissingStep
  <2>2. pc[p] = "walk"
    BY <1>5 DEF Missing
  <2>3. ret[p] = "none" /\ call[p] # None
    BY <1>0, <2>2 DEF InCall, Effected
  <2>4. CASE Quiet
    BY <1>1, <2>4
  <2>5. CASE call[p].op = "fetch" /\ Result(p, None)
    BY <2>1, <2>3, <2>5 DEF Result, Effect, KS!TakeEffect, KS!Fetch, KS!Answer
  <2>6. CASE call[p].op = "delete" /\ Result(p, "err")
    <3>1. map' = [map EXCEPT ![call[p].key] = None]
      BY <1>3, <2>1, <2>3
    <3> QED BY <2>1, <2>3, <2>6, <3>1 DEF Result, Effect, KS!TakeEffect, KS!Delete, KS!Answer
  <2>7. CASE call[p].flag = "DB_REPLACE" /\ Result(p, "err")
    <3>1. call[p].op = "store"
      BY <1>0, <2>3, <2>7, CallFacts DEF KS!Flags
    <3> QED BY <2>1, <2>3, <2>7, <3>1 DEF Result, Effect, KS!TakeEffect, KS!Store, KS!Answer
  <2> QED BY <1>5, <2>4, <2>5, <2>6, <2>7 DEF Missing
<1>6. CASE Found(p)
  <2>1. map' = map /\ map[call[p].key] # None
    BY <1>6, FoundStep
  <2>2. pc[p] = "walk"
    BY <1>6 DEF Found
  <2>3. ret[p] = "none" /\ call[p] # None
    BY <1>0, <2>2 DEF InCall, Effected
  <2>4. CASE Quiet
    BY <1>1, <2>4
  <2>5. CASE call[p].flag = "DB_INSERT" /\ Result(p, "exists")
    <3>1. call[p].op = "store"
      BY <1>0, <2>3, <2>5, CallFacts DEF KS!Flags
    <3> QED BY <2>1, <2>3, <2>5, <3>1 DEF Result, Effect, KS!TakeEffect, KS!Store, KS!Answer
  <2> QED BY <1>6, <2>4, <2>5 DEF Found
<1>7. CASE db_readdat(p)
  <2>1. pc[p] = "readdat" /\ Result(p, dat[db[p].datoff])
    BY <1>7 DEF db_readdat
  <2>2. map' = map /\ dat[db[p].datoff] = map[call[p].key]
    BY <1>7, <2>1, ReaddatStep, ReadsMap
  <2>3. call[p] # None /\ ret[p] = "none" /\ call[p].op = "fetch"
    BY <1>0, <2>1 DEF InCall, Effected
  <2> QED BY <2>1, <2>2, <2>3 DEF Result, Effect, KS!TakeEffect, KS!Fetch, KS!Answer
<1>8. CASE Return(p)
  <2>1. ret[p] # "none"
    BY <1>0, <1>8 DEF Return, InCall, Effected
  <2> QED BY <1>8, <2>1 DEF Return, KS!Return, KS!Answer
<1>9. CASE BlankIndex(p)
  <2>1. pc[p] = "d_idx" /\ (Quiet \/ (call[p].op = "delete" /\ Effect(p, None, "ok")))
    BY <1>9 DEF BlankIndex
  <2>2. ret[p] = "none" /\ call[p] # None /\ map[call[p].key] # None
    BY <1>0, <2>1 DEF InCall, Effected, Expects, FoundSteps
  <2>3. CASE call[p].op = "delete" /\ Effect(p, None, "ok")
    BY <2>2, <2>3 DEF Effect, KS!TakeEffect, KS!Delete, KS!Answer
  <2> QED BY <1>1, <2>1, <2>3
<1>10. ASSUME Effect(p, call[p].val, "ok"), ret[p] = "none", call[p] # None, call[p].op = "store",
              ~(call[p].flag = "DB_INSERT" /\ map[call[p].key] # None),
              ~(call[p].flag = "DB_REPLACE" /\ map[call[p].key] = None)
       PROVE  KS!TakeEffect(p)
  BY <1>10 DEF Effect, KS!TakeEffect, KS!Store, KS!Answer
<1>11. CASE OverwriteData(p)
  <2>1. \/ Quiet
        \/ pc[p] = "o_dat" /\ Effect(p, call[p].val, "ok")
    BY <1>11 DEF OverwriteData
  <2>2. CASE pc[p] = "o_dat" /\ Effect(p, call[p].val, "ok")
    <3>1. ret[p] = "none" /\ call[p] # None /\ call[p].op = "store"
      BY <1>0, <2>2 DEF InCall, Effected
    <3>2. map[call[p].key] # None /\ call[p].flag # "DB_INSERT"
      BY <1>0, <2>2, <3>1 DEF Expects, FoundSteps
    <3> QED BY <1>10, <2>2, <3>1, <3>2
  <2> QED BY <1>1, <2>1, <2>2
<1>12. CASE ReuseIndex(p)
  <2>1. pc[p] = "r_idx" /\ Effect(p, call[p].val, "ok")
    BY <1>12 DEF ReuseIndex
  <2>2. ret[p] = "none" /\ call[p] # None /\ call[p].op = "store"
    BY <1>0, <2>1 DEF InCall, Effected, InsertSteps
  <2>3. map[call[p].key] = None /\ call[p].flag # "DB_REPLACE"
    BY <1>0, <2>1 DEF Expects, InsertSteps
  <2> QED BY <1>10, <2>1, <2>2, <2>3
<1>13. CASE AppendIndex(p)
  <2>1. pc[p] = "a_idx" /\ (Quiet \/ Effect(p, call[p].val, "ok"))
    BY <1>13 DEF AppendIndex
  <2>2. CASE Effect(p, call[p].val, "ok")
    <3>1. ret[p] = "none" /\ call[p] # None /\ call[p].op = "store"
      BY <1>0, <2>1 DEF InCall, Effected, AppendSteps
    <3>2. call[p].flag # IF map[call[p].key] # None THEN "DB_INSERT" ELSE "DB_REPLACE"
      BY <1>0, <2>1 DEF Expects, AppendSteps
    <3> QED BY <1>10, <2>2, <3>1, <3>2
  <2> QED BY <1>1, <2>1, <2>2
<1>14. CASE Quit(p)
  <2>1. pc[p] = "chain" /\ db[p].idxoff > PtrMax
    BY <1>14 DEF Quit
  <2>2. ~(db[p].idxoff <= PtrMax)
    <3>1. db[p].idxoff \in Nat
      BY <1>0 DEF TypeOK, DB
    <3> QED BY <2>1, <3>1, DbAssumption
  <2>3. ret[p] = "none" /\ call[p] # None /\ call[p].op = "store"
    BY <1>0, <2>1, <2>2 DEF InCall, Effected
  <2> QED BY <1>14, <2>3 DEF Quit, KS!Quit
<1> QED BY <1>4, <1>5, <1>6, <1>7, <1>8, <1>9, <1>11, <1>12, <1>13, <1>14 DEF Step

\* A scan leaves the callers of the other functions as they are.
LEMMA ScanImplements ==
    ASSUME NEW s \in Scanners, Scan(s)
    PROVE  UNCHANGED KS!vars
BY DEF Scan, Rewind, NextLock, NextIndex, NextData, NextEOF, Done, Quiet, KS!vars

\* Linearizable in general: for any number of processes, keys and hash chains
\* db_fetch, db_store and db_delete act as on one map, each at one moment between
\* its call and its return, although each reads and writes the files many times.
THEOREM StoreLinearizable == Spec => Linearizable
<1>1. Init => KS!Init
  BY DEF Init
<1>2. DbInv /\ [Next]_vars => [KS!Next]_(KS!vars)
  <2> SUFFICES ASSUME DbInv, [Next]_vars PROVE [KS!Next]_(KS!vars)
    OBVIOUS
  <2>1. ASSUME NEW p \in Procs, NEW c \in Offered, Call(p, c) PROVE KS!Next
    <3>1. call[p] = None /\ c \in KS!Calls
      BY <2>1, OfferedAssumption DEF Call, DbInv, CallInv, InCall
    <3>2. KS!Call(p, c)
      BY <2>1, <3>1 DEF Call, KS!Call
    <3> QED BY <3>1, <3>2 DEF KS!Next
  <2>2. ASSUME NEW p \in Procs, Step(p) PROVE [KS!Next]_(KS!vars)
    BY <2>2, StepImplements DEF KS!Next
  <2>3. ASSUME NEW s \in Scanners, Scan(s) PROVE UNCHANGED KS!vars
    BY <2>3, ScanImplements
  <2>4. CASE UNCHANGED vars
    BY <2>4 DEF vars, KS!vars
  <2> QED BY <2>1, <2>2, <2>3, <2>4 DEF Next
<1> QED BY DbInvariance, <1>1, <1>2, PTL DEF Spec, Linearizable, KS!Spec

-----------------------------------------------------------------------------
\* The walk along the pointers that List takes, and the chains of the invariant.

\* Induction on the natural numbers, for a set instead of a predicate.
LEMMA NatSetInduction ==
    ASSUME NEW S, 0 \in S, \A n \in Nat : n \in S => n + 1 \in S
    PROVE  Nat \subseteq S
<1> SUFFICES ASSUME NEW z \in Nat, z \notin S
             PROVE  FALSE
  OBVIOUS
<1> DEFINE T == {n \in Nat : n \notin S}
           R == OpToRel(<, Nat)
<1>1. T \subseteq Nat /\ T # {}
  OBVIOUS
<1>2. IsWellFoundedOn(R, Nat)
  BY NatLessThanWellFounded
<1>3. PICK x \in T : \A y \in T : ~(<<y, x>> \in R)
  <2> HIDE DEF T, R
  <2> QED BY <1>1, <1>2, WFMin
<1>4. x \in Nat /\ x # 0
  OBVIOUS
<1>5. x - 1 \in Nat /\ x = (x - 1) + 1 /\ x - 1 < x
  BY <1>4
<1>6. x - 1 \in T
  BY <1>4, <1>5
<1>7. <<x - 1, x>> \in R
  BY <1>4, <1>5 DEF OpToRel
<1> QED BY <1>3, <1>6, <1>7

\* The walk of N steps that List takes from the pointer at o.
Walks(o, N, at) == at = [n \in 0 .. N |-> IF n = 0 THEN head[o]
                                          ELSE IF at[n - 1] = 0 THEN 0 ELSE Rec(at[n - 1]).ptr]

\* There is such a walk, so that the recursive function of List is one.
LEMMA WalkExists ==
    ASSUME NEW o, NEW N \in Nat
    PROVE  \E at : Walks(o, N, at)
<1> DEFINE S == {m \in Nat : \E at : Walks(o, m, at)}
<1>1. 0 \in S
  <2> DEFINE g == [n \in 0 .. 0 |-> head[o]]
  <2>1. \A n \in 0 .. 0 : n = 0
    OBVIOUS
  <2>2. g = [n \in 0 .. 0 |-> IF n = 0 THEN head[o]
                              ELSE IF g[n - 1] = 0 THEN 0 ELSE Rec(g[n - 1]).ptr]
    BY <2>1, Zenon
  <2> HIDE DEF g
  <2> QED BY <2>2 DEF Walks
<1>2. ASSUME NEW m \in Nat, m \in S
      PROVE  m + 1 \in S
  <2>1. PICK at : Walks(o, m, at)
    BY <1>2
  <2> DEFINE nx == IF at[m] = 0 THEN 0 ELSE Rec(at[m]).ptr
             g == [n \in 0 .. m + 1 |-> IF n = m + 1 THEN nx ELSE at[n]]
  <2>2. ASSUME NEW n \in 0 .. m + 1
        PROVE  g[n] = IF n = 0 THEN head[o] ELSE IF g[n - 1] = 0 THEN 0 ELSE Rec(g[n - 1]).ptr
    <3>1. CASE n = m + 1
      <4>1. n # 0 /\ n - 1 = m /\ m \in 0 .. m + 1 /\ m # m + 1
        BY <3>1
      <4>2. g[n] = nx /\ g[n - 1] = at[m]
        BY <3>1, <4>1
      <4> QED BY <4>1, <4>2
    <3>2. CASE n # m + 1
      <4>1. n \in 0 .. m /\ (n # 0 => n - 1 \in 0 .. m + 1 /\ n - 1 # m + 1)
        BY <3>2
      <4>2. g[n] = at[n] /\ (n # 0 => g[n - 1] = at[n - 1])
        BY <3>2, <4>1
      <4>3. at[n] = IF n = 0 THEN head[o] ELSE IF at[n - 1] = 0 THEN 0 ELSE Rec(at[n - 1]).ptr
        BY <2>1, <4>1 DEF Walks
      <4> HIDE DEF g
      <4> QED BY <4>2, <4>3
    <3> QED BY <3>1, <3>2
  <2>3. g = [n \in 0 .. m + 1 |-> g[n]]
    OBVIOUS
  <2> HIDE DEF g
  <2>4. g = [n \in 0 .. m + 1 |-> IF n = 0 THEN head[o]
                                  ELSE IF g[n - 1] = 0 THEN 0 ELSE Rec(g[n - 1]).ptr]
    BY <2>2, <2>3
  <2> QED BY <2>4 DEF Walks
<1>3. Nat \subseteq S
  <2> HIDE DEF S
  <2> QED BY <1>1, <1>2, NatSetInduction
<1> QED BY <1>3

\* What List is, for the walk it takes.
LEMMA ListIsWalk ==
    ASSUME NEW o, Len(idx) \in Nat
    PROVE  \E at : /\ Walks(o, Len(idx), at)
                   /\ List(o) = [recs |-> {at[n] : n \in 0 .. Len(idx)} \ {0},
                                 ends |-> at[Len(idx)] = 0]
<1> DEFINE at == CHOOSE at : at = [n \in 0 .. Len(idx) |->
                     IF n = 0 THEN head[o] ELSE IF at[n - 1] = 0 THEN 0 ELSE Rec(at[n - 1]).ptr]
<1>1. Walks(o, Len(idx), at)
  <2>0. PICK w : Walks(o, Len(idx), w)
    BY WalkExists
  <2>1. w = [n \in 0 .. Len(idx) |->
                IF n = 0 THEN head[o] ELSE IF w[n - 1] = 0 THEN 0 ELSE Rec(w[n - 1]).ptr]
    BY <2>0 DEF Walks
  <2>2. at = [n \in 0 .. Len(idx) |->
                 IF n = 0 THEN head[o] ELSE IF at[n - 1] = 0 THEN 0 ELSE Rec(at[n - 1]).ptr]
    BY <2>1, Zenon
  <2> HIDE DEF at
  <2> QED BY <2>2 DEF Walks
<1>2. List(o) = [recs |-> {at[n] : n \in 0 .. Len(idx)} \ {0}, ends |-> at[Len(idx)] = 0]
  BY DEF List
<1> QED BY <1>1, <1>2

\* A walk along a chain.
LEMMA WalkOfChain ==
    ASSUME TypeOK, NEW h \in 0 .. NHash, NEW C \in SUBSET Recs, IsChain(h, C, Ptr),
           NEW at, Walks(h, Len(idx), at)
    PROVE  /\ at[0] = Ptr[h]
           /\ \A n \in 0 .. Len(idx) : at[n] \in C \cup {0}
           /\ \A n \in 0 .. Len(idx) : n + 1 \in 0 .. Len(idx) =>
                  at[n + 1] = IF at[n] = 0 THEN 0 ELSE Ptr[at[n]]
<1> DEFINE N == Len(idx)
<1>0. N \in Nat /\ Linked(h, C, Ptr) /\ 0 \notin C
  BY IndexFacts DEF TypeOK, IsChain
<1>1. at[0] = Ptr[h]
  BY <1>0, IndexFacts DEF Walks
<1>2. ASSUME NEW n \in 0 .. N, n + 1 \in 0 .. N
      PROVE  at[n + 1] = IF at[n] = 0 THEN 0 ELSE Rec(at[n]).ptr
  <2>1. n + 1 # 0 /\ (n + 1) - 1 = n
    BY <1>0
  <2> QED BY <1>0, <1>2, <2>1 DEF Walks
<1> DEFINE S == {n \in Nat : n \in 0 .. N => at[n] \in C \cup {0}}
<1>3. 0 \in S
  BY <1>0, <1>1 DEF Linked
<1>4. \A r \in C : Rec(r).ptr = Ptr[r] /\ Ptr[r] \in C \cup {0}
  BY <1>0, IndexFacts DEF Linked
<1>5. ASSUME NEW n \in Nat, n \in S
      PROVE  n + 1 \in S
  <2> SUFFICES ASSUME n + 1 \in 0 .. N
               PROVE  at[n + 1] \in C \cup {0}
    OBVIOUS
  <2>1. n \in 0 .. N
    BY <1>0
  <2>2. at[n] \in C \cup {0}
    BY <1>5, <2>1
  <2> QED BY <1>2, <1>4, <2>1, <2>2
<1>6. Nat \subseteq S
  <2> HIDE DEF S
  <2> QED BY <1>3, <1>5, NatSetInduction
<1>7. \A n \in 0 .. N : at[n] \in C \cup {0}
  BY <1>0, <1>6
<1> QED BY <1>1, <1>2, <1>4, <1>7

\* It does not come to the same record twice.
LEMMA WalkNoCircle ==
    ASSUME TypeOK, NEW h \in 0 .. NHash, NEW C \in SUBSET Recs, IsChain(h, C, Ptr),
           NEW at, Walks(h, Len(idx), at)
    PROVE  \A m, n \in 0 .. Len(idx) : m < n /\ at[n] # 0 => at[m] # at[n]
<1> DEFINE N == Len(idx)
<1>0. /\ N \in Nat /\ h \notin C /\ 0 \notin C
      /\ \A y, z \in {h} \cup C : Ptr[y] = Ptr[z] /\ Ptr[y] # 0 => y = z
  BY IndexFacts DEF TypeOK, IsChain, Linked
<1>1. at[0] = Ptr[h] /\ \A n \in 0 .. N : at[n] \in C \cup {0}
  BY WalkOfChain
<1>2. ASSUME NEW n \in 0 .. N, n # 0, at[n] # 0
      PROVE  n - 1 \in 0 .. N /\ at[n - 1] \in C /\ at[n] = Ptr[at[n - 1]]
  <2>1. n - 1 \in 0 .. N /\ (n - 1) + 1 = n
    BY <1>0, <1>2
  <2>2. at[n] = IF at[n - 1] = 0 THEN 0 ELSE Ptr[at[n - 1]]
    BY <2>1, WalkOfChain
  <2> QED BY <1>1, <1>2, <2>1, <2>2
<1> DEFINE S == {m \in Nat : \A n \in 0 .. N : m < n /\ at[n] # 0 => at[m] # at[n]}
<1>3. 0 \in S
  <2> SUFFICES ASSUME NEW n \in 0 .. N, 0 < n, at[n] # 0, at[0] = at[n]
               PROVE  FALSE
    OBVIOUS
  <2>1. at[n - 1] \in C /\ at[n] = Ptr[at[n - 1]]
    BY <1>0, <1>2
  <2> QED BY <1>0, <1>1, <2>1
<1>4. ASSUME NEW m \in Nat, m \in S
      PROVE  m + 1 \in S
  <2> SUFFICES ASSUME NEW n \in 0 .. N, m + 1 < n, at[n] # 0, at[m + 1] = at[n]
               PROVE  FALSE
    OBVIOUS
  <2>1. at[n - 1] \in C /\ at[n] = Ptr[at[n - 1]] /\ n - 1 \in 0 .. N /\ m < n - 1
    BY <1>0, <1>2
  <2>2. m + 1 \in 0 .. N /\ m + 1 # 0 /\ (m + 1) - 1 = m
    BY <1>0
  <2>3. at[m] \in C /\ at[m + 1] = Ptr[at[m]]
    BY <1>2, <2>2
  <2>4. at[m] = at[n - 1]
    BY <1>0, <2>1, <2>3
  <2>5. at[n - 1] # 0
    BY <1>0, <2>1
  <2> QED BY <1>4, <2>1, <2>4, <2>5
<1>5. Nat \subseteq S
  <2> HIDE DEF S
  <2> QED BY <1>3, <1>4, NatSetInduction
<1> QED BY <1>0, <1>5

\* So it comes to its end within the records there are.
LEMMA WalkComesToEnd ==
    ASSUME TypeOK, NEW h \in 0 .. NHash, NEW C \in SUBSET Recs, IsChain(h, C, Ptr),
           NEW at, Walks(h, Len(idx), at)
    PROVE  at[Len(idx)] = 0
<1> DEFINE N == Len(idx)
<1>0. N \in Nat /\ NHash \in Nat /\ \A n \in 0 .. N : at[n] \in C \cup {0}
  <2>1. N \in Nat /\ NHash \in Nat
    BY DbAssumption DEF TypeOK
  <2>2. \A n \in 0 .. N : at[n] \in C \cup {0}
    BY WalkOfChain
  <2> QED BY <2>1, <2>2
<1> SUFFICES ASSUME at[N] # 0
             PROVE  FALSE
  OBVIOUS
<1> DEFINE S == {n \in Nat : n \in 0 .. N => at[N - n] # 0}
<1>1. 0 \in S
  BY <1>0
<1>2. ASSUME NEW n \in Nat, n \in S
      PROVE  n + 1 \in S
  <2> SUFFICES ASSUME n + 1 \in 0 .. N, at[N - (n + 1)] = 0
               PROVE  FALSE
    OBVIOUS
  <2>1. n \in 0 .. N /\ N - (n + 1) \in 0 .. N /\ (N - (n + 1)) + 1 = N - n /\ N - n \in 0 .. N
    BY <1>0
  <2>2. at[N - n] = 0
    BY <2>1, WalkOfChain
  <2> QED BY <1>2, <2>1, <2>2
<1>3. Nat \subseteq S
  <2> HIDE DEF S
  <2> QED BY <1>1, <1>2, NatSetInduction
<1>4. ASSUME NEW n \in 0 .. N
      PROVE  at[n] \in Recs
  <2>1. N - n \in Nat /\ N - n \in 0 .. N /\ N - (N - n) = n
    BY <1>0
  <2>2. at[n] # 0
    BY <1>3, <2>1
  <2> QED BY <1>0, <2>2
<1> DEFINE g == [n \in 0 .. N |-> at[n]]
<1>5. g \in [0 .. N -> Recs]
  BY <1>4
<1>6. IsFiniteSet(0 .. N) /\ Cardinality(0 .. N) = N + 1
  <2>1. 0 \in Int /\ N \in Int /\ ~(0 > N) /\ N - 0 + 1 = N + 1
    BY <1>0
  <2>2. IsFiniteSet(0 .. N) /\ Cardinality(0 .. N) = N - 0 + 1
    BY <2>1, FS_Interval
  <2> QED BY <2>1, <2>2
<1>7. IsFiniteSet(Recs) /\ Cardinality(Recs) = N
  <2>1. NHash + 1 \in Int /\ NHash + N \in Int /\ (NHash + N) - (NHash + 1) + 1 = N
    BY <1>0
  <2>2. NHash + 1 > NHash + N <=> N = 0
    BY <1>0
  <2>3. /\ IsFiniteSet(NHash + 1 .. NHash + N)
        /\ Cardinality(NHash + 1 .. NHash + N) =
               IF NHash + 1 > NHash + N THEN 0 ELSE (NHash + N) - (NHash + 1) + 1
    BY <2>1, FS_Interval
  <2> QED BY <2>1, <2>2, <2>3 DEF Recs
<1>8. \E x, y \in 0 .. N : x # y /\ g[x] = g[y]
  <2>1. Cardinality(Recs) < Cardinality(0 .. N)
    BY <1>0, <1>6, <1>7
  <2> HIDE DEF g
  <2> QED BY <1>5, <1>6, <1>7, <2>1, FS_PigeonHole
<1>9. PICK x \in 0 .. N, y \in 0 .. N : x < y /\ at[x] = at[y]
  BY <1>0, <1>8
<1>10. at[y] # 0
  BY <1>4, <1>9, IndexFacts
<1> QED BY <1>9, <1>10, WalkNoCircle

\* On the way it has been at each record of the chain.
LEMMA ListOfChain ==
    ASSUME TypeOK, NEW h \in 0 .. NHash, NEW C \in SUBSET Recs, IsChain(h, C, Ptr)
    PROVE  List(h).ends /\ List(h).recs = C
<1> DEFINE N == Len(idx)
<1>0. N \in Nat /\ h \notin C /\ 0 \notin C
  BY IndexFacts DEF TypeOK
<1>1. PICK at : /\ Walks(h, N, at)
                /\ List(h) = [recs |-> {at[n] : n \in 0 .. N} \ {0}, ends |-> at[N] = 0]
  BY <1>0, ListIsWalk
<1>2. at[N] = 0
  BY <1>1, WalkComesToEnd
<1>3. /\ at[0] = Ptr[h]
      /\ \A n \in 0 .. N : at[n] \in C \cup {0}
      /\ \A n \in 0 .. N : n + 1 \in 0 .. N => at[n + 1] = IF at[n] = 0 THEN 0 ELSE Ptr[at[n]]
  BY <1>1, WalkOfChain
<1> DEFINE T == {at[n] : n \in 0 .. N}
<1>4. T \subseteq C \cup {0} /\ 0 \in T /\ Ptr[h] \in T
  BY <1>0, <1>2, <1>3
<1>5. ASSUME NEW y \in T \ {0}
      PROVE  Ptr[y] \in T
  <2>1. PICK n \in 0 .. N : y = at[n]
    OBVIOUS
  <2>2. n + 1 \in 0 .. N
    BY <1>0, <1>2, <2>1
  <2>3. at[n + 1] = Ptr[y]
    BY <1>3, <2>1, <2>2
  <2> QED BY <2>2, <2>3
<1>6. ASSUME NEW r \in C
      PROVE  r \in T
  <2>1. Reaches(h, C, Ptr, Ptr[h], r)
    BY DEF IsChain
  <2>2. T \in SUBSET ({h} \cup C \cup {0})
    BY <1>4
  <2> HIDE DEF T
  <2> QED BY <1>4, <1>5, <2>1, <2>2 DEF Reaches
<1>7. T \ {0} = C
  BY <1>0, <1>4, <1>6
<1>8. List(h).ends = (at[N] = 0) /\ List(h).recs = T \ {0}
  BY <1>1
<1> QED BY <1>2, <1>7, <1>8

\* Nobody writes on a chain whose write lock is free.
LEMMA ChainAtRest ==
    ASSUME DbInv, NEW h \in 1 .. NHash, wr[h] = {}
    PROVE  /\ \A p \in Procs : Inside(p) /\ call[p].op # "fetch" => ChainOff(p) # h
           /\ \A p \in Procs : Unchaining(p) \/ Between(p) \/ pc[p] \in {"d_free", "d_idx"} => ChainOff(p) # h
           /\ List(h).ends /\ List(h).recs = Chained[h]
<1>0. TypeOK /\ CallInv /\ LocksInv /\ ListInv
  BY DEF DbInv
<1>1. ASSUME NEW p \in Procs, Inside(p), call[p].op # "fetch"
      PROVE  ChainOff(p) # h
  BY <1>0, <1>1 DEF LocksInv
<1>2. ASSUME NEW p \in Procs, Unchaining(p) \/ Between(p) \/ pc[p] \in {"d_free", "d_idx"}
      PROVE  ChainOff(p) # h
  <2>1. Inside(p)
    BY <1>2 DEF Inside, Unchaining, Between, AppendSteps
  <2>2. call[p].op # "fetch"
    BY <1>0, <1>2 DEF CallInv, InCall, DeleteSteps, Unchaining, Between, AppendSteps
  <2> QED BY <1>1, <2>1, <2>2
<1>3. IsChain(h, Chained[h], Ptr)
  BY <1>0, <1>2 DEF ListInv
<1>4. h \in 0 .. NHash /\ Chained[h] \in SUBSET Recs
  BY <1>0, ListFacts
<1>5. List(h).ends /\ List(h).recs = Chained[h]
  BY <1>0, <1>3, <1>4, ListOfChain
<1> QED BY <1>1, <1>2, <1>5

\* ChainsRight in general: a chain that nobody writes on ends, for files of any
\* length, and holds the keys of the map and their data, each of them once.
THEOREM ChainsAreRight == Spec => []ChainsRight
<1>1. DbInv => ChainsRight
  <2> SUFFICES ASSUME DbInv, NEW h \in 1 .. NHash, wr[h] = {}, NEW C, C = List(h).recs
               PROVE  /\ List(h).ends
                      /\ \A k \in Keys : Hash[k] = h =>
                             {dat[Rec(o).dat] : o \in {r \in C : Rec(r).key = k}}
                                 = IF map[k] = None THEN {} ELSE {map[k]}
                      /\ \A o, r \in C : Rec(o).key = Rec(r).key => o = r
                      /\ \A o \in C : Rec(o).key \in Keys /\ Hash[Rec(o).key] = h
    BY DEF ChainsRight
  <2>0. TypeOK /\ ListInv /\ MapInv /\ DataInv /\ KnowsInv
    BY DEF DbInv
  <2>1. List(h).ends /\ C = Chained[h]
    BY ChainAtRest
  <2>2. \A r \in C : /\ r \in Recs /\ Key[r] \in Keys /\ Hash[Key[r]] = h
                    /\ Rec(r).key = Key[r] /\ Rec(r).dat = Dat[r]
    BY <2>0, <2>1, ListFacts, IndexFacts
  <2>3. \A o, r \in C : Key[o] = Key[r] => o = r
    BY <2>0, <2>1 DEF ListInv
  <2>4. ASSUME NEW r \in C
        PROVE  dat[Dat[r]] = map[Key[r]] /\ map[Key[r]] # None
    <3>1. ASSUME NEW p \in Procs, pc[p] \in {"d_free", "d_idx"}, db[p].idxoff = r
          PROVE  FALSE
      <4>1. AtRecord(p)
        BY <2>0, <3>1 DEF KnowsInv, Knows, FoundSteps
      <4>2. Key[r] = call[p].key
        BY <3>1, <4>1 DEF AtRecord
      <4>3. ChainOff(p) = h
        BY <2>2, <4>2 DEF ChainOff
      <4> QED BY <3>1, <4>3, ChainAtRest
    <3>2. dat[Dat[r]] = map[Key[r]]
      BY <2>0, <2>1, <3>1 DEF MapInv
    <3>3. Dat[r] \in 1 .. Len(dat)
      BY <2>0, <2>2 DEF DataInv
    <3>4. dat[Dat[r]] \in Vals \cup {Blank}
      BY <2>0, <3>3 DEF TypeOK
    <3> QED BY <3>2, <3>4, DbAssumption
  <2>5. ASSUME NEW k \in Keys, Hash[k] = h
        PROVE  {dat[Rec(o).dat] : o \in {r \in C : Rec(r).key = k}}
                   = IF map[k] = None THEN {} ELSE {map[k]}
    <3>1. CASE \E x \in C : Key[x] = k
      <4>1. PICK x \in C : Key[x] = k
        BY <3>1
      <4>2. {r \in C : Rec(r).key = k} = {x}
        BY <2>2, <2>3, <4>1
      <4>3. dat[Rec(x).dat] = map[k] /\ map[k] # None
        BY <2>2, <2>4, <4>1
      <4> QED BY <4>2, <4>3
    <3>2. CASE \A x \in C : Key[x] # k
      <4>1. ASSUME NEW p \in Procs, Between(p) PROVE call[p].key # k
        BY <2>5, <4>1, ChainAtRest DEF ChainOff
      <4>2. map[k] = None
        BY <2>0, <2>1, <2>5, <3>2, <4>1 DEF MapInv
      <4>3. {r \in C : Rec(r).key = k} = {}
        BY <2>2, <3>2
      <4> QED BY <4>2, <4>3
    <3> QED BY <3>1, <3>2
  <2> QED BY <2>1, <2>2, <2>3, <2>5
<1> QED BY <1>1, DbInvariance, PTL

\* FreeListRight in general: at rest each record a pointer can reach is on one
\* list, with data of its own, and the free list holds the blank ones.
THEOREM FreeListIsRight == Spec => []FreeListRight
<1>1. DbInv => FreeListRight
  <2> SUFFICES ASSUME DbInv, \A o \in 0 .. NHash : wr[o] = {}
               PROVE  /\ List(FREE_OFF).ends
                      /\ \A o \in Recs : o <= PtrMax =>
                             /\ Cardinality({h \in 0 .. NHash : o \in List(h).recs}) = 1
                             /\ o \in List(FREE_OFF).recs <=> Rec(o).key = Blank
                      /\ \A i, j \in DOMAIN idx : idx[i].dat = idx[j].dat => i = j
    BY DEF FreeListRight, Recs
  <2>0. TypeOK /\ CallInv /\ LocksInv /\ ListInv /\ DataInv
    BY DEF DbInv
  <2>1. /\ NHash \in Nat \ {0} /\ FREE_OFF \in 0 .. NHash /\ FREE_OFF \notin 1 .. NHash
        /\ \A h \in 1 .. NHash : h \in 0 .. NHash
        /\ \A h \in 0 .. NHash : h = FREE_OFF \/ h \in 1 .. NHash
    BY DbAssumption DEF FREE_OFF
  <2>2. List(FREE_OFF).ends /\ List(FREE_OFF).recs = Free
    <3>1. IsChain(FREE_OFF, Free, Ptr) /\ Free \in SUBSET Recs
      BY <2>0, ListFacts DEF ListInv
    <3> QED BY <2>0, <2>1, <3>1, ListOfChain
  <2>3. \A h \in 1 .. NHash : List(h).recs = Chained[h]
    BY <2>1, ChainAtRest
  <2>4. Held = {}
    <3> SUFFICES ASSUME NEW p \in Procs, pc[p] \in Holding
                 PROVE  FALSE
      BY DEF Held
    <3>1. Inside(p) /\ call[p].op # "fetch" /\ call[p] # None
      BY <2>0 DEF CallInv, InCall, Holding, Inside, DeleteSteps, InsertSteps
    <3>2. ChainOff(p) \in 1 .. NHash
      BY <2>0, <3>1, CallFacts
    <3> QED BY <2>1, <3>1, <3>2, ChainAtRest
  <2>5. ASSUME NEW o \in Recs, o <= PtrMax
        PROVE  /\ Cardinality({h \in 0 .. NHash : o \in List(h).recs}) = 1
               /\ o \in List(FREE_OFF).recs <=> Rec(o).key = Blank
    <3>1. Rec(o).key = Key[o] /\ Key[o] \in Keys \cup {Blank}
      BY <2>0, IndexFacts
    <3>2. o \in List(FREE_OFF).recs <=> Key[o] = Blank
      BY <2>2, <2>4 DEF Free
    <3>3. \A h \in 1 .. NHash : o \in List(h).recs <=> Key[o] # Blank /\ Hash[Key[o]] = h
      BY <2>3, <2>4, <2>5 DEF Chained
    <3>4. \E x : {h \in 0 .. NHash : o \in List(h).recs} = {x}
      <4>1. CASE Key[o] = Blank
        <5>1. \A h \in 0 .. NHash : o \in List(h).recs <=> h = FREE_OFF
          BY <2>1, <3>2, <3>3, <4>1
        <5>2. {h \in 0 .. NHash : o \in List(h).recs} = {FREE_OFF}
          BY <2>1, <5>1
        <5> QED BY <5>2
      <4>2. CASE Key[o] # Blank
        <5>1. PICK x : x = Hash[Key[o]]
          OBVIOUS
        <5>2. x \in 1 .. NHash
          BY <3>1, <4>2, <5>1, DbAssumption
        <5>3. \A h \in 0 .. NHash : o \in List(h).recs <=> h = x
          BY <2>1, <3>2, <3>3, <4>2, <5>1, <5>2
        <5>4. {h \in 0 .. NHash : o \in List(h).recs} = {x}
          BY <2>1, <5>2, <5>3
        <5> QED BY <5>4
      <4> QED BY <4>1, <4>2
    <3>5. Cardinality({h \in 0 .. NHash : o \in List(h).recs}) = 1
      BY <3>4, FS_Singleton
    <3> QED BY <3>1, <3>2, <3>5
  <2>6. ASSUME NEW i \in DOMAIN idx, NEW j \in DOMAIN idx, idx[i].dat = idx[j].dat
        PROVE  i = j
    <3>1. /\ NHash + i \in Recs /\ NHash + j \in Recs
          /\ (NHash + i) - NHash = i /\ (NHash + j) - NHash = j
      BY <2>0, <2>1 DEF Recs, TypeOK
    <3>2. Dat[NHash + i] = idx[i].dat /\ Dat[NHash + j] = idx[j].dat
      BY <3>1 DEF Dat, Rec
    <3>3. NHash + i = NHash + j
      BY <2>0, <2>6, <3>1, <3>2 DEF DataInv
    <3> QED BY <3>1, <3>3
  <2> QED BY <2>2, <2>5, <2>6
<1> QED BY <1>1, DbInvariance, PTL

-----------------------------------------------------------------------------
\* The locks from the other side: who holds one is where it will give it back
\* without waiting, or, with the lock of a chain, waits for the free list alone.
HolderInv ==
    /\ \A o \in 1 .. NHash : \A q \in rd[o] \cup wr[o] :
           q \in Procs /\ Inside(q) /\ ChainOff(q) = o
    /\ \A q \in rd[FREE_OFF] \cup wr[FREE_OFF] :
           \/ q \in Procs /\ pc[q] \in Freeing
           \/ q \in Scanners /\ pc[q] \in {"n_idx", "n_dat"}

\* At a lock that another process holds.
Waits(p) ==
    \/ /\ pc[p] = "lock"
       /\ ~ /\ wr[ChainOff(p)] \subseteq {p}
            /\ call[p].op = "fetch" \/ rd[ChainOff(p)] \subseteq {p}
    \/ /\ pc[p] \in {"d_lock", "f_lock"}
       /\ ~ (rd[FREE_OFF] \cup wr[FREE_OFF] \subseteq {p})

\* Of the calls under way and the scans that hold their lock, one goes on.
SomeoneGoesOn ==
    LET busy == {p \in Procs : call[p] # None}
        reading == {s \in Scanners : pc[s] \in {"n_idx", "n_dat"}}
    IN  busy \cup reading # {} => \E p \in busy \cup reading : ~Waits(p)

\* The locks are taken and given back that way.
LEMMA HolderStep ==
    ASSUME DbInv, HolderInv, Next
    PROVE  HolderInv'
<1>0. /\ TypeOK /\ CallInv /\ Procs \cap Scanners = {}
      /\ rd \in [0 .. NHash -> SUBSET (Procs \cup Scanners)] /\ wr \in [0 .. NHash -> SUBSET Procs]
      /\ DOMAIN pc = Procs \cup Scanners /\ FREE_OFF \in 0 .. NHash /\ FREE_OFF \notin 1 .. NHash
      /\ \A o \in 1 .. NHash : o \in 0 .. NHash
      /\ call \in [Procs -> KS!Calls \cup {None}]
  BY DbAssumption DEF DbInv, TypeOK, FREE_OFF
<1>1. ASSUME NEW p \in Procs, NEW c, (c \in Offered /\ Call(p, c)) \/ Step(p)
      PROVE  HolderInv'
  <2>0. /\ InCall(p) /\ OnlyMoves(p)
        /\ \A q \in (Procs \cup Scanners) \ {p} : pc'[q] = pc[q]
        /\ \A q \in Procs \ {p} : call'[q] = call[q]
    BY <1>0, <1>1, StepMoves DEF CallInv, OnlyMoves
  \* A step after which p holds what it held, and is where it may.
  <2>1. CASE /\ UNCHANGED <<rd, wr>>
             /\ Inside(p) => Inside(p)' /\ call'[p] = call[p]
             /\ pc[p] \in Freeing => pc'[p] \in Freeing
    BY <1>0, <2>0, <2>1 DEF HolderInv, Inside, ChainOff
  <2>2. CASE Lock(p)
    <3>1. call[p] # None /\ pc[p] = "lock" /\ pc'[p] = "first" /\ call' = call
      BY <1>0, <2>0, <2>2 DEF Lock, InCall, Go, Quiet
    <3>2. PICK h \in 1 .. NHash : h = ChainOff(p) /\ h = Hash[call[p].key]
      BY <1>0, <3>1, CallFacts DEF ChainOff
    <3>3. IF call[p].op = "fetch" THEN ReadLock(p, h) ELSE WriteLock(p, h)
      BY <2>2, <3>2 DEF Lock
    <3>4. \A o \in 0 .. NHash : /\ rd'[o] \cup wr'[o] \subseteq rd[o] \cup wr[o] \cup {p}
                                /\ o # h => rd'[o] = rd[o] /\ wr'[o] = wr[o]
      <4> SUFFICES ASSUME NEW o \in 0 .. NHash
                   PROVE  /\ rd'[o] \cup wr'[o] \subseteq rd[o] \cup wr[o] \cup {p}
                          /\ o # h => rd'[o] = rd[o] /\ wr'[o] = wr[o]
        OBVIOUS
      <4>1. CASE ReadLock(p, h)
        <5>1. wr'[o] = wr[o] /\ rd'[o] = IF o = h THEN rd[o] \cup {p} ELSE rd[o]
          BY <1>0, <4>1 DEF ReadLock
        <5> QED BY <5>1
      <4>2. CASE WriteLock(p, h)
        <5>1. rd'[o] = rd[o] /\ wr'[o] = IF o = h THEN {p} ELSE wr[o]
          BY <1>0, <4>2 DEF WriteLock
        <5> QED BY <5>1
      <4> QED BY <3>3, <4>1, <4>2
    <3>5. ASSUME NEW o \in 1 .. NHash, NEW q \in rd'[o] \cup wr'[o]
          PROVE  q \in Procs /\ Inside(q)' /\ Hash[call'[q].key] = o
      <4>1. CASE q = p
        <5>1. o = h \/ p \in rd[o] \cup wr[o]
          BY <1>0, <3>4, <3>5, <4>1
        <5>2. o = h
          BY <3>1, <5>1 DEF HolderInv, Inside
        <5> QED BY <3>1, <3>2, <4>1, <5>2 DEF Inside
      <4>2. CASE q # p
        <5>1. q \in Procs /\ Inside(q) /\ ChainOff(q) = o
          BY <1>0, <3>4, <3>5, <4>2 DEF HolderInv
        <5> QED BY <2>0, <4>2, <5>1 DEF Inside, ChainOff
      <4> QED BY <4>1, <4>2
    <3>6. ASSUME NEW q \in rd'[FREE_OFF] \cup wr'[FREE_OFF]
          PROVE  \/ q \in Procs /\ pc'[q] \in Freeing
                 \/ q \in Scanners /\ pc'[q] \in {"n_idx", "n_dat"}
      <4>1. q \in rd[FREE_OFF] \cup wr[FREE_OFF]
        BY <1>0, <3>4, <3>6
      <4>2. q # p
        BY <1>0, <3>1, <4>1 DEF HolderInv, Freeing
      <4> QED BY <2>0, <4>1, <4>2 DEF HolderInv
    <3> QED BY <3>5, <3>6 DEF HolderInv, ChainOff
  <2>3. CASE LockFree(p)
    <3>1. /\ pc[p] \in {"d_lock", "f_lock"} /\ pc'[p] \in {"d_dat", "f_first"} /\ call' = call
          /\ WriteLock(p, FREE_OFF)
      BY <1>0, <2>3 DEF LockFree, Go, Quiet
    <3>2. /\ rd'[FREE_OFF] \cup wr'[FREE_OFF] \subseteq {p}
          /\ \A o \in 1 .. NHash : rd'[o] = rd[o] /\ wr'[o] = wr[o]
      BY <1>0, <3>1 DEF WriteLock
    <3>3. pc'[p] \in Freeing
      BY <3>1 DEF Freeing
    <3>4. ASSUME NEW o \in 1 .. NHash, NEW q \in rd'[o] \cup wr'[o]
          PROVE  q \in Procs /\ Inside(q)' /\ Hash[call'[q].key] = o
      <4>1. q \in Procs /\ Inside(q) /\ ChainOff(q) = o
        BY <3>2, <3>4 DEF HolderInv
      <4> QED BY <2>0, <3>1, <4>1 DEF Inside, ChainOff
    <3> QED BY <3>2, <3>3, <3>4 DEF HolderInv, ChainOff
  <2>4. ASSUME NEW o \in 0 .. NHash, Unlock(p, o),
               Inside(p) => o = ChainOff(p) \/ (Inside(p)' /\ call'[p] = call[p]),
               pc[p] \in Freeing => o = FREE_OFF
        PROVE  HolderInv'
    <3>1. \A a \in 0 .. NHash : /\ wr'[a] \subseteq wr[a] /\ rd'[a] \subseteq rd[a]
                                /\ p \in rd'[a] \cup wr'[a] => a # o
      BY <1>0, <2>4 DEF Unlock
    <3>2. ASSUME NEW a \in 1 .. NHash, NEW q \in rd'[a] \cup wr'[a]
          PROVE  q \in Procs /\ Inside(q)' /\ Hash[call'[q].key] = a
      <4>1. q \in Procs /\ Inside(q) /\ ChainOff(q) = a
        BY <1>0, <3>1, <3>2 DEF HolderInv
      <4>2. q = p => a # o
        BY <1>0, <3>1, <3>2
      <4> QED BY <2>0, <2>4, <4>1, <4>2 DEF Inside, ChainOff
    <3>3. ASSUME NEW q \in rd'[FREE_OFF] \cup wr'[FREE_OFF]
          PROVE  \/ q \in Procs /\ pc'[q] \in Freeing
                 \/ q \in Scanners /\ pc'[q] \in {"n_idx", "n_dat"}
      <4>1. /\ q \in rd[FREE_OFF] \cup wr[FREE_OFF]
            /\ q = p => o # FREE_OFF
        BY <1>0, <3>1, <3>3
      <4>2. q # p
        BY <1>0, <2>4, <4>1 DEF HolderInv
      <4> QED BY <2>0, <4>1, <4>2 DEF HolderInv
    <3> QED BY <3>2, <3>3 DEF HolderInv, ChainOff
  <2>5. CASE Return(p) \/ Quit(p)
    <3>1. /\ Unlock(p, ChainOff(p)) /\ call[p] # None /\ pc[p] \notin Freeing
      BY <1>0, <2>0, <2>5 DEF Return, Quit, InCall, Freeing
    <3>2. ChainOff(p) \in 0 .. NHash
      BY <1>0, <3>1, CallFacts
    <3> QED BY <3>1, <3>2, <2>4
  <2>6. CASE Unchain(p) \/ NoneFree(p) \/ TakeFree(p)
    <3>1. /\ Unlock(p, FREE_OFF) /\ call' = call
          /\ pc'[p] \in {"return", "s_reread", "a_dat", "r_dat"}
      BY <1>0, <2>0, <2>6 DEF Unchain, NoneFree, TakeFree, Go, Quiet
    <3> QED BY <1>0, <3>1, <2>4 DEF Inside
  <2> USE DEF Go, Quiet, Effect, Result, Inside, Freeing
  <2>7. CASE Call(p, c)
    BY <1>0, <2>1, <2>7 DEF Call, locks
  <2>8. CASE First(p)
    BY <1>0, <2>1, <2>8 DEF First, locks
  <2>9. CASE Walk(p)
    BY <1>0, <2>1, <2>9 DEF Walk, locks
  <2>10. CASE Missing(p)
    BY <1>0, <2>1, <2>10 DEF Missing, locks
  <2>11. CASE Found(p)
    BY <1>0, <2>1, <2>11 DEF Found, locks
  <2>12. CASE db_readdat(p)
    BY <1>0, <2>1, <2>12 DEF db_readdat, locks
  <2>13. CASE BlankData(p)
    BY <1>0, <2>1, <2>13 DEF BlankData, locks
  <2>14. CASE ReadFree(p)
    BY <1>0, <2>1, <2>14 DEF ReadFree, locks
  <2>15. CASE BlankIndex(p)
    BY <1>0, <2>1, <2>15 DEF BlankIndex, locks
  <2>16. CASE SetFree(p)
    BY <1>0, <2>1, <2>16 DEF SetFree, locks
  <2>17. CASE ReadChain(p)
    BY <1>0, <2>1, <2>17 DEF ReadChain, locks
  <2>18. CASE FirstFree(p)
    BY <1>0, <2>1, <2>18 DEF FirstFree, locks
  <2>19. CASE WalkFree(p)
    BY <1>0, <2>1, <2>19 DEF WalkFree, locks
  <2>20. CASE OverwriteData(p)
    BY <1>0, <2>1, <2>20 DEF OverwriteData, locks
  <2>21. CASE ReuseIndex(p)
    BY <1>0, <2>1, <2>21 DEF ReuseIndex, locks
  <2>22. CASE AppendData(p)
    BY <1>0, <2>1, <2>22 DEF AppendData, locks
  <2>23. CASE AppendIndex(p)
    BY <1>0, <2>1, <2>23 DEF AppendIndex, locks
  <2>24. CASE Chain(p)
    BY <1>0, <2>1, <2>24 DEF Chain, locks
  <2> QED BY <1>1, <2>2, <2>3, <2>5, <2>6, <2>7, <2>8, <2>9, <2>10, <2>11, <2>12, <2>13, <2>14, <2>15, <2>16, <2>17, <2>18, <2>19, <2>20, <2>21, <2>22, <2>23, <2>24 DEF Step
<1>2. ASSUME NEW s \in Scanners, Scan(s)
      PROVE  HolderInv'
  <2>0. db \in [Procs \cup Scanners -> DB] /\ s \notin Procs
    BY <1>0 DEF TypeOK
  <2>1. UNCHANGED call /\ \A q \in (Procs \cup Scanners) \ {s} : pc'[q] = pc[q]
    BY <1>0, <1>2, <2>0 DEF Scan, Rewind, NextLock, NextIndex, NextData, NextEOF, Done, Go, Quiet
  <2>2. \/ /\ UNCHANGED <<rd, wr>>
           /\ pc[s] \in {"n_idx", "n_dat"} => pc'[s] \in {"n_idx", "n_dat"}
        \/ ReadLock(s, FREE_OFF) /\ pc'[s] = "n_idx"
        \/ Unlock(s, FREE_OFF)
    BY <1>0, <1>2, <2>0 DEF Scan, Rewind, NextLock, NextIndex, NextData, NextEOF, Done, Go, Quiet, locks
  <2>3. \A o \in 1 .. NHash : rd'[o] = rd[o] /\ wr'[o] = wr[o]
    BY <1>0, <2>2 DEF ReadLock, Unlock
  <2>4. /\ rd'[FREE_OFF] \cup wr'[FREE_OFF] \subseteq rd[FREE_OFF] \cup wr[FREE_OFF] \cup {s}
        /\ s \in rd'[FREE_OFF] \cup wr'[FREE_OFF] => pc'[s] \in {"n_idx", "n_dat"}
    <3>1. s \in rd[FREE_OFF] \cup wr[FREE_OFF] => pc[s] \in {"n_idx", "n_dat"}
      BY <2>0 DEF HolderInv
    <3>2. CASE UNCHANGED <<rd, wr>> /\ (pc[s] \in {"n_idx", "n_dat"} => pc'[s] \in {"n_idx", "n_dat"})
      BY <3>1, <3>2
    <3>3. CASE ReadLock(s, FREE_OFF) /\ pc'[s] = "n_idx"
      <4>1. wr' = wr /\ rd'[FREE_OFF] = rd[FREE_OFF] \cup {s}
        BY <1>0, <3>3 DEF ReadLock
      <4> QED BY <3>3, <4>1
    <3>4. CASE Unlock(s, FREE_OFF)
      <4>1. rd'[FREE_OFF] = rd[FREE_OFF] \ {s} /\ wr'[FREE_OFF] = wr[FREE_OFF] \ {s}
        BY <1>0, <3>4 DEF Unlock
      <4> QED BY <4>1
    <3> QED BY <2>2, <3>2, <3>3, <3>4
  <2>5. ASSUME NEW o \in 1 .. NHash, NEW q \in rd'[o] \cup wr'[o]
        PROVE  q \in Procs /\ Inside(q)' /\ Hash[call'[q].key] = o
    <3>1. q \in Procs /\ Inside(q) /\ ChainOff(q) = o
      BY <2>3, <2>5 DEF HolderInv
    <3> QED BY <2>0, <2>1, <3>1 DEF Inside, ChainOff
  <2>6. ASSUME NEW q \in rd'[FREE_OFF] \cup wr'[FREE_OFF]
        PROVE  \/ q \in Procs /\ pc'[q] \in Freeing
               \/ q \in Scanners /\ pc'[q] \in {"n_idx", "n_dat"}
    BY <2>1, <2>4, <2>6 DEF HolderInv
  <2> QED BY <2>5, <2>6 DEF HolderInv, ChainOff
<1> QED BY <1>1, <1>2 DEF Next

\* NoCircularWait without ENABLED: the lock of a chain comes before that of the
\* free list, and who holds the latter waits for nobody, so the record locks of
\* db_find_and_lock, db_dodelete, db_findfree and db_nextrec never close a circle.
THEOREM NoCircleOfLocks == Spec => []SomeoneGoesOn
<1>1. Init => HolderInv
  BY DbAssumption DEF Init, HolderInv, FREE_OFF
<1>2. DbInv /\ HolderInv /\ [Next]_vars => HolderInv'
  <2>1. HolderInv /\ UNCHANGED vars => HolderInv'
    BY DEF vars, locks, HolderInv, Inside, ChainOff
  <2> QED BY <2>1, HolderStep
<1>3. DbInv /\ HolderInv => SomeoneGoesOn
  <2> SUFFICES ASSUME DbInv, HolderInv, NEW p,
                      \/ p \in Procs /\ call[p] # None
                      \/ p \in Scanners /\ pc[p] \in {"n_idx", "n_dat"}
               PROVE  \E q : /\ \/ q \in Procs /\ call[q] # None
                                \/ q \in Scanners /\ pc[q] \in {"n_idx", "n_dat"}
                             /\ ~Waits(q)
    BY DEF SomeoneGoesOn
  <2>0. TypeOK /\ CallInv
    BY DEF DbInv
  \* Whoever holds the free list does not wait.
  <2>1. ASSUME NEW q \in rd[FREE_OFF] \cup wr[FREE_OFF]
        PROVE  /\ \/ q \in Procs /\ call[q] # None
                  \/ q \in Scanners /\ pc[q] \in {"n_idx", "n_dat"}
               /\ ~Waits(q)
    BY <2>0, <2>1 DEF HolderInv, Waits, Freeing, CallInv, InCall
  \* Past the lock of its chain, a caller goes on, or who holds the free list does.
  <2>2. ASSUME NEW q \in Procs, call[q] # None, pc[q] # "lock"
        PROVE  \E r : /\ \/ r \in Procs /\ call[r] # None
                         \/ r \in Scanners /\ pc[r] \in {"n_idx", "n_dat"}
                      /\ ~Waits(r)
    <3>1. CASE Waits(q)
      <4>1. PICK r \in rd[FREE_OFF] \cup wr[FREE_OFF] : r # q
        BY <2>2, <3>1 DEF Waits
      <4> QED BY <2>1, <4>1
    <3>2. CASE ~Waits(q)
      BY <2>2, <3>2
    <3> QED BY <3>1, <3>2
  <2>3. CASE p \in Procs /\ call[p] # None /\ pc[p] = "lock"
    <3>1. CASE Waits(p)
      <4>1. PICK q \in rd[ChainOff(p)] \cup wr[ChainOff(p)] : q # p
        BY <2>3, <3>1 DEF Waits
      <4>2. ChainOff(p) \in 1 .. NHash
        BY <2>0, <2>3, CallFacts
      <4>3. q \in Procs /\ Inside(q)
        BY <4>1, <4>2 DEF HolderInv
      <4>4. call[q] # None /\ pc[q] # "lock"
        BY <2>0, <4>3 DEF CallInv, InCall, Inside
      <4> QED BY <2>2, <4>3, <4>4
    <3>2. CASE ~Waits(p)
      BY <2>3, <3>2
    <3> QED BY <3>1, <3>2
  <2>4. CASE p \in Scanners /\ pc[p] \in {"n_idx", "n_dat"}
    BY <2>4 DEF Waits
  <2> QED BY <2>2, <2>3, <2>4
<1> QED BY <1>1, <1>2, <1>3, DbInvariance, PTL DEF Spec
=============================================================================
