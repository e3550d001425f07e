-------------------------------- MODULE MCDb --------------------------------
(* An instance of Db: two keys share a chain and one has its own; data of two *)
(* lengths.                                                                   *)
EXTENDS Db

CONSTANTS k1, k2, k3, short, long, p1, p2, s1

MCHash == (k1 :> 1) @@ (k2 :> 1) @@ (k3 :> 2)
MCKeyLen == (k1 :> 1) @@ (k2 :> 1) @@ (k3 :> 1)
MCDatLen == (short :> 2) @@ (long :> 3)

Access(op, k) == [op |-> op, key |-> k, val |-> None, flag |-> "none"]
Store(k, v, flag) == [op |-> "store", key |-> k, val |-> v, flag |-> flag]

MCOffered == {Access("fetch", k1), Access("delete", k1),
              Access("delete", k3),
              Store(k1, short, "DB_STORE"), Store(k1, long, "DB_REPLACE"),
              Store(k2, short, "DB_INSERT"), Store(k3, short, "DB_STORE")}

Alike == Permutations({p1, p2})
=============================================================================
