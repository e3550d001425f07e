----------------------------- MODULE MCAnalysis -----------------------------
(***************************************************************************)
(* Accounts for Analysis.  PoolFilters has a folder of each kind, with and *)
(* without a folder below it; PoolOrder has a path of three folders whose  *)
(* ids do not follow its depth; PoolNames has a name outside ASCII.        *)
(***************************************************************************)
EXTENDS Analysis

Folder(id, path) == [id |-> id, path |-> path]

Trash == Folder(3, <<"Trash">>)
Inbox == Folder(2, <<"Inbox">>)

PoolFilters ==
    {Inbox, Trash, Folder(5, <<"Sent">>), Folder(257, <<"Inbox", "a">>),
     Folder(258, <<"Sent", "b">>), Folder(259, <<"Trash", "c">>),
     Folder(260, <<"bad", "d">>), Folder(261, <<"bad">>)}

PoolOrder ==
    {Trash, Folder(257, <<"A", "B">>), Folder(258, <<"F">>),
     Folder(259, <<"A", "B", "C">>), Folder(260, <<"A">>)}

PoolNames == {Trash, Inbox, Folder(257, <<"e-acute">>)}

Names ==
    {"Inbox", "Trash", "Sent", "Sent Messages", "a", "b", "c", "d", "bad",
     "A", "B", "C", "F", "000", "e-acute"}

ModifiedUtf7 == [n \in Names |-> IF n = "e-acute" THEN "&AOk-" ELSE n]
=============================================================================
