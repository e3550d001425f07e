----------------------------- MODULE MCMsgMove -----------------------------
(***************************************************************************)
(* MsgMove for TLC.  Connections, processes, logins and mails are          *)
(* interchangeable.                                                        *)
(***************************************************************************)
EXTENDS MsgMove, TLC

Symmetry == Permutations(Conns) \cup Permutations(Procs)
               \cup Permutations(Logins) \cup Permutations(Mails)
=============================================================================
