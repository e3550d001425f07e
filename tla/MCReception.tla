---------------------------- MODULE MCReception ----------------------------
(***************************************************************************)
(* Reception for TLC.  Connections, logins and hosts are interchangeable,  *)
(* so the safety runs reduce by their permutations.                        *)
(***************************************************************************)
EXTENDS Reception, TLC

Symmetry == Permutations(Conns) \cup Permutations(Logins) \cup Permutations(Hosts)
=============================================================================
