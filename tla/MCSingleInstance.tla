-------------------------- MODULE MCSingleInstance --------------------------
(* Three processes: two that start together and one that comes later. *)
EXTENDS SingleInstance
CONSTANTS p1, p2, p3
=============================================================================
