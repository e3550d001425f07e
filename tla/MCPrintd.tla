------------------------------ MODULE MCPrintd ------------------------------
(* Two clients, documents of one read, and a daemon that may end once. *)
EXTENDS Printd
CONSTANTS c1, c2
=============================================================================
