---------------------------- MODULE MCServerPool ----------------------------
(* Four clients, one of them bad, a pool of two, a ring of three places, and *)
(* messages of up to two bytes.                                              *)
EXTENDS ServerPool
CONSTANTS c1, c2, c3, c4
=============================================================================
