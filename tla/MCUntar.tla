------------------------------- MODULE MCUntar -------------------------------
(***************************************************************************)
(* Untar for TLC: paths that only the order of their directories tells     *)
(* apart.                                                                  *)
(***************************************************************************)
EXTENDS Untar

Paths == <<<<<<"A">>, <<"B">>>>, <<<<"B">>, <<"A">>>>, <<<<"A">>, <<"A">>>>>>
=============================================================================
