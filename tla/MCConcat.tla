------------------------------ MODULE MCConcat ------------------------------
(***************************************************************************)
(* A small instance of Concat: two items, two given streams, three nodes.  *)
(***************************************************************************)
EXTENDS Concat
=============================================================================
