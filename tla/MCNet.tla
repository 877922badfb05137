------------------------------- MODULE MCNet -------------------------------
(***************************************************************************)
(* Instances of Net for TLC.  The runs whose properties are invariants and *)
(* action properties have one peer; the one with two peers has a liveness  *)
(* property too, and so no symmetry.                                       *)
(***************************************************************************)
EXTENDS Net
=============================================================================
