------------------------------- MODULE MCMpsc -------------------------------
(***************************************************************************)
(* Small instances of Mpsc.  Four nodes let two puts be in flight while    *)
(* the consumer frees and the freed address is handed out again.           *)
(***************************************************************************)
EXTENDS Mpsc, TLC

Symmetry == Permutations(Producer) \cup Permutations(Node) \cup Permutations(Job)
=============================================================================
