------------------------------ MODULE MCRelay ------------------------------
(***************************************************************************)
(* A small instance of Relay.                                              *)
(***************************************************************************)
EXTENDS Relay

Items == [s \in Source |-> 1]
FileAndSome == <<{3}, {0, Text}>>
=============================================================================
