------------------------------ MODULE MCIuctl ------------------------------
(***************************************************************************)
(* The instance of Iuctl for TLC: two clients with any two commands, two   *)
(* successive servers, and a queue with room for three of the four         *)
(* messages that two clients can have in it at a time.                     *)
(***************************************************************************)
EXTENDS Iuctl
=============================================================================
