----------------------------- MODULE MCBroadcast -----------------------------
(***************************************************************************)
(* Small instances of Broadcast.  One listener makes every call; of two,   *)
(* which skip as they get, and do not ask whether a given stream is ready  *)
(* (the answer is undefined), the calls that wait.                         *)
(***************************************************************************)
EXTENDS Broadcast

AllCalls == <<{"get", "peek", "skip", "depleted", "ready", "empty"}, {"get"}>>
OutLengths == <<3, 2>>
InLengths == <<2, 1>>
=============================================================================
