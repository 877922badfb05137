---------------------------- MODULE MCMessenger ----------------------------
(***************************************************************************)
(* A server and two clients that know its address.  The first sends two    *)
(* items, texts or files, and may hear where the server is, where the      *)
(* second client is, and begin again; the second sends one text.  In the   *)
(* run of the shipped client everybody knows all addresses from the start. *)
(***************************************************************************)
EXTENDS Messenger

First == 2
Second == 3
Started == [n \in Nid |-> 1]
Says == {<<First, Server, 1>>, <<First, Second, 0>>}
Asks == {<<First, Server>>}
Begins == [n \in Nid |-> IF n = Server THEN {} ELSE {Server}]
Everybody == [n \in Nid |-> Nid]
Tells == {<<First, Second>>, <<Server, Second>>}
Sending == [n \in Client |-> IF n = First THEN {"text", "file"} ELSE {"text"}]
Items == [n \in Client |-> IF n = First THEN 2 ELSE 1]
=============================================================================
