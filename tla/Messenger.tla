----------------------------- MODULE Messenger -----------------------------
(***************************************************************************)
(* Clients that exchange items (messenger.cpp), directly or over a server  *)
(* that relays them (relay.cpp, as module Relay has it: an item is always  *)
(* followed by its text or file).  The server's main_loop (server.cpp)     *)
(* runs net_idle and do_todos; the one of client.cpp runs neither.  A      *)
(* client in Maintaining has the loop that tst/messenger.cpp:58 writes for *)
(* itself, with both.                                                      *)
(*                                                                         *)
(* A connection is, for each direction, what send_msg and send_stream have *)
(* queued and what is on the wire; a file is one entry, whole when its     *)
(* stream is closed.  A handler that waits for the text of an item takes   *)
(* both at once.  Nobody leaves, and no two nodes connect to each other at *)
(* the same time (module Net has these cases).                             *)
(***************************************************************************)
EXTENDS Datacenters, SequencesExt

CONSTANTS
    Client, Server,
    Maintaining,    \* the clients with a loop of their own, like the server's
    Home,           \* node -> the datacenter it is started with
    Locations,      \* <<client, node, datacenter>> an application may say
    Asked,          \* <<node, node>> net_addresses may ask where one is
    Known,          \* node -> nodes whose addresses it begins with
    Told,           \* <<node, node>> addresses it may be told later
    Kinds,          \* client -> what its items may be
    MaxItems,       \* client -> bound on the items it sends
    Destroying,     \* the clients that may call messenger_destroy, once
    NULL

ASSUME MessengerAssumption ==
    /\ Nid = Client \cup {Server} /\ Server \notin Client /\ IsFiniteSet(Client)
    /\ Maintaining \subseteq Client /\ Destroying \subseteq Client
    /\ Home \in [Nid -> datacenter] /\ MaxItems \in [Client -> Nat]
    /\ Locations \subseteq Client \X Nid \X datacenter
    /\ Known \in [Nid -> SUBSET Nid] /\ Told \subseteq Nid \X Nid /\ Asked \subseteq Nid \X Nid
    /\ Kinds \in [Client -> SUBSET {"text", "file"}]

Item == [from : Client, to : Client, index : Nat, itype : {"text", "file"}, id : Nat]

\* The nodes whose loop runs net_idle and do_todos.
Looping == {Server} \cup Maintaining

VARIABLES
    maps,               \* node -> its maps of datacenters.cpp
    addresses,          \* node -> the nodes it has an address of
    sequence_numbers,   \* client -> receiver -> number
    received,           \* client -> sender -> what it holds by index
    messages,           \* client -> other -> [received, item] in order
    call,               \* client -> the item it is sending and to whom, or NULL
    queue, wire,        \* node -> node -> entries [what, item, whole]
    suspended,          \* node -> nodes suspended by recv_file
    deputies,           \* node -> [item, source, pc]
    todos,              \* node -> the queue of todo.cpp
    made,               \* history: client -> items sent
    handled,            \* history: client -> items given to add_received
    destroyed           \* history: clients that called messenger_destroy

conversation == <<sequence_numbers, received, messages>>
links == <<queue, wire>>
receiving == <<suspended, deputies, todos>>
history == <<made, handled, destroyed>>
vars == <<maps, addresses, conversation, call, links, receiving, history>>

\* Every node has called init_node.
Init ==
    /\ maps = [n \in Nid |-> setNodeLocation(NoMaps, n, Home[n])]
    /\ addresses = [n \in Nid |-> {n} \cup Known[n]]
    /\ sequence_numbers = [n \in Client |-> [d \in Client |-> 0]]
    /\ received = [n \in Client |-> [s \in Client |-> << >>]]
    /\ messages = [n \in Client |-> [s \in Client |-> << >>]]
    /\ call = [n \in Client |-> NULL]
    /\ queue = [n \in Nid |-> [d \in Nid |-> << >>]] /\ wire = queue
    /\ suspended = [n \in Nid |-> {}] /\ deputies = [n \in Nid |-> {}]
    /\ todos = [n \in Nid |-> << >>]
    /\ made = [n \in Client |-> {}] /\ handled = [n \in Client |-> {}] /\ destroyed = {}

\* The main thread is not in the loop of messenger_text or messenger_file.
Idle(n) == n \in Client => call[n] = NULL
-----------------------------------------------------------------------------
(***************************************************************************)
(* What an application says, before the first item (a bound): where nodes  *)
(* are; and addresses, at any time.                                        *)
(***************************************************************************)
Early == \A n \in Client : made[n] = {}

SetLocation(n, d, loc) ==
    /\ Early
    /\ maps' = [maps EXCEPT ![n] = setNodeLocation(@, d, loc)]
    /\ UNCHANGED <<addresses, conversation, call, links, receiving, history>>

\* For net_addresses.
GetLocation(n, d) ==
    /\ Early /\ d \in addresses[n]
    /\ maps' = [maps EXCEPT ![n] = getNodeLocation(@, d)]
    /\ UNCHANGED <<addresses, conversation, call, links, receiving, history>>

SetNodeAddr(n, d) ==
    /\ Idle(n) /\ d \notin addresses[n]
    /\ addresses' = [addresses EXCEPT ![n] = @ \cup {d}]
    /\ UNCHANGED <<maps, conversation, call, links, receiving, history>>

\* accept_connection learns the address of the one who connects.
Accept(n, s) == wire[s][n] # << >> /\ SetNodeAddr(n, s)
-----------------------------------------------------------------------------
(***************************************************************************)
(* send_msg and send_stream, to a node that has an address.                *)
(***************************************************************************)
Entry(what, it) == [what |-> what, item |-> it, whole |-> what # "file"]
Entries(it) == <<Entry("item", it), Entry(it.itype, it)>>

\* A message goes out at once when the queue is empty; a stream never does.
Sent(n, d, it) ==
    LET now == IF queue[n][d] # << >> THEN 0 ELSE IF it.itype = "text" THEN 2 ELSE 1
    IN  /\ wire' = [wire EXCEPT ![n][d] = @ \o SubSeq(Entries(it), 1, now)]
        /\ queue' = [queue EXCEPT ![n][d] = @ \o SubSeq(Entries(it), now + 1, 2)]

\* The item of a text has come and its text has not: the main thread is in next_msg_same.
Awaiting(n) ==
    \E s \in addresses[n] \ suspended[n] :
        /\ Len(wire[s][n]) = 1
        /\ Head(wire[s][n]).what = "item" /\ Head(wire[s][n]).item.itype = "text"

\* net_idle's send_readies, by the loop, and by any thread that waits for its next message.
NetIdle(n) ==
    /\ \/ Idle(n) /\ (n \in Looping \/ Awaiting(n))
       \/ \E p \in deputies[n] : p.pc = "get"
    /\ \E d \in Nid :
          /\ queue[n][d] # << >> /\ Head(queue[n][d]).whole
          /\ wire' = [wire EXCEPT ![n][d] = Append(@, Head(queue[n][d]))]
          /\ queue' = [queue EXCEPT ![n][d] = Tail(@)]
    /\ UNCHANGED <<maps, addresses, conversation, call, receiving, history>>

\* send_file_thread closes the stream of it.
Written(q, it) ==
    [i \in DOMAIN q |-> IF q[i].item = it THEN [q[i] EXCEPT !.whole = TRUE] ELSE q[i]]

FileSent(n, d) ==
    /\ n \in Client
    /\ \E i \in DOMAIN queue[n][d] :
          /\ ~queue[n][d][i].whole
          /\ queue' = [queue EXCEPT ![n][d] = Written(@, queue[n][d][i].item)]
    /\ UNCHANGED <<maps, addresses, conversation, call, wire, receiving, history>>
-----------------------------------------------------------------------------
(***************************************************************************)
(* messenger_text and messenger_file                                       *)
(***************************************************************************)
\* Bound: no file takes a connection of a node to itself.
Routed(n, d) == d \in addresses[n] \/ (getServer(maps[n]) # n /\ d \in addresses[Server])

\* The id is the model's: it tells apart what messenger_destroy has numbered again.
ItemMsg(n, d, kind) ==
    [from |-> n, to |-> d, index |-> sequence_numbers[n][d], itype |-> kind,
     id |-> Cardinality(made[n])]

Begin(n, d, kind) ==
    /\ call[n] = NULL /\ Cardinality(made[n]) < MaxItems[n]
    /\ kind = "file" => Routed(n, d)
    /\ call' = [call EXCEPT ![n] = [item |-> ItemMsg(n, d, kind), dest |-> d]]
    /\ made' = [made EXCEPT ![n] = @ \cup {ItemMsg(n, d, kind)}]
    /\ sequence_numbers' = [sequence_numbers EXCEPT ![n][d] = @ + 1]
    /\ UNCHANGED <<maps, addresses, received, messages, links, receiving, handled, destroyed>>

\* The item and what it announces, then add_sent.
Send(n) ==
    /\ call[n] # NULL /\ call[n].dest \in addresses[n]
    /\ Sent(n, call[n].dest, call[n].item)
    /\ messages' = [messages EXCEPT ![n][call[n].item.to] =
                        Append(@, [received |-> FALSE, item |-> call[n].item])]
    /\ call' = [call EXCEPT ![n] = NULL]
    /\ UNCHANGED <<maps, addresses, sequence_numbers, received, receiving, history>>

\* With no address of that server either this goes on for ever.
Retry(n) ==
    /\ call[n] # NULL /\ call[n].dest \notin addresses[n]
    /\ call' = [call EXCEPT ![n].dest = getServer(maps[n])]
    /\ UNCHANGED <<maps, addresses, conversation, links, receiving, history>>
-----------------------------------------------------------------------------
(***************************************************************************)
(* add_received.  item.received is never set: it is what the memory held.  *)
(***************************************************************************)
MayMatch_all(o) == TRUE
MayMatch(o) == o.received

Stops_greater(o, e) == o.item.index > e.item.index
Stops(o, e) == o.item.index >= e.item.index

\* Before the first received item with a greater index, unless one has this index.
Inserted(items, e) ==
    LET at == {i \in DOMAIN items : MayMatch(items[i]) /\ Stops(items[i], e)}
    IN  IF at = {} THEN Append(items, e)
        ELSE IF items[Min(at)].item.index = e.item.index THEN items
        ELSE InsertAt(items, Min(at), e)

AddReceived(n, it) ==
    /\ received' = [received EXCEPT ![n][it.from] =
                        [i \in DOMAIN @ \cup {it.index} |-> IF i = it.index THEN it ELSE @[i]]]
    /\ \E mark \in BOOLEAN :
          messages' = [messages EXCEPT ![n][it.from] =
                            Inserted(@, [received |-> mark, item |-> it])]
    /\ handled' = [handled EXCEPT ![n] = @ \cup {it}]

\* next_msg_now takes an item from s, which is not suspended.
Heard(n, s, kind) ==
    /\ Idle(n) /\ s \in addresses[n] \ suspended[n]
    /\ wire[s][n] # << >> /\ Head(wire[s][n]).item.itype = kind
    /\ kind = "text" => Len(wire[s][n]) >= 2

\* The text is next on the same connection (ContentFollows of module Relay).
HandleText(n, s) ==
    LET it == Head(wire[s][n]).item IN
    /\ n \in Client /\ Heard(n, s, "text")
    /\ wire' = [wire EXCEPT ![s][n] = SubSeq(@, 3, Len(@))]
    /\ AddReceived(n, it)
    /\ UNCHANGED <<maps, addresses, sequence_numbers, call, queue, receiving, made, destroyed>>

RecvFile(n, s, it) ==
    /\ suspended' = [suspended EXCEPT ![n] = @ \cup {s}]
    /\ deputies' = [deputies EXCEPT ![n] = @ \cup {[item |-> it, source |-> s, pc |-> "get"]}]

HandleFile(n, s) ==
    /\ n \in Client /\ Heard(n, s, "file")
    /\ RecvFile(n, s, Head(wire[s][n]).item)
    /\ wire' = [wire EXCEPT ![s][n] = Tail(@)]
    /\ UNCHANGED <<maps, addresses, conversation, call, queue, todos, history>>

\* handle_item_relay: the server may be its own server.
Target(it) == IF it.to \in addresses[Server] THEN it.to ELSE getServer(maps[Server])

RelayText(s) ==
    LET it == Head(wire[s][Server]).item
        rest == [wire EXCEPT ![s][Server] = SubSeq(@, 3, Len(@))]
        direct == queue[Server][Target(it)] = << >>
    IN
    /\ Heard(Server, s, "text")
    /\ wire' = IF direct THEN [rest EXCEPT ![Server][Target(it)] = @ \o Entries(it)] ELSE rest
    /\ queue' = IF direct THEN queue ELSE [queue EXCEPT ![Server][Target(it)] = @ \o Entries(it)]
    /\ UNCHANGED <<maps, addresses, conversation, call, receiving, history>>

RelayFile(s) ==
    LET it == Head(wire[s][Server]).item
        rest == [wire EXCEPT ![s][Server] = Tail(@)]
        direct == queue[Server][Target(it)] = << >>
        item == SubSeq(Entries(it), 1, 1)
        file == SubSeq(Entries(it), 2, 2)
    IN
    /\ Heard(Server, s, "file")
    /\ wire' = IF direct THEN [rest EXCEPT ![Server][Target(it)] = @ \o item] ELSE rest
    /\ queue' = [queue EXCEPT ![Server][Target(it)] =
                    @ \o (IF direct THEN file ELSE Entries(it))]
    /\ RecvFile(Server, s, it)
    /\ UNCHANGED <<maps, addresses, conversation, call, todos, history>>
-----------------------------------------------------------------------------
(***************************************************************************)
(* The deputies, and the two todos of each.                                *)
(***************************************************************************)
DeputyGet(n, p) ==
    /\ p \in deputies[n] /\ p.pc = "get"
    /\ wire[p.source][n] # << >>
    /\ wire' = [wire EXCEPT ![p.source][n] = Tail(@)]
    /\ deputies' = [deputies EXCEPT ![n] = (@ \ {p}) \cup {[p EXCEPT !.pc = "resume"]}]
    /\ UNCHANGED <<maps, addresses, conversation, call, queue, suspended, todos, history>>

AddTodo(n, p) ==
    /\ p \in deputies[n] /\ p.pc # "get"
    /\ todos' = [todos EXCEPT ![n] = Append(@, p)]
    /\ deputies' = [deputies EXCEPT ![n] = (@ \ {p}) \cup
                        (IF p.pc = "resume" THEN {[p EXCEPT !.pc = "callback"]} ELSE {})]
    /\ UNCHANGED <<maps, addresses, conversation, call, links, suspended, history>>

DoTodo(n, func) ==
    /\ n \in Looping /\ Idle(n)
    /\ todos[n] # << >> /\ Head(todos[n]).pc = func
    /\ todos' = [todos EXCEPT ![n] = Tail(@)]

Resume(n) ==
    /\ DoTodo(n, "resume")
    /\ suspended' = [suspended EXCEPT ![n] = @ \ {Head(todos[n]).source}]
    /\ UNCHANGED <<maps, addresses, conversation, call, links, deputies, history>>

SetFinished(n) ==
    /\ n \in Client /\ DoTodo(n, "callback")
    /\ AddReceived(n, Head(todos[n]).item)
    /\ UNCHANGED <<maps, addresses, sequence_numbers, call, links, suspended, deputies,
                   made, destroyed>>

OnFinished ==
    LET it == Head(todos[Server]).item IN
    /\ DoTodo(Server, "callback")
    /\ queue' = [queue EXCEPT ![Server] = [d \in Nid |-> Written(@[d], it)]]
    /\ UNCHANGED <<maps, addresses, conversation, call, wire, suspended, deputies, history>>

\* messenger_destroy.  Before the first item it changes nothing.
Destroy(n) ==
    /\ n \in Destroying \ destroyed /\ call[n] = NULL /\ made[n] # {}
    /\ sequence_numbers' = [sequence_numbers EXCEPT ![n] = [d \in Client |-> 0]]
    /\ received' = [received EXCEPT ![n] = [s \in Client |-> << >>]]
    /\ messages' = [messages EXCEPT ![n] = [s \in Client |-> << >>]]
    /\ destroyed' = destroyed \cup {n}
    /\ UNCHANGED <<maps, addresses, call, links, receiving, made, handled>>
-----------------------------------------------------------------------------
Application(n) ==
    \/ \E d \in Client, kind \in Kinds[n] : d # n /\ Begin(n, d, kind)
    \/ \E at \in Locations : at[1] = n /\ SetLocation(n, at[2], at[3])
    \/ Destroy(n)

Handler(n, s) ==
    IF n = Server THEN RelayText(s) \/ RelayFile(s) ELSE HandleText(n, s) \/ HandleFile(n, s)

Node(n) ==
    \/ NetIdle(n) \/ Resume(n) \/ (\E p \in deputies[n] : DeputyGet(n, p) \/ AddTodo(n, p))
    \/ \E s \in Nid : \/ Accept(n, s) \/ FileSent(n, s)
                     \/ (<<n, s>> # <<Server, Server>> /\ Handler(n, s))
    \/ IF n = Server THEN OnFinished ELSE Send(n) \/ Retry(n) \/ SetFinished(n)

Next ==
    \/ \E n \in Nid : Node(n)
    \/ \E at \in Asked : GetLocation(at[1], at[2])
    \/ \E by \in Told : SetNodeAddr(by[1], by[2])
    \/ Handler(Server, Server)
    \/ \E n \in Client : Application(n)

Spec == Init /\ [][Next]_vars

\* Only what a server relays to itself goes round; apart from it no step is repeated
\* for ever, and that some thread which can go on does so is all that scheduling gives.
FairSpec == Spec /\ WF_vars(\E n \in Nid : Node(n)) /\ WF_vars(Handler(Server, Server))
-----------------------------------------------------------------------------
\* In every process the two maps of datacenters.cpp agree, whatever was said and asked
\* of its nodes and in which order.
Agree == \A n \in Nid : MapsAgree(maps[n])

Increasing(items) ==
    \A i, j \in DOMAIN items :
        i < j /\ items[i].received /\ items[j].received
            => items[i].item.index < items[j].item.index

\* The items of a conversation that are marked received have increasing indices: they
\* came over different routes, some as files, and a sender may have begun again.
Sorted == \A n, s \in Client : Increasing(messages[n][s])

\* An item of s for somebody else came to n: getServer is the first node of a datacenter,
\* which may be a client.  Its index counts the items for that other one.
Astray(n, s) == \E it \in handled[n] : it.from = s /\ it.to # n

\* An item that was handled stays, in the conversation and under its index, unless one
\* of the two called messenger_destroy or an item of that sender went astray to here.
Kept ==
    \A n \in Client : \A it \in handled[n] :
      ~Astray(n, it.from) /\ {n, it.from} \cap destroyed = {} =>
        /\ it.index \in DOMAIN received[n][it.from] /\ received[n][it.from][it.index] = it
        /\ \E i \in DOMAIN messages[n][it.from] : messages[n][it.from][i].item = it

\* README.md, "guarantees eventual delivery": what a client begins to send is at last
\* handled by the client it is for.
Delivered ==
    \A n, d \in Client : \A k \in 0 .. MaxItems[n] - 1 :
        call[n] # NULL /\ call[n].item.id = k /\ call[n].item.to = d
        ~> \E it \in handled[d] : it.from = n /\ it.to = d /\ it.id = k
=============================================================================
