------------------------------- MODULE Iuctl -------------------------------
(***************************************************************************)
(* src/iuctl.cpp, src/iuctl_server.cpp and the iuctl program: commands to  *)
(* a running server through a System V message queue.  The server writes   *)
(* its pid in a file; the key of the queue comes from the file's inode; a  *)
(* message is addressed to a process by its type, the process's pid.       *)
(* Every system call on the file or the queue is a step of its own.        *)
(*                                                                         *)
(* A server process starts when no other server runs: restarts are         *)
(* modelled, two servers in one directory are not.  Pids are not reused.   *)
(***************************************************************************)
EXTENDS Integers, SequencesExt

CONSTANTS
    Server,     \* the successive server processes
    Client,     \* the iuctl processes, each with one command
    Inode,      \* inodes for the file
    MaxMsgs,    \* capacity of the queue
    Faults,     \* what may happen to processes: "kill", "crash", "signal"
    NULL

Commands == {"status", "addr", "net", "shutdown"}

ASSUME IuctlAssumption ==
    /\ MaxMsgs \in Nat \ {0} /\ Faults \subseteq {"kill", "crash", "signal"}
    /\ Server \cap Client = {} /\ NULL \notin Server \cup Client

VARIABLES
    file,       \* QUEUE_PATH: its inode and the pid in it, or NULL
    queues,     \* the queues made so far: the inode of the key, messages, live
    pc,         \* process -> what it does
    msg_q,      \* process -> its queue, or 0
    client,     \* server -> the client whose request it handles
    server_pid, \* client -> the server it addresses
    command,    \* client -> its command
    read,       \* history: <<client, message it waited for, kind of the one it got>>
    learned     \* history: <<client of LEARN_ADDR, client whose address was taken>>

clientVars == <<server_pid, command>>
history == <<read, learned>>
vars == <<file, queues, pc, msg_q, client, clientVars, history>>

Process == Server \cup Client
Over == {"off", "ended", "done", "failed", "undefined", "dead"}

Init ==
    /\ file = NULL /\ queues = << >>
    /\ pc = [p \in Process |-> IF p \in Server THEN "off" ELSE "join"]
    /\ msg_q = [p \in Process |-> 0]
    /\ client = [s \in Server |-> NULL]
    /\ server_pid = [c \in Client |-> NULL] /\ command \in [Client -> Commands]
    /\ read = {} /\ learned = {}

Goto(p, l) == pc' = [pc EXCEPT ![p] = l]
-----------------------------------------------------------------------------
(***************************************************************************)
(* send_iuctl and recv_iuctl.                                              *)
(***************************************************************************)
Live(q) == q # 0 /\ queues[q].live
Message(to, from, kind) == [to |-> to, from |-> from, kind |-> kind]

\* msgsnd waits for room; its failure is only reported.
Sends(p, m) ==
    LET q == msg_q[p] IN
    IF Live(q) THEN /\ Len(queues[q].msgs) < MaxMsgs
                    /\ queues' = [queues EXCEPT ![q].msgs = Append(@, m)]
               ELSE UNCHANGED queues

\* msgrcv without waiting: the first message of the type.
For(type, q) == {i \in DOMAIN queues[q].msgs : queues[q].msgs[i].to = type}
FirstFor(type, q) == CHOOSE i \in For(type, q) : \A j \in For(type, q) : i <= j

Waiting(p, type) == Live(msg_q[p]) /\ For(type, msg_q[p]) # {}
Received(p, type) == queues[msg_q[p]].msgs[FirstFor(type, msg_q[p])]
Receives(p, type) ==
    /\ Waiting(p, type)
    /\ queues' = [queues EXCEPT ![msg_q[p]].msgs = RemoveAt(@, FirstFor(type, msg_q[p]))]

\* Every error but ENOMSG also makes recv_iuctl return 0, the buffer as it was.
RecvFails_retried(p) == FALSE
RecvFails(p) == ~Live(msg_q[p]) /\ UNCHANGED queues
-----------------------------------------------------------------------------
(***************************************************************************)
(* The server.                                                             *)
(***************************************************************************)
InServer == UNCHANGED <<clientVars, read>>

\* Which of the processes comes next makes no difference.
NextServer == CHOOSE s \in Server : pc[s] = "off"

\* open with O_CREAT | O_TRUNC.
ServerStart(s) ==
    /\ pc[s] = "off" /\ s = NextServer /\ \A other \in Server \ {s} : pc[other] \in Over
    /\ \E i \in IF file = NULL THEN Inode ELSE {file.inode} :
          file' = [inode |-> i, pid |-> NULL]
    /\ Goto(s, "write")
    /\ InServer /\ UNCHANGED <<queues, msg_q, client, learned>>

ServerWrite(s) ==
    /\ pc[s] = "write"
    /\ file' = [file EXCEPT !.pid = s]
    /\ Goto(s, "msgget")
    /\ InServer /\ UNCHANGED <<queues, msg_q, client, learned>>

Found == {q \in DOMAIN queues : queues[q].live /\ queues[q].inode = file.inode}

\* msgget with IPC_CREAT.
ServerMsgget_any(s) ==
    /\ pc[s] = "msgget"
    /\ msg_q' = [msg_q EXCEPT ![s] = Len(queues)] /\ UNCHANGED queues
    /\ Goto(s, "loop")
    /\ InServer /\ UNCHANGED <<file, client, learned>>
ServerMsgget(s) ==
    /\ pc[s] = "msgget"
    /\ IF Found # {}
       THEN \E q \in Found : msg_q' = [msg_q EXCEPT ![s] = q] /\ UNCHANGED queues
       ELSE /\ queues' = Append(queues, [inode |-> file.inode, msgs |-> << >>, live |-> TRUE])
            /\ msg_q' = [msg_q EXCEPT ![s] = Len(queues) + 1]
    /\ Goto(s, "loop")
    /\ InServer /\ UNCHANGED <<file, client, learned>>

\* handle_iuctls.
ServerRequest(s) ==
    /\ pc[s] = "loop"
    /\ Receives(s, s)
    /\ client' = [client EXCEPT ![s] = Received(s, s).from]
    /\ Goto(s, Received(s, s).kind)
    /\ InServer /\ UNCHANGED <<file, msg_q, learned>>

\* iuctl_server_status, iuctl_server_net and what each goes on with.
Reply(s, now, kind, next) ==
    /\ pc[s] = now
    /\ Sends(s, Message(client[s], s, kind))
    /\ Goto(s, next)
    /\ InServer /\ UNCHANGED <<file, msg_q, client, learned>>

ServerStatus(s) == Reply(s, "status", "status", "loop")
ServerNetLength_swapped(s) == Reply(s, "net", "string", "string")
ServerNetLength(s) == Reply(s, "net", "length", "string")
ServerNetString(s) == Reply(s, "string", "string", "loop")

\* iuctl_server_addr polls the queue until the second message is there.
AddrType_own(s) == s
AddrType(s) == client[s]
ServerAddr(s) ==
    /\ pc[s] = "addr"
    /\ Receives(s, AddrType(s))
    /\ LET m == Received(s, AddrType(s))
       IN  learned' = learned \cup {<<client[s], IF m.kind = "address" THEN m.from ELSE NULL>>}
    /\ Goto(s, "loop")
    /\ InServer /\ UNCHANGED <<file, msg_q, client>>

\* destroy_iuctl, then exit.
ServerDestroy(s) ==
    /\ pc[s] = "shutdown"
    /\ queues' = [queues EXCEPT ![msg_q[s]].live = FALSE, ![msg_q[s]].msgs = << >>]
    /\ Goto(s, "unlink")
    /\ InServer /\ UNCHANGED <<file, msg_q, client, learned>>

ServerUnlink(s) ==
    /\ pc[s] = "unlink" /\ file' = NULL
    /\ Goto(s, "ended")
    /\ InServer /\ UNCHANGED <<queues, msg_q, client, learned>>

\* SIGINT or SIGTERM: the handler shuts down wherever the server is.
ServerSignal(s) ==
    /\ "signal" \in Faults
    /\ pc[s] \in {"loop", "status", "net", "string", "addr"}
    /\ Goto(s, "shutdown")
    /\ UNCHANGED <<file, queues, msg_q, client, clientVars, history>>
-----------------------------------------------------------------------------
(***************************************************************************)
(* The iuctl program.                                                      *)
(***************************************************************************)
InClient == UNCHANGED <<file, client, command, learned>>

\* join_iuctl reads the pid; what it takes from an empty file is no server's.
ClientJoin(c) ==
    /\ pc[c] = "join"
    /\ IF file = NULL \/ file.pid = NULL
       THEN Goto(c, "failed") /\ UNCHANGED server_pid
       ELSE Goto(c, "kill") /\ server_pid' = [server_pid EXCEPT ![c] = file.pid]
    /\ InClient /\ UNCHANGED <<queues, msg_q, read>>

ClientKill(c) ==
    /\ pc[c] = "kill"
    /\ Goto(c, IF pc[server_pid[c]] \in Over THEN "failed" ELSE "msgget")
    /\ InClient /\ UNCHANGED <<queues, msg_q, server_pid, read>>

\* ftok and msgget; that there is no queue goes unnoticed.
ClientMsgget(c) ==
    /\ pc[c] = "msgget"
    /\ IF file = NULL
       THEN Goto(c, "failed") /\ UNCHANGED msg_q
       ELSE /\ \E q \in IF Found = {} THEN {0} ELSE Found : msg_q' = [msg_q EXCEPT ![c] = q]
            /\ Goto(c, "ask")
    /\ InClient /\ UNCHANGED <<queues, server_pid, read>>

\* The request and what the command goes on with.
ClientAsk(c) ==
    /\ pc[c] = "ask"
    /\ Sends(c, Message(server_pid[c], c, command[c]))
    /\ Goto(c, CASE command[c] = "status"   -> "status"
                 [] command[c] = "net"      -> "length"
                 [] command[c] = "addr"     -> "address"
                 [] command[c] = "shutdown" -> "done")
    /\ InClient /\ UNCHANGED <<msg_q, server_pid, read>>

\* addr_iuctl's second message has the client's own type.
ClientAddress(c) ==
    /\ pc[c] = "address"
    /\ Sends(c, Message(c, c, "address"))
    /\ Goto(c, "done")
    /\ InClient /\ UNCHANGED <<msg_q, server_pid, read>>

\* The client waits for a message of the kind.
Reads(c, kind) ==
    /\ pc[c] = kind
    /\ \/ Receives(c, c) /\ read' = read \cup {<<c, kind, Received(c, c).kind>>}
       \/ RecvFails(c) /\ read' = read \cup {<<c, kind, NULL>>}
    /\ InClient /\ UNCHANGED <<msg_q, server_pid>>

\* status_iuctl prints what the buffer says, also when nothing was received.
ClientStatus(c) == Reads(c, "status") /\ Goto(c, "done")

\* net_iuctl; without the messages it uses memory nobody wrote.
ClientLength_only(c) == Reads(c, "length") /\ Goto(c, "done")
ClientLength(c) == Reads(c, "length") /\ Goto(c, IF Live(msg_q[c]) THEN "string" ELSE "undefined")
ClientString(c) == Reads(c, "string") /\ Goto(c, IF Live(msg_q[c]) THEN "done" ELSE "undefined")
-----------------------------------------------------------------------------
\* Processes that are killed: a client (its user interrupts it) or the server.
Die(p) ==
    /\ pc[p] \notin Over
    /\ IF p \in Client THEN "kill" \in Faults ELSE "crash" \in Faults
    /\ Goto(p, "dead")
    /\ UNCHANGED <<file, queues, msg_q, client, clientVars, history>>

ServerStep(s) ==
    \/ ServerStart(s) \/ ServerWrite(s) \/ ServerMsgget(s)
    \/ ServerRequest(s) \/ ServerStatus(s) \/ ServerNetLength(s) \/ ServerNetString(s)
    \/ ServerAddr(s) \/ ServerDestroy(s) \/ ServerUnlink(s)

ClientStep(c) ==
    \/ ClientJoin(c) \/ ClientKill(c) \/ ClientMsgget(c) \/ ClientAsk(c)
    \/ ClientAddress(c) \/ ClientStatus(c) \/ ClientLength(c) \/ ClientString(c)

Next ==
    \/ \E s \in Server : ServerStep(s) \/ ServerSignal(s)
    \/ \E c \in Client : ClientStep(c)
    \/ \E p \in Process : Die(p)

Spec == Init /\ [][Next]_vars

\* Every process that runs is scheduled.
FairSpec == Spec /\ \A s \in Server : WF_vars(ServerStep(s))
                 /\ \A c \in Client : WF_vars(ClientStep(c))
-----------------------------------------------------------------------------
TypeOK ==
    /\ file \in {NULL} \cup [inode : Inode, pid : Server \cup {NULL}]
    /\ queues \in Seq([inode : Inode, live : BOOLEAN,
                       msgs : Seq([to : Process, from : Process,
                                   kind : Commands \cup {"address", "length", "string"}])])
    /\ \A q \in DOMAIN queues : Len(queues[q].msgs) <= MaxMsgs
    /\ \A p \in Process : msg_q[p] \in 0 .. Len(queues)
    /\ \A s \in Server : pc[s] \in {"status", "net", "string", "addr"} => client[s] \in Client
    /\ \A s \in Server : pc[s] \in {"loop", "status", "net", "string", "addr", "shutdown"}
                            => Live(msg_q[s])
    /\ server_pid \in [Client -> Server \cup {NULL}]
    /\ command \in [Client -> Commands]

\* The address the server stores for a node is the one sent with that node: the
\* two messages of an addr command are paired (iuctl_server_addr), whatever
\* other clients send in between, and whoever is killed or restarted.
Paired == \A l \in learned : l[1] = l[2]

\* What a client receives is what it waits for, the length before the string
\* (iuctl_server_net against net_iuctl).  NULL is the wait that ends because there
\* is no queue: recv_iuctl returns 0, and status_iuctl prints its own request.
RightReply == \A r \in read : r[3] \in {r[2], NULL}

\* Nobody has been killed; no other server has been started.
Unharmed == \A p \in Process : pc[p] # "dead"
Alone == \A s, t \in Server : s # t => pc[s] = "off" \/ pc[t] = "off"

\* No message is left in the queue for a client that is over, but the address the
\* server is still to read: as long as nobody is killed the queue does not fill up,
\* over any commands, signals and restarts.
NoLeftovers ==
    Unharmed =>
    \A q \in DOMAIN queues : \A m \in Range(queues[q].msgs) :
        m.to \in Client /\ pc[m.to] \in Over =>
            /\ m.kind = "address"
            /\ \/ \E s \in Server : pc[s] \in {"addr", "shutdown"} /\ client[s] = m.to
               \/ \E r \in Range(queues[q].msgs) : r.from = m.to /\ r.kind = "addr"

\* Every command comes to an end as long as nobody is killed and the server that the
\* client has found is not followed by another: the busy waits of status_iuctl,
\* net_iuctl and iuctl_server_addr all do, and msgsnd's wait for room, also when the
\* server is told to stop in their midst.
CommandsEnd ==
    \A c \in Client : pc[c] # "join" ~> pc[c] \in Over \/ ~Unharmed \/ ~Alone
=============================================================================
