-------------------------------- MODULE Net --------------------------------
(***************************************************************************)
(* src/net.cpp: the connections of one node.  The main thread calls the    *)
(* functions of include/net.h; peers connect, send, close and fail at any  *)
(* time between two of its steps; threads given a stream by send_stream    *)
(* put messages in it.                                                     *)
(*                                                                         *)
(* A message to send is known by the number of the send_msg or send_stream *)
(* call it belongs to.  A send queue is what include/concat.h makes it     *)
(* (Stream.tla): messages and streams of messages, in order.  File         *)
(* descriptors are numbers, for poll ignores the negated ones; the kernel  *)
(* hands out the lowest free one.                                          *)
(***************************************************************************)
EXTENDS Integers, SequencesExt

CONSTANTS
    Peer,       \* the other nodes
    Known,      \* those whose listening addresses are known at the beginning
    MaxFd,      \* file descriptors 2 .. MaxFd for connections
    MaxCalls,   \* bound on the calls to send_msg and send_stream
    MaxIn,      \* bound on the messages waiting in a socket
    MaxPuts,    \* bound on the messages a thread puts in its stream
    Uses,       \* the functions of net.h the application calls
    NULL

Functions == {"send_msg", "send_stream", "next_msg_same", "next_msg_from", "msg_source",
              "net_suspend", "net_resume", "setNodeAddr", "shutdown_server"}

server_fd == 1
FD == 2 .. MaxFd
Call == 1 .. MaxCalls
Nobody == 0     \* the nid that map::operator[] makes up

\* A connected socket: the peer, the messages that can be received, whether the
\* peer has closed (eof) or the connection is reset (gone).
Socket == [peer : Peer \cup {NULL}, in : 0 .. MaxIn, eof : BOOLEAN, gone : BOOLEAN]
\* A stream of send_stream: its writer has not closed it, the messages in it and those
\* put in it so far, it is deleted.
Stream == [open : BOOLEAN, len : 0 .. MaxPuts, puts : 0 .. MaxPuts, freed : BOOLEAN]
Waited == [fd : FD, by : {"accept", "app"}]
Destination == [to : Peer, use : Functions]

ASSUME NetAssumption ==
    /\ MaxFd \in Nat /\ MaxCalls \in Nat /\ MaxIn \in Nat \ {0} /\ MaxPuts \in Nat
    /\ Known \subseteq Peer /\ Uses \subseteq Functions
    /\ IsFiniteSet(Peer) /\ Nobody \notin Peer
    /\ NULL \notin Int \cup Peer \cup Socket \cup Stream \cup Waited \cup Destination
    /\ NULL \notin Seq(Call)

VARIABLES
    sock,       \* kernel: fd -> the socket it is open on, or NULL
    backlog,    \* kernel: the peers whose connections wait to be accepted
    pollfds,    \* pollfds_vector: fds, negated when suspended or hung up
    nids,       \* fd -> peer, Nobody or NULL
    connections,\* peer -> fd, or NULL
    send_qs,    \* peer -> queue of calls, or NULL
    stream,     \* call -> the stream it returned, or NULL
    addresses,  \* peer -> the kind of address known for it
    start,      \* where the last round of polling ended, from 0
    last_fd,    \* where the last message came from
    pc,         \* what the main thread does, or how the process ended
    wait,       \* next_msg_from_fd: the socket it waits on, and for whom
    dest,       \* send_msg, send_stream: the peer and the kind of call
    keys,       \* send_readies: the peers left in the round, from the cursor on
    calls,      \* history: the number of calls to send_msg and send_stream
    wire,       \* history: peer -> the call of the last message sent to it
    suspended   \* history: the peers suspended and not resumed

kernel == <<sock, backlog>>
tables == <<pollfds, nids, connections>>
queues == <<send_qs, stream>>
control == <<pc, wait, dest, keys>>
history == <<calls, wire, suspended>>
vars == <<kernel, tables, queues, addresses, start, last_fd, control, history>>

Fresh(n) == [peer |-> n, in |-> 0, eof |-> FALSE, gone |-> FALSE]
Unconnected == [peer |-> NULL, in |-> 0, eof |-> FALSE, gone |-> TRUE]

Set(f, i, x) == [f EXCEPT ![i] = x]
\* map::insert keeps what is there.
Insert(f, i, x) == IF f[i] = NULL THEN Set(f, i, x) ELSE f

FreeFds == {fd \in FD : sock[fd] = NULL}
NewFd == CHOOSE fd \in FreeFds : \A other \in FreeFds : fd <= other
\* MaxFd bounds the connections: one is left for each that waits, and for connect_to.
FdLeft == Cardinality(FreeFds) > Len(backlog)
\* The same bound for the entries suspend and resume leave when nothing prunes them.
EntryLeft == Len(pollfds) < MaxFd + 2
-----------------------------------------------------------------------------
\* init_server has run, and setNodeAddr for the known peers.
Init ==
    /\ sock = [fd \in FD |-> NULL] /\ backlog = << >>
    /\ pollfds = <<server_fd>>
    /\ nids = [fd \in FD |-> NULL]
    /\ connections = [n \in Peer |-> NULL]
    /\ send_qs = [n \in Peer |-> NULL]
    /\ stream = [c \in Call |-> NULL]
    /\ addresses = [n \in Peer |-> IF n \in Known THEN "listening" ELSE "none"]
    /\ start = 0 /\ last_fd = NULL
    /\ pc = "idle" /\ wait = NULL /\ dest = NULL /\ keys = << >>
    /\ calls = 0 /\ wire = [n \in Peer |-> 0] /\ suspended = {}
-----------------------------------------------------------------------------
(***************************************************************************)
(* The peers and the kernel.                                               *)
(***************************************************************************)
Ended == {"exit", "killed", "undefined"}
Running == pc \notin Ended

Env == Running /\ UNCHANGED <<tables, queues, addresses, start, last_fd, control, history>>

PeerConnects(n) ==
    /\ pc # "down" /\ backlog = << >> /\ FdLeft
    /\ pc = "connect" => Cardinality(FreeFds) > 1
    /\ backlog' = <<n>>
    /\ Env /\ UNCHANGED sock

Connected(fd) == sock[fd] # NULL /\ ~sock[fd].gone

PeerSends(fd) ==
    /\ Connected(fd) /\ ~sock[fd].eof /\ sock[fd].in < MaxIn
    /\ sock' = [sock EXCEPT ![fd].in = @ + 1]
    /\ Env /\ UNCHANGED backlog

PeerCloses(fd) ==
    /\ Connected(fd) /\ ~sock[fd].eof
    /\ sock' = [sock EXCEPT ![fd].eof = TRUE]
    /\ Env /\ UNCHANGED backlog

PeerResets(fd) ==
    /\ Connected(fd)
    /\ sock' = [sock EXCEPT ![fd].gone = TRUE]
    /\ Env /\ UNCHANGED backlog

\* poll on Linux: the end of the stream is POLLIN and POLLRDHUP, a reset both and
\* POLLHUP, an unconnected socket POLLHUP, a closed descriptor POLLNVAL.
Revents(fd) ==
    CASE fd < 0 -> {}
      [] fd = server_fd -> IF backlog = << >> THEN {} ELSE {"IN"}
      [] sock[fd] = NULL -> {"NVAL"}
      [] sock[fd] = Unconnected -> {"HUP"}
      [] OTHER -> (IF sock[fd].in > 0 THEN {"IN"} ELSE {})
                  \cup (IF sock[fd].eof THEN {"IN", "RDHUP"} ELSE {})
                  \cup (IF sock[fd].gone THEN {"IN", "RDHUP", "HUP"} ELSE {})

\* recv: waiting messages first, then the end of the stream or the error.
Received(fd) == CASE sock[fd].in > 0                  -> "message"
                  [] sock[fd].in = 0 /\ sock[fd].eof -> "end"
                  [] OTHER                           -> "error"
Taken(fd) == [sock EXCEPT ![fd].in = @ - 1]
-----------------------------------------------------------------------------
(***************************************************************************)
(* The threads that write the streams.  A stream goes with the queue it is *)
(* in; writing to it then is undefined.                                    *)
(***************************************************************************)
StreamWrite(c, s) ==
    /\ Running /\ stream[c] # NULL /\ stream[c].open
    /\ IF stream[c].freed THEN pc' = "undefined" /\ UNCHANGED stream
                           ELSE stream' = Set(stream, c, s) /\ UNCHANGED pc
    /\ UNCHANGED <<kernel, tables, send_qs, addresses, start, last_fd, wait, dest, keys, history>>

StreamPut(c) ==
    /\ stream[c] # NULL /\ stream[c].puts < MaxPuts
    /\ StreamWrite(c, [stream[c] EXCEPT !.len = @ + 1, !.puts = @ + 1])

StreamClose(c) == StreamWrite(c, [stream[c] EXCEPT !.open = FALSE])

NewStream == [open |-> TRUE, len |-> 0, puts |-> 0, freed |-> FALSE]

\* concat's empty, ready and get on a send queue; a stream that is closed and
\* read to its end does not count.
Finished(c) == stream[c] # NULL /\ ~stream[c].open /\ stream[c].len = 0
Unfinished(q) == {i \in DOMAIN q : ~Finished(q[i])}
Lowest(is) == CHOOSE i \in is : \A j \in is : i <= j
Foremost(q) == q[Lowest(Unfinished(q))]
From(q, i) == SubSeq(q, i, Len(q))
Ready(q) == Unfinished(q) # {} /\ (stream[Foremost(q)] = NULL \/ stream[Foremost(q)].len > 0)
Empty_unready(q) == ~Ready(q)
Empty(q) == Unfinished(q) = {}

\* delete of a queue: its streams are freed, whoever still writes them.
Freed(q) == [c \in Call |-> IF stream[c] # NULL /\ c \in Range(q)
                            THEN [stream[c] EXCEPT !.freed = TRUE] ELSE stream[c]]
-----------------------------------------------------------------------------
(***************************************************************************)
(* next_msg_now.                                                           *)
(***************************************************************************)
Main == UNCHANGED <<backlog, history>>
Idle(use) == pc = "idle" /\ use \in Uses

NextMsgNow ==
    /\ pc = "idle" /\ pc' = "poll"
    /\ Main /\ UNCHANGED <<sock, tables, queues, addresses, start, last_fd, wait, dest, keys>>

\* The round robin: the first entry after start with something to receive, or
\* start itself when poll reports events of other kinds only.
Hits == {i \in DOMAIN pollfds : Revents(pollfds[i]) \cap {"IN", "RDHUP"} # {}}
Distance_fixed(i) == i
Distance(i) == (i - start - 2) % Len(pollfds)
Chosen ==
    LET hits == Hits
    IN  IF hits = {} THEN 1 + (start % Len(pollfds))
        ELSE CHOOSE i \in hits : \A j \in hits : Distance(i) <= Distance(j)

\* poll found events; start is then at the entry to look at, which is fd.
Polled ==
    /\ pc = "poll"
    /\ \E j \in DOMAIN pollfds : Revents(pollfds[j]) # {}
    /\ start' = Chosen - 1
    /\ Main
Found == pollfds[start' + 1]

PollNothing ==
    /\ pc = "poll" /\ \A i \in DOMAIN pollfds : Revents(pollfds[i]) = {}
    /\ pc' = "idle"
    /\ Main /\ UNCHANGED <<sock, tables, queues, addresses, start, last_fd, wait, dest, keys>>

PollAccept ==
    /\ Polled /\ Found = server_fd
    /\ pc' = "accept"
    /\ UNCHANGED <<sock, tables, queues, addresses, last_fd, wait, dest, keys>>

\* The connection of n on fd is over.
Forget_nids(fd, n) == nids' = Set(nids, fd, NULL) /\ UNCHANGED connections
Forget_connections(fd, n) ==
    /\ connections' = IF n = Nobody THEN connections ELSE Set(connections, n, NULL)
    /\ UNCHANGED nids
Forget(fd, n) ==
    /\ nids' = Set(nids, fd, NULL)
    /\ connections' = IF n = Nobody THEN connections ELSE Set(connections, n, NULL)

\* recv_msg's end of the stream: the tables forget the connection, the
\* descriptor stays open and the queue stays.
Hangup(fd) ==
    IF nids[fd] = NULL THEN UNCHANGED <<nids, connections>>
    ELSE Forget(fd, nids[fd])

\* The entry of a connection that has ended is not polled any more.
HungUp(fd) == -fd

PollRecv ==
    /\ Polled
    /\ LET fd == Found IN
       /\ fd # server_fd /\ "IN" \in Revents(fd)
       /\ \/ /\ Received(fd) = "message"
             /\ sock' = Taken(fd) /\ last_fd' = fd /\ pc' = "idle"
             /\ UNCHANGED tables
          \/ /\ Received(fd) = "end"
             /\ Hangup(fd) /\ pollfds' = Set(pollfds, start' + 1, HungUp(fd))
             /\ UNCHANGED <<sock, last_fd, pc>>
          \/ /\ Received(fd) = "error" /\ pc' = "exit"
             /\ UNCHANGED <<sock, tables, last_fd>>
    /\ UNCHANGED <<queues, addresses, wait, dest, keys>>

\* Neither a message nor an end: next_msg_now calls itself.
PollAgain ==
    /\ Polled /\ Found # server_fd /\ "IN" \notin Revents(Found)
    /\ UNCHANGED <<sock, tables, queues, addresses, last_fd, control>>

\* accept_connection, up to its wait for the identity of the peer.
Accept ==
    /\ pc = "accept" /\ backlog # << >>
    /\ sock' = Set(sock, NewFd, Fresh(Head(backlog))) /\ backlog' = Tail(backlog)
    /\ wait' = [fd |-> NewFd, by |-> "accept"] /\ pc' = "wait"
    /\ UNCHANGED <<tables, queues, addresses, start, last_fd, dest, keys, history>>
-----------------------------------------------------------------------------
(***************************************************************************)
(* net_idle: prunePollFds and send_readies.                                *)
(***************************************************************************)
\* The entries of q at the places in kept, in their order.
Picked(q, kept) ==
    [k \in 1 .. Cardinality(kept) |->
        q[CHOOSE i \in kept : Cardinality({j \in kept : j <= i}) = k]]
Pruned == Picked(pollfds, {i \in DOMAIN pollfds : pollfds[i] > 0})
ReadyPeers == {n \in Peer : send_qs[n] # NULL /\ Ready(send_qs[n])}

\* Where net_idle was called.
Back == IF wait = NULL THEN "idle" ELSE "wait"

\* The queues with something to send, in some order of the map.
Idling_do_while ==
    /\ pollfds' = Pruned
    /\ keys' \in SetToSeqs(ReadyPeers)
    /\ pc' = "send"
    /\ Main /\ UNCHANGED <<sock, nids, connections, queues, addresses, start, last_fd, wait, dest>>
Idling ==
    /\ pollfds' = Pruned
    /\ keys' \in SetToSeqs(ReadyPeers)
    /\ pc' = IF keys' # << >> THEN "send" ELSE Back
    /\ Main /\ UNCHANGED <<sock, nids, connections, queues, addresses, start, last_fd, wait, dest>>

NetIdle == pc = "idle" /\ Idling

\* send_msg_now(c, n), the main thread going on with next.  The poll sees a reset that
\* has come; one that comes between the poll and the send is ECONNRESET, or EPIPE after
\* the peer's close.
SendNow(n, c, next) ==
    LET fd == connections[n] IN
    \/ /\ fd = NULL /\ pc' = "undefined"     \* connections.end() is dereferenced
       /\ UNCHANGED <<sock, nids, connections, wire>>
    \/ /\ fd # NULL /\ (sock[fd].eof => sock[fd].gone) /\ pc' = next
       /\ sock' = Set(sock, fd, NULL)
       /\ Forget(fd, n)
       /\ UNCHANGED wire
    \/ /\ fd # NULL /\ sock[fd].eof /\ ~sock[fd].gone /\ pc' = "killed"
       /\ UNCHANGED <<sock, nids, connections, wire>>
    \/ /\ fd # NULL /\ ~sock[fd].gone /\ pc' = next
       /\ wire' = IF c = NULL THEN wire ELSE Set(wire, n, c)
       /\ UNCHANGED <<sock, nids, connections>>

\* concat's get: the next message, past the streams that are finished.
Got(n) == Foremost(send_qs[n])
GotFrom(n) ==
    LET at == Lowest(Unfinished(send_qs[n])) IN
    IF stream[Got(n)] = NULL
    THEN send_qs' = Set(send_qs, n, From(send_qs[n], at + 1)) /\ UNCHANGED stream
    ELSE /\ send_qs' = Set(send_qs, n, From(send_qs[n], at))
         /\ stream' = [stream EXCEPT ![Got(n)].len = @ - 1]

\* One message of the next peer in the round; the peer leaves the round when it
\* has no more.
SendReady(n) ==
    /\ pc = "send" /\ n = Head(keys)
    /\ GotFrom(n)
    /\ keys' = IF Ready(send_qs[n])' THEN Append(Tail(keys), n) ELSE Tail(keys)
    /\ SendNow(n, Got(n), IF keys' # << >> THEN "send" ELSE Back)
    /\ UNCHANGED <<backlog, pollfds, addresses, start, last_fd, wait, dest, calls, suspended>>
-----------------------------------------------------------------------------
(***************************************************************************)
(* next_msg_from_fd: the wait for one message on one socket.               *)
(***************************************************************************)
\* What accept_connection and connect_to do with a new connection.
Register_unpolled(fd, n) ==
    /\ nids' = Insert(nids, fd, n)
    /\ connections' = Insert(connections, n, fd)
    /\ UNCHANGED pollfds
    /\ send_qs' = Set(send_qs, n, << >>)
    /\ stream' = IF send_qs[n] = NULL THEN stream ELSE Freed(send_qs[n])
Register(fd, n) ==
    /\ nids' = Insert(nids, fd, n)
    /\ connections' = Insert(connections, n, fd)
    /\ pollfds' = Append(pollfds, fd)
    /\ send_qs' = Set(send_qs, n, << >>)
    /\ stream' = IF send_qs[n] = NULL THEN stream ELSE Freed(send_qs[n])

Waiting == pc = "wait" /\ Main

\* Nothing yet.
WaitIdle == pc = "wait" /\ Revents(wait.fd) = {} /\ Idling

\* The application's wait is over, with a message or with NULL.
WaitReturns ==
    /\ Waiting /\ wait.by = "app" /\ "IN" \in Revents(wait.fd)
    /\ \/ /\ Received(wait.fd) = "message" /\ sock' = Taken(wait.fd)
          /\ UNCHANGED <<nids, connections>>
       \/ /\ Received(wait.fd) = "end" /\ Hangup(wait.fd)
          /\ UNCHANGED sock
    /\ wait' = NULL /\ pc' = "idle"
    /\ UNCHANGED <<pollfds, queues, addresses, start, last_fd, dest, keys>>

\* accept_connection goes on with the identity of the peer.
Identified ==
    /\ Waiting /\ wait.by = "accept" /\ "IN" \in Revents(wait.fd)
    /\ Received(wait.fd) = "message" /\ sock' = Taken(wait.fd)
    /\ Register(wait.fd, sock[wait.fd].peer)
    /\ addresses' = Set(addresses, sock[wait.fd].peer, "ephemeral")
    /\ wait' = NULL /\ pc' = "poll"
    /\ UNCHANGED <<start, last_fd, dest, keys>>

\* The peer went without a word.
Unidentified ==
    /\ Waiting /\ wait.by = "accept" /\ "IN" \in Revents(wait.fd)
    /\ Received(wait.fd) = "end" /\ Hangup(wait.fd)
    /\ sock' = Set(sock, wait.fd, NULL)
    /\ wait' = NULL /\ pc' = "poll"
    /\ UNCHANGED <<pollfds, queues, addresses, start, last_fd, dest, keys>>

WaitError ==
    /\ Waiting /\ "IN" \in Revents(wait.fd) /\ Received(wait.fd) = "error"
    /\ pc' = "exit"
    /\ UNCHANGED <<sock, tables, queues, addresses, start, last_fd, wait, dest, keys>>

WaitOn(fd) == wait' = [fd |-> fd, by |-> "app"] /\ pc' = "wait"

\* Called after a message: last_fd is then set.
NextMsgSame ==
    /\ Idle("next_msg_same") /\ last_fd # NULL
    /\ WaitOn(last_fd)
    /\ Main /\ UNCHANGED <<sock, tables, queues, addresses, start, last_fd, dest, keys>>

NextMsgFrom(n) ==
    /\ Idle("next_msg_from")
    /\ IF connections[n] = NULL THEN pc' = "undefined" /\ UNCHANGED wait
                                ELSE WaitOn(connections[n])
    /\ Main /\ UNCHANGED <<sock, tables, queues, addresses, start, last_fd, dest, keys>>

\* operator[] puts an entry in nids when there is none.
MsgSource ==
    /\ Idle("msg_source") /\ last_fd # NULL /\ nids[last_fd] = NULL
    /\ nids' = Set(nids, last_fd, Nobody)
    /\ Main /\ UNCHANGED <<sock, pollfds, connections, queues, addresses, start, last_fd, control>>
-----------------------------------------------------------------------------
(***************************************************************************)
(* send_msg and send_stream.                                               *)
(***************************************************************************)
\* A call to either for n; connect_to comes first when n has no queue.
Send(n, use) ==
    /\ Idle(use) /\ calls < MaxCalls /\ (send_qs[n] = NULL => FdLeft)
    /\ calls' = calls + 1
    /\ dest' = [to |-> n, use |-> use]
    /\ pc' = IF send_qs[n] = NULL THEN "connect" ELSE "put"
    /\ UNCHANGED <<kernel, tables, queues, addresses, start, last_fd, wait, keys, wire, suspended>>

\* connect_to without success: the new socket is leaked when there is no address.
ConnectFails ==
    /\ pc = "connect" /\ FdLeft
    /\ \/ addresses[dest.to] = "none"
          /\ sock' = Set(sock, NewFd, Unconnected) /\ pc' = "idle"
       \/ addresses[dest.to] # "none"       \* ECONNREFUSED
          /\ pc' = "idle" /\ UNCHANGED sock
       \/ addresses[dest.to] # "none"       \* any other error
          /\ pc' = "exit" /\ UNCHANGED sock
    /\ dest' = NULL
    /\ Main /\ UNCHANGED <<tables, queues, addresses, start, last_fd, wait, keys>>

\* A peer answers at its listening address only.
ConnectTo ==
    /\ pc = "connect" /\ FdLeft /\ addresses[dest.to] = "listening"
    /\ sock' = Set(sock, NewFd, Fresh(dest.to))
    /\ Register(NewFd, dest.to)
    /\ pc' = "identify"
    /\ Main /\ UNCHANGED <<addresses, start, last_fd, wait, dest, keys>>

\* The result of sending the identity is ignored.
SendIdentity ==
    /\ pc = "identify"
    /\ SendNow(dest.to, NULL, "put")
    /\ UNCHANGED <<backlog, pollfds, queues, addresses, start, last_fd, wait, dest, keys,
                   calls, suspended>>

Put(use) == pc = "put" /\ dest.use = use /\ dest' = NULL

SendDirect ==
    /\ Put("send_msg") /\ Empty(send_qs[dest.to])
    /\ SendNow(dest.to, calls, "idle")
    /\ UNCHANGED <<backlog, pollfds, queues, addresses, start, last_fd, wait, keys, calls,
                   suspended>>

Enqueue_first == send_qs' = [send_qs EXCEPT ![dest.to] = <<calls>> \o @] /\ pc' = "idle"
Enqueue == send_qs' = [send_qs EXCEPT ![dest.to] = Append(@, calls)] /\ pc' = "idle"

SendLater ==
    /\ Put("send_msg") /\ ~Empty(send_qs[dest.to])
    /\ Enqueue
    /\ Main /\ UNCHANGED <<sock, tables, stream, addresses, start, last_fd, wait, keys>>

SendStream ==
    /\ Put("send_stream")
    /\ Enqueue /\ stream' = Set(stream, calls, NewStream)
    /\ Main /\ UNCHANGED <<sock, tables, addresses, start, last_fd, wait, keys>>
-----------------------------------------------------------------------------
(***************************************************************************)
(* The rest of net.h.                                                      *)
(***************************************************************************)
Where(fd) == {i \in DOMAIN pollfds : pollfds[i] = fd}

NetSuspend(n) ==
    LET is == Where(connections[n]) IN
    /\ Idle("net_suspend") /\ connections[n] # NULL /\ n \notin suspended
    /\ pollfds' = IF is = {} THEN pollfds ELSE Set(pollfds, Lowest(is), -connections[n])
    /\ suspended' = suspended \cup {n}
    /\ UNCHANGED <<kernel, nids, connections, queues, addresses, start, last_fd, control,
                   calls, wire>>

\* The application resumes what it has suspended.
NetResume(n) ==
    /\ Idle("net_resume") /\ n \in suspended /\ EntryLeft
    /\ pollfds' = IF connections[n] = NULL THEN pollfds ELSE Append(pollfds, connections[n])
    /\ suspended' = suspended \ {n}
    /\ UNCHANGED <<kernel, nids, connections, queues, addresses, start, last_fd, control,
                   calls, wire>>

\* setNodeAddr, as an address message makes handle_msg call it.
SetNodeAddr(n) ==
    /\ Idle("setNodeAddr") /\ addresses' = Set(addresses, n, "listening")
    /\ Main /\ UNCHANGED <<sock, tables, queues, start, last_fd, control>>

NoTables_connected ==
    /\ pollfds' = << >> /\ nids' = [fd \in FD |-> NULL] /\ UNCHANGED connections
NoTables ==
    /\ pollfds' = << >> /\ nids' = [fd \in FD |-> NULL]
    /\ connections' = [n \in Peer |-> NULL]

\* The kernel resets the connections nobody accepted.
ShutdownServer ==
    /\ Idle("shutdown_server")
    /\ IF \A fd \in FD : nids[fd] # NULL => sock[fd] # NULL
       THEN /\ sock' = [fd \in FD |-> IF nids[fd] # NULL THEN NULL ELSE sock[fd]]
            /\ pc' = "down"
       ELSE pc' = "exit" /\ UNCHANGED sock          \* EBADF
    /\ NoTables /\ backlog' = << >>
    /\ stream' = [c \in Call |-> IF stream[c] = NULL THEN NULL
                                ELSE [stream[c] EXCEPT !.freed = TRUE]]
    /\ send_qs' = [n \in Peer |-> NULL]
    /\ UNCHANGED <<addresses, start, last_fd, wait, dest, keys, history>>

InitServer ==
    /\ pc = "down" /\ pc' = "idle"
    /\ start' = 0 /\ pollfds' = Append(pollfds, server_fd)
    /\ Main /\ UNCHANGED <<sock, nids, connections, queues, addresses, last_fd, wait, dest, keys>>
-----------------------------------------------------------------------------
Polling == NextMsgNow \/ PollNothing \/ PollAccept \/ PollRecv \/ PollAgain \/ Accept
Serving == WaitIdle \/ Identified \/ Unidentified \/ WaitError \/ NetIdle
              \/ \E n \in Peer : SendReady(n)
Sending == \/ \E n \in Peer : Send(n, "send_msg") \/ Send(n, "send_stream")
           \/ ConnectFails \/ ConnectTo \/ SendIdentity \/ SendDirect \/ SendLater \/ SendStream
Application == \/ Sending \/ NextMsgSame \/ WaitReturns \/ MsgSource
               \/ \E n \in Peer : NextMsgFrom(n) \/ NetSuspend(n) \/ NetResume(n) \/ SetNodeAddr(n)
               \/ ShutdownServer \/ InitServer
Others == \/ \E n \in Peer : PeerConnects(n)
          \/ \E fd \in FD : PeerSends(fd) \/ PeerCloses(fd) \/ PeerResets(fd)
          \/ \E c \in Call : StreamPut(c) \/ StreamClose(c)

Next == Polling \/ Serving \/ Application \/ Others

Spec == Init /\ [][Next]_vars
-----------------------------------------------------------------------------
(***************************************************************************)
(* The main thread goes on with the function it is in, and the main loop   *)
(* of src/server.cpp calls next_msg_now for ever.                          *)
(***************************************************************************)
GoesOn ==
    \/ PollNothing \/ PollAccept \/ PollRecv \/ PollAgain \/ Accept
    \/ WaitReturns \/ Identified \/ Unidentified \/ WaitError
    \/ \E n \in Peer : SendReady(n)
    \/ ConnectFails \/ ConnectTo \/ SendIdentity \/ SendDirect \/ SendLater \/ SendStream
ThreadSpec == Spec /\ SF_vars(NextMsgNow) /\ WF_vars(GoesOn)

\* A connecting peer runs the same connect_to: it sends its identity, or its connection
\* ends.
Heard == wait # NULL /\ (PeerSends(wait.fd) \/ PeerCloses(wait.fd))
FairSpec == ThreadSpec /\ WF_vars(Heard)
-----------------------------------------------------------------------------
TypeOK ==
    /\ sock \in [FD -> Socket \cup {NULL}]
    /\ backlog \in {<< >>} \cup {<<n>> : n \in Peer}
    /\ pollfds \in Seq({server_fd} \cup FD \cup {-fd : fd \in FD})
    /\ nids \in [FD -> Peer \cup {Nobody, NULL}]
    /\ connections \in [Peer -> FD \cup {NULL}]
    /\ send_qs \in [Peer -> Seq(1 .. calls) \cup {NULL}]
    /\ stream \in [Call -> Stream \cup {NULL}]
    /\ \A c \in Call : stream[c] # NULL => c <= calls /\ stream[c].len <= stream[c].puts
    /\ addresses \in [Peer -> {"none", "listening", "ephemeral"}]
    /\ start \in Nat /\ last_fd \in FD \cup {NULL}
    /\ pc \in {"idle", "poll", "accept", "wait", "send", "connect", "identify", "put", "down"}
             \cup Ended
    /\ wait \in Waited \cup {NULL} /\ (pc = "wait" => wait # NULL)
    /\ keys \in Seq(Peer) /\ (pc = "send" => keys # << >>)
    /\ dest \in Destination \cup {NULL}
    /\ pc \in {"connect", "identify", "put"} => dest # NULL
    /\ calls \in 0 .. MaxCalls /\ wire \in [Peer -> 0 .. calls] /\ suspended \subseteq Peer

\* The tables never lead to somebody else's socket, however often the kernel has
\* handed out a descriptor again: what connections and nids say of a descriptor
\* is the peer of the socket it is open on (accept_connection, connect_to,
\* recv_msg and send_msg_now change the tables and the descriptors apart), and
\* a peer that is connected has a queue.
Addressed ==
    /\ \A n \in Peer : connections[n] # NULL =>
          /\ sock[connections[n]] # NULL /\ sock[connections[n]].peer = n
          /\ send_qs[n] # NULL
    /\ \A fd \in FD : nids[fd] \in Peer => sock[fd] # NULL /\ sock[fd].peer = nids[fd]

\* A connection that nids lists is polled unless its peer is suspended: no path
\* through hangup, failed send, descriptor reuse or pruning drops its entry while a
\* peer has one connection at a time.  (With two, net_resume may find neither.)
NotForgotten ==
    \A fd \in FD : nids[fd] \in Peer \ suspended => fd \in Range(pollfds)

\* What goes out to a peer goes out in the order of the calls to send_msg and
\* send_stream, whoever writes the streams and however often the peer connects.
InOrder == [][\A n \in Peer : wire'[n] >= wire[n]]_vars

\* A stream that its writer has not closed holds back every later message, also
\* one for which send_msg could send directly.
StreamsHold ==
    [][\A n \in Peer, c \in Call :
          /\ send_qs[n] # NULL /\ c \in Range(send_qs[n])
          /\ stream[c] # NULL /\ stream[c].open
          => wire'[n] <= c]_vars

\* The round robin of next_msg_now: a message waiting on a polled connection is
\* received, whatever the other peers send, connect and close, unless the thread is
\* caught in an accept that nothing waits for.  (The closed descriptor of a failed
\* send is reported by poll, and start may then be the server's entry.)
Caught == pc = "accept" /\ backlog = << >>
EverybodyHeard ==
    \A fd \in FD :
        sock[fd] # NULL /\ sock[fd].in > 0 /\ nids[fd] \in Peer
        ~> sock[fd] = NULL \/ sock[fd].in = 0 \/ Caught \/ pc \in Ended
-----------------------------------------------------------------------------
(***************************************************************************)
(* What the comments and the README of the code say.                       *)
(***************************************************************************)
\* include/net.h, "source of last message": for the message next_msg_now has just
\* returned, nids[last_fd], which msg_source reads, is the peer at the other end,
\* however often the descriptor has changed hands since (accept_connection's and
\* connect_to's insert would keep an old entry).  An application that calls
\* msg_source after a failed send, as file.cpp:101 may, plants the nid 0 in the
\* entry, and reads that for the next peer on the descriptor, never another peer.
SourceRight ==
    [][PollRecv /\ pc' = "idle" =>
          \/ nids'[last_fd'] = sock[last_fd'].peer
          \/ "msg_source" \in Uses /\ nids'[last_fd'] = Nobody]_vars

\* include/net.h, "nonblocking": next_msg_now returns, with a message or without,
\* whatever the peers do.
NextMsgNowReturns == pc = "poll" ~> pc = "idle" \/ pc \in Ended

\* README.md, "partition-tolerant": whenever peers go and whatever is sent to
\* them, the node's behaviour is defined.
AlwaysDefined == pc # "undefined"
=============================================================================
