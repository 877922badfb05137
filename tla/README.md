# Verification of iu

This directory models the core of iu, a peer-to-peer messaging backend, in
TLA+. The modules are translated from the source at the commit beside this
directory; `PROJECT.json` names, for every definition, the lines it stands for.
TLC checks each module on small instances. TLAPS proves for every instance: the todo
queue and the send stream, each with the refinement of what it promises; the tables of
the connections and the order in which messages leave; that the addresses and replies
of the control channel go where they belong and nothing is left behind; and that a
conversation is sorted and loses nothing.

Paths such as `net.cpp:330` are below `src/src/` for `.cpp` files and below
`src/include/` for `.h` files. The exceptions are `src/iuctl.cpp`, the iuctl
program, and `src/README.md`, which are written out.

## 1. The system

Three programs: **iuserver** relays, **iuclient** sends and receives, **iuctl**
commands a running server. A server or a client is one *main thread*, in a loop
over `next_msg_now`, and *detached threads* that send or receive one file each.

| Component | Source | State | Operations |
|---|---|---|---|
| Todo queue | `mpsc.h`, `todo.cpp` | a lock-free linked list: `first`, `last`, the nodes | `add_todo` by any thread, `do_todos` by the main thread, the destructor |
| Send stream | `concat.h` | a list of items and of given streams: `first`, `last`, `listener`, `off` | `put`, `give`, `close` by a writer; `get`, `peek`, `skip`, `ready`, `empty`, `depleted` by the listener |
| Connections | `net.cpp` | `pollfds_vector`, `nids`, `connections`, `send_qs`, `addresses`, `start`, `last_fd` | `next_msg_now`, `next_msg_from/same`, `net_idle`, `send_msg`, `send_stream`, `net_suspend/resume`, `shutdown_server`, ... |
| Control channel | `iuctl.cpp`, `iuctl_server.cpp`, `src/iuctl.cpp` | the pid file, one System V queue | `status`, `addr`, `net`, `shutdown`; signals |
| File transfer | `file.cpp` | per transfer: a thread, a descriptor, a stream | `send_file`, `recv_file`, two todos |
| Messenger | `messenger.cpp` | sequence numbers, `sent`, `received`, conversations | `messenger_text/file`, `handle_item_msg` |
| Relay | `relay.cpp` | none of its own | `handle_item_relay` |
| Loops | `server.cpp`, `client.cpp` | none of their own | `main_loop` |
| Node, datacenters | `node.cpp`, `datacenters.cpp` | own id; nodes and their locations | `init_node`, `handle_msg`; `setNodeLocation`, `getServer` |
| Messages | `msg.cpp`, `types.cpp` | layouts | constructors |
| Broadcast stream | `stream.h` | a list of elements and given keys, a `listeners` cell per port, proxies with a `populate` thread | `listen`, `put`, `give`, `close`, `cancel`; the calls of a listener. Used by `tst/stream.cpp` only |

How they interact:

- the main loop calls `next_msg_now` and hands the message to the relay (server)
  or the messenger (client); the server also calls `handle_iuctls`, `net_idle`
  and `do_todos`;
- `net.cpp` owns one outer send stream per peer. `send_stream` gives it an inner
  stream, which a file thread writes while the main thread listens;
- file threads report to the main thread through the todo queue only, except
  that a receiving thread itself calls `next_msg_from` and with it `net_idle`;
- peers connect, send, close and fail at any time; the kernel reuses descriptors;
- iuctl processes share one message queue with the server, and are killed and
  interrupted like any program.

What is hard: lock-free code (the todo queue, the streams); tables that are
updated apart while peers and descriptors come and go; protocols of two messages
without an acknowledgement; two threads that read one connection in turn; items
that overtake each other on different routes; loops that wait for somebody else.
`PROJECT.json` lists each hazard at its line, with the properties that cover it
or the reason none does yet.

What makes each component correct:

- *todo queue*: no access to a freed node, no leak, no job lost, repeated or
  overtaken, and a job whose put is done is run;
- *send stream*: the same, and `ready`, `empty` and `depleted` answer rightly
  while the writers go on;
- *connections*: the tables never name somebody else's socket; a connection that
  is not suspended is polled; messages leave in the order of the calls; every
  peer is heard; no end of a connection makes the behaviour undefined;
- *control channel*: each reply goes to the request it answers, the two messages
  of a pair stay together, every command ends, nothing stays in the queue;
- *file transfer and relay*: the threads that read one connection divide its
  messages rightly; an item is directly followed by its text or file, whole and
  in order; every item that was sent gets through;
- *messenger*: a conversation is sorted and keeps what was handled; what is sent is
  handled at last;
- *datacenters*: the two maps agree;
- *broadcast stream*: every listener gets every element, in order; nobody touches a
  freed node; the writer never waits for ever.

## 2. Modules

| Module | What it is | Extends / instantiates |
|---|---|---|
| `TodoQueue` | what `todo.h` promises: a queue of jobs, each *landed* or not | |
| `Mpsc` | `mpsc.h` and `todo.cpp`, one action per access to a shared cell | instantiates `TodoQueue` |
| `MpscProofs` | the proofs about `Mpsc` | extends `Mpsc`, `TLAPS` |
| `Stream` | what `concat.h` promises: one sequence of items, read in order | |
| `Concat` | `concat.h`, one action per load of a shared cell | instantiates `Stream` |
| `ConcatProofs` | the invariant of `Concat`, what follows from it, and that `Concat` implements `Stream` | extends `Concat`, `TLAPS` |
| `Net` | `net.cpp` over a model of the kernel's sockets and of `poll` | |
| `NetProofs` | the proofs about `Net` | extends `Net`, `TLAPS` |
| `Iuctl` | server and iuctl processes over the file and the queue | |
| `IuctlProofs` | the proofs about `Iuctl` | extends `Iuctl`, `TLAPS` |
| `Broadcast` | `stream.h`, one action per load of a shared cell | |
| `BroadcastProofs` | the proofs about `Broadcast` | extends `Broadcast`, `TLAPS` |
| `Relay` | one server that relays: `server.cpp`, `relay.cpp`, `file.cpp`, thread by thread, over what `Net` and `Concat` show of the layers below | |
| `RelayProofs` | the proofs about what the threads of `Relay` read and poll | extends `Relay`, `TLAPS` |
| `RelayOrder` | the proofs about what they send, and in which order | extends `RelayProofs` |
| `Datacenters` | `datacenters.cpp`, as operators on a record of the two maps | |
| `Messenger` | clients with `messenger.cpp` and the server between them; one step per message | extends `Datacenters` |
| `MessengerProofs` | the proofs about `Messenger` and `Datacenters` | extends `Messenger`, `TLAPS` |
| `MC*` | the bounds of the runs | extend the module they are named after |

The layers rest on one another: `Concat` shows that a concat is a `Stream`; `Net`
and `Relay` take a send queue to be one; `Messenger` takes a connection to be the
queue and the wire of `Net`, and a relayed item to be in one piece, which is
`ContentFollows` of `Relay`.

A definition with a suffix (`PutSwap_loadOnly`, `StillOpen_ignored`) is a
plausible mistake in the code. No specification uses it: it replaces the
definition of the same name without the suffix to confirm that a property
notices (`mutants` in `PROJECT.json`).

### 2.1 Todo queue (`Mpsc`, `TodoQueue`)

`PutAlloc`, `PutSwap` and `PutLink` are the allocation, the `exchange` and the
`store` of `put`. `DoTodos`, `GetEmpty`, `GetSome`, `GetAdvance`, `GetFree` and
`RunJob` are `do_todos` and `get`. `Destroy*` is the destructor. `Node` is the
set of addresses that `malloc` returns: a freed one may come back at once, so a
stale pointer really meets another thread's node. `chain` is a history variable,
the nodes in the order of the exchanges.

The abstract queue has a job's call take effect at its exchange (`Enqueue`), and
then land (`Land`). `do_todos` may stop on an unlanded head: the code does too,
when a thread is suspended between exchange and store. Nothing is lost by it;
the next `do_todos` goes on.

### 2.2 Send streams (`Concat`, `Stream`)

A *location* is what a `node**` of the code points to: the first cell of a
stream or the next cell of a node. `Put`, `Give`, `Close` and the `Sweep*`
actions are a writer. The listener is a small program counter machine over
`load`, `off`, `reload`, `end`, `have` (shared by `get`, `peek`, `skip` and
`depleted`, which wait in the same way), `ready*` and `empty*`. Given streams
hold items only: `send_stream` is the only caller of `give`, and gives to a
peer's outer stream. The outer stream has a writing thread of its own here; in
the program the main thread both writes it and listens, which is one of the
interleavings. `Node` is any set of addresses, and what the destructor frees (`From`) the
smallest set of nodes that no next cell leads out of.

Assumed: loads and stores take effect in program order. The cells are volatile
`node*` and `bool`, and the program is built for x86-64. In C++ they are data
races. `*listener == iter` in `sweep` loads the location and the cell in one
step, because the cell is written by the sweeping thread alone.

### 2.3 Connections (`Net`)

The state variables have the names of the static variables in `net.cpp`; `sock`
and `backlog` are the kernel. `pc` says where the main thread is when another
party can act in between: in the recursion of `next_msg_now` (`poll`), blocked
in `accept`, in `next_msg_from_fd` (`wait`), in the round of `send_readies`
(`send`), in `connect_to`, between the identity message and the put. It also says
how the process ended: `exit`, `killed` by SIGPIPE, or `undefined`, when the code
dereferences `connections.end()` or writes to a deleted stream.

The send queues are what `Concat` shows a concat to be: a sequence of calls, each a message or a
stream with so many messages left. The first call that is not finished (`Foremost` of
the `Unfinished` entries) decides whether the queue is ready and what `get` takes from
it; `get` drops what it passes, as the listener of a concat leaves it behind. `Picked`
are the entries that `prunePollFds` leaves, in their order. `Known` are the peers whose
listening address the application has set before, as `iuclient` does with the server's.

The kernel is that of Linux. `poll` reports the end of the stream as POLLIN and
POLLRDHUP, a reset as these and POLLHUP, an unconnected socket as POLLHUP and a
closed descriptor as POLLNVAL. The lowest free descriptor is handed out. `poll`
and the `recv` after it are one step, for nobody else reads the socket; `poll`
and `send` are not, so a reset in between is one of the outcomes of `SendNow`
(ECONNRESET; EPIPE when the peer had closed, and nothing ignores SIGPIPE).

### 2.4 Control channel (`Iuctl`)

Every system call on the file or the queue is a step. `queues` grows by one each
time `msgget` makes a queue; the key of a queue is the inode of the file.
`pc` of the server is the request it handles, `pc` of a client the message it
sends or waits for. `Die` kills a process between any two steps; `ServerSignal`
is SIGINT or SIGTERM, whose handler removes queue and file from wherever the
server was. A server starts only when no other is running, and pids are not
reused.

### 2.5 Broadcast streams (`Broadcast`)

An outer stream with one or two ports, a second stream with one, and the key of
that one given to the first. Nodes are numbered as they are linked, so `freed`
says which are gone. A call of a listener is the same small machine as in
`Concat` (`Load`, `CheckOff`, `Reload`, `Found`), and goes into a given stream with
`EnterGiven`: in place when there is one port, through a *proxy* otherwise. The
actions `Populate*` are the thread that copies the given stream to the proxy;
`SweepCancel` and `SweepJoin` are the `pthread_cancel` and the join of the writer
that deletes it, `PopulateCleanup` what the canceled thread runs. A canceled
`populate` goes on until it sleeps in `depleted`, its cancellation point (`Cancels`).

`ready` on a proxy with several ports has no definite answer, and the test never
asks for it: with two listeners the run makes the calls that wait.

### 2.6 Relay (`Relay`)

Threads: the main loop (`mpc`), a deputy per incoming file (`dpc`), a sender per
outgoing file (`out`). A deputy that finds nothing in its socket runs `net_idle`
(`net.cpp:243`), and so `Prune` and `SendGet`/`SendNow`, which the main thread runs
as well (`idle` says where in `net_idle` each thread is). `holding` is a message
taken out of the send queue and not sent yet. `pollfds` keeps the entries beyond
`count`, for the code reads `start` after another thread's prune.

Two threads at once in a part that is made for one make the behaviour undefined:
`Race` ends it with `over = "entries"` (poll entries that one moves and the other
uses), `"tables"` (the entries and maps that the main thread appends to, in `connect_to` or
`net_resume`, while a deputy looks through them) or `"queue"` (the listener's end of the
send queue). NULL from
`next_msg_from` or `send_stream`, which the deputy and `on_finished` use without a
test, ends it with `over = "undefined"`. `over = "mixed"` means that a thread took a
message for what it is not; that this never happens is a property (`TakenRight`),
not an assumption.

The entries are those of the code: the first is the server's own descriptor, the
sources' follow, and `Connects` appends the target's, which prunes and the round robin
count like the others. `Polling` is the flag in such an entry. `Suspended` is what
`net_suspend` makes of them.

A source sends what `Messenger` makes a client send, and may hang up between any
two messages. The target's address is known, and a connection to it may be
refused. What `Net` has and `Relay` leaves out is in section 5.

### 2.7 Messenger and datacenters (`Messenger`, `Datacenters`)

`Begin`, `Send` and `Retry` are `messenger_text` and `messenger_file`: the number is
taken, then the item goes to its receiver, or else to whatever `getServer` says, as
often as it takes. `AddReceived` is `add_received`; `item.received` is never
assigned (`messenger.cpp:115`), so the mark is either value. A file is one entry of
a queue, `whole` once its sender has closed the stream; `HandleFile`, `DeputyGet`,
`AddTodo`, `Resume` and `SetFinished` are `recv_file` with its two todos. `RelayText`
and `RelayFile` are the server. `SetLocation` and `GetLocation` are what the
application and `net_addresses` say and ask, `SetNodeAddr` and `Accept` how
addresses become known.

`made`, `handled` and `destroyed` are history variables. `Looping` are the nodes
whose loop runs `net_idle` and `do_todos`: the server, and the clients in `Maintaining`,
which have the loop that `tst/messenger.cpp:57-66` writes for itself. `main_loop` of
`client.cpp` runs neither; such a client sends what is queued only in a thread that waits
for its next message (`Awaiting`, and the deputies). A node of `Looping` may always do what
another may, so for safety a run with every client in it contains the shipped clients'
behaviours; for liveness it does not, and `messenger_client` has no client in it.
`Early` (locations are said
before the first item) and `Routed` (no file takes a connection of a client to
itself) are bounds. The `id` of an item is the model's, to tell apart two items with
one index; `ItemMsg` keeps it with the message. Nobody leaves and nobody connects to a
node that is connecting to it: `Net` has these cases, and what they break is in section 3. The map `sent`,
which is only written, is left out.

## 3. Runs

All numbers are distinct states. Runs that turn off the deadlock check say so in
their `.cfg`: in each of these systems the program may exit, or wait for a party
that need not do anything more.

| Run | Bounds | Shows |
|---|---|---|
| `mpsc` | 3 producers, 2 jobs, 4 addresses (150 thousand) | memory safety, no leak, every gap in the list has the put that mends it; the inductive invariant; the list implements `TodoQueue`; every job is run |
| `concat` | 2 given streams, 2 items, 3 nodes (920 thousand) | memory safety, no leak, list and history agree, right answers, sweeps keep up; the cells implement `Stream`; calls return once all is closed |
| `net_tables` | 2 peers, 2 descriptors, 1 `send_msg`, calls of `msg_source` (172 thousand) | the tables lead to the right peer's socket; a message's source is the peer that sent it, or the 0 that `msg_source` made up; every peer's message is received |
| `net_queues` | 1 peer, 1 descriptor, 2 calls, streams of 1 message, suspend and resume, restarts of the server (1.6 million) | messages leave in the order of the calls; an open stream holds later ones back; a connection not suspended is polled; a restart leaves nothing in the tables |
| `iuctl` | 2 successive servers, 2 clients, a queue of 3 messages, kills, crashes, signals (564 thousand) | replies and addresses go where they belong; where nobody is killed, commands end and nothing is left in the queue |
| `broadcast` | 1 listener with every call, or 2 that get; 3 and 2 elements, 2 and 1 given ones (158 thousand) | memory safety also of proxies, order, right answers; calls return; the writer returns |
| `relay` | 2 sources of one item each, one may leave, 2 refusals (365 thousand) | messages are divided rightly, sources are polled when they should be, items arrive whole, in one piece, and all |
| `messenger` | 2 clients and a server, 3 items, 3 datacenters, 1 destroy (165 thousand) | the maps agree, conversations are sorted and keep what they have |

Why the bounds are enough: three producers make a gap behind a gap, with a
consumer freeing in front of both; with four addresses for up to four nodes one
comes back while another thread still holds a pointer next to it. Two given
streams in a list make `ready`, `empty` and `sweep` pass more than one; 3 nodes
hold both and an item beside or in one of them. Two listeners of a broadcast
stream make one the hindmost while the other moves. Two descriptors for two peers make a descriptor
change hands and a peer have two connections. Two calls are a message behind a
stream and a stream behind a message. Two clients make commands overlap, and two
servers make one meet what its predecessor left; two commands put up to four messages
into the queue of three. One source of `relay` sends a
file of 3 bytes in chunks of 2, the other an empty file or a text: a transfer with
a full and a partial chunk beside one with none. In `messenger` the two items of
the first client may go by different routes, as text and file, with a
`messenger_destroy` between them, which makes every order of arrival and a number
used twice; three datacenters and two nodes that are said to be somewhere make
`getServer` be right, wrong and the client itself.

In `Concat` a writer takes the same free address every time (`Link`): addresses
differ in nothing else, and every node that is freed comes back at the next put.

The bounds of `Net` cut behaviours off and never add any: `MaxFd` (descriptors;
`FdLeft` keeps one for each connection that waits or is being made), `MaxCalls`, `MaxIn` (messages in
a socket), `MaxPuts` (messages in a stream), one connection in the backlog, and
`EntryLeft` (entries that suspend and resume leave). `Uses` is the part of
`net.h` that the application in a run calls.

Three properties of `Net` are checked under a condition, which is their meaning:

- `NotForgotten` holds while a peer has one connection at a time
  (`net_queues`: one descriptor). With two (after a restart of the peer, or when
  both sides connect at once), `net_suspend` negates the entry of the one in
  `connections` only; when the other ends, `recv_msg` erases that entry
  (`net.cpp:213`) and `net_resume` finds nothing to resume.
- `SourceRight` excuses the 0 that `msg_source` plants (`net.cpp:185`) when it is called
  after a failed send has erased the entry, as `file.cpp:101` may: `insert` keeps it for
  the next connection on the descriptor, whose messages then come from 0. It never names
  another peer.
- `EverybodyHeard` excuses a node `Caught` in `accept` with nobody to accept, where it
  gets after a failed send: see `net_nonblocking` below.

### Disagreements

Four runs end in a counterexample: each checks what a text of iu says and finds the
code do otherwise (`findings` in `PROJECT.json`).

| Run | What happens |
|---|---|
| `net_nonblocking` | `net.h:29`, "nonblocking": `next_msg_now` waits in `accept_connection` for the identity of a peer that has connected, as long as the peer is silent. It fails too when all peers identify themselves: after a failed send the closed descriptor keeps its entry (`net.cpp:339`, `net.cpp:350`), `poll` reports POLLNVAL at once, no entry has anything to receive, and `next_msg_now` takes the one `start` is at. If that is the server's, it blocks in `accept` (`net.cpp:449`); if it is the closed one, it calls itself for ever (`net.cpp:470`) |
| `messenger_client` | `src/README.md:1-2`, "guarantees eventual delivery": with the shipped `main_loop` of `client.cpp:20-31`, which runs neither `net_idle` nor `do_todos`, a file stays in its sender's queue, although all addresses are known and nobody leaves |
| `net_partition` | `src/README.md:1`, "partition-tolerant": a peer has gone, its queue is still there, and `send_msg` dereferences `connections.end()` |
| `relay_threads` | `concat.h:17`, "specialized for one listener": a deputy sends from the queue the main thread sends from |

Further behaviours of the code that restrict a property, each by the condition
named with it:

- `CommandsEnd` and `NoLeftovers` claim nothing once somebody has been killed
  (`Unharmed`). A client killed between the two messages of `addr` leaves the server in a loop
  (`iuctl_server.cpp:41`), and replies to a killed client stay for ever. `CommandsEnd` is also
  about one server (`Alone`): a client that has read the pid of one may find the
  queue of the next, which does not receive for that pid. And the queue must have room for more messages than there are
  clients: else it fills with requests, and the server waits in `msgsnd` for room that only
  it can make.
- `InOrder` of `Broadcast`: `peek` passes its own port to the given stream
  (`stream.h:211`) where the other calls pass the key's; with a key of another port
  it does not show the next element (`stream.h:106`). The run gives the key of port 0,
  read in place by port 0.
- `ContentFollows` of `Relay` leaves out behaviours in which a thread sends while
  another holds a message it took from the queue (`crossed`): the two go out in
  either order.
- `PolledOnce` allows one way besides its end for a source to drop out: a deputy's prune
  between `recv` (`net.cpp:463`) and `poll_fds[start].fd = -fd` (`net.cpp:467`) shifts
  the entries, and the main thread negates that of another source, which is then polled
  no more, although it is there. The history variable `mistaken` records it;
  `EveryItemRelayed` claims nothing of what is sent after it. It takes three sources (a prune
  must drop an entry in front of the one that was chosen and leave one behind it), so in
  `relay`, with two, nothing drops out; `PollsOnce` (section 4) is about any number.
- `EveryItemRelayed` claims nothing of a source that leaves, of an item the target
  refused, and of behaviours that end in a race or in which the main thread negated the
  wrong entry.
- `Sorted` is about the items that are marked received; since the mark is not
  assigned, a conversation as a whole need not be in the order of the indices.
- `Kept` claims nothing of a conversation after a `messenger_destroy` of either side,
  nor once an item for somebody else went astray to here (`Astray`): `getServer` may be a
  client, `handle_item_msg` does not compare the receiver, and the index of such an item
  counts those to its own receiver. A sequence number is unique between a sender and a
  receiver only (`messenger.cpp:6`), and `add_received` overwrites what has the same
  index (`messenger.cpp:27`).
- `Delivered` is not claimed at all. `messenger_client` makes the best case for the shipped
  client: every address is known. Apart from that run's counterexample, `getServer` may be
  the client itself, which sends the item to itself, or a node without an address, which
  makes `messenger.cpp:74` loop for ever; and a server that does not know the receiver
  relays the item to itself, again and again.

### Fairness

- `Mpsc`: a thread inside `put` is scheduled, and the main loop calls `do_todos`
  for ever, as `server.cpp:33` does. No put has to start.
- `Concat`: the listener inside a call and a writer inside `put` or `give` are
  scheduled. Nothing has to be put, closed or called.
- `Net`, `ThreadSpec`: the loop of `server.cpp:22-34` calls `next_msg_now` again and again.
  This is strong fairness, since between two calls the loop may be in `net_idle`. A call
  goes on once started. This is all that `net_nonblocking` assumes. `FairSpec`, for
  `EverybodyHeard` in `net_tables`, adds `Heard`: a peer whose connection is accepted sends its
  identity or closes, for it runs the same `connect_to`, whose next step is to send it.
  Without that one silent peer keeps the main thread in `accept_connection` and nobody
  is heard, which is what `net_nonblocking` shows.
- `Iuctl`: each running process is scheduled. A server or a client blocked in
  `msgsnd` proceeds when there is room.
- `Broadcast`: the writer of the outer stream inside a call, `populate`, and each
  listener inside a call are scheduled. Nothing has to be put, closed or called: the
  source of a `populate` that is joined may never be written again.
- `Relay`: when some thread can take a step, one does. No step of a thread can be
  repeated for ever, so this weak fairness of all together gives each thread its
  turn in the end. A source finishes an item it has begun (its sending thread does
  nothing else), unless it leaves.
- `Messenger` (`messenger_client` only): the same for the nodes together, and apart from it
  for what the server relays to itself, the one thing that can go round.

## 4. Proofs

`MpscProofs` proves the following for every set of producers, jobs and addresses,
from the one assumption that NULL is none of them:

| Theorem | Statement |
|---|---|
| `Invariance` | `Spec => []IInv` |
| `TypeCorrect`, `MemorySafety`, `LeakFreedom`, `Mending` | the four invariants of `mpsc` |
| `Refinement` | `Spec => Todo!Spec`: the list implements the queue of todos |

*The invariant.* `MemorySafe` is not inductive: it says that a suspended producer's
`prev` is allocated, but not why the consumer, which frees the node it leaves,
will not leave that one. The reason is `ChainMends`. `prev` has a NULL next cell,
because only this producer can store to it, and the consumer leaves a node only
through a next cell that is not NULL. For this to be kept by an exchange, `last`
must be the end of the chain and its cell NULL, and no node may occur twice, be
freed while in the chain, or be the proposal of two producers (`Distinct`); for the
consumer's steps, what `get` has tested must still hold (`Consumer`). `IInv` is
their conjunction. `NextIInv` has one lemma per action that moves a pointer,
under it one step per conjunct. TLC checks `IInv` in `mpsc`.

*The refinement.* The abstract queue is the tail of `chain`, each entry with its
job and the producer that has still to link it (`Adder`). `NextRefines` maps the
exchange to `Enqueue`, the store to `Land`, the consumer's steps to `Dequeue` and
the ends of `do_todos`, and the rest to stutters.

`ConcatProofs` proves, for any given streams, items and addresses,
from `ConcatAssumption` (the outer stream is not a given one; streams, items, addresses
and NULL are told apart):

| Theorem | Statement |
|---|---|
| `Invariant` | `Spec => []IInv` |
| `Types`, `MemorySafety`, `LeakFreedom` | the three invariants of `concat` |
| `SweptClean` | `Spec => Swept`: after a put or a give at most one node is read and not freed |
| `AnswersAreRight` | `Spec => AnswersRight`: `ready`, `empty` and `depleted` |
| `Refinement` | `Spec => RefinesStream`: reading through the pointers is reading one sequence |

*The invariant.* `MemorySafe` is about single pointers, and says nothing of the next
step. `Shape` says what the memory is: the cells of a live stream spell its list
(`Linked`), each node is in one place of one list (`Distinct`), a given stream is live and
in exactly one node of the outer list (`Values`), what is not live is as constructed
(`Dead`), and what is allocated is in a list (`Allocated`). `Writing` and `ListenerAt` say
where the threads are in it. A sweep frees the oldest node only when two are read: it
compares the listener's cell with the next one. So it never frees the node whose cell the
listener waits on, although the listener moves while it runs. It deletes a given stream
in the node it frees; `Left` is why that is sound: the listener has passed only given
streams that are closed and read, so the writer of the given stream is done with it.
`ListenerAt` holds what each value the listener has loaded entitles it to. The order
matters: after `closed()` was true, nothing is put any more, so the `first` loaded after it
decides (`concat.h:197`); this is where `ready` with its two calls swapped would fail.
`Promises` does the same for a call of `ready` that began with something to read.

*The refinement.* The abstract queue is the values of the unread nodes. `Put`
and `Give` map to the steps of these names, or to `SubPut` on a given stream, `Close` to
`End` or `SubClose`; the step with which the listener takes an item or leaves a
given stream to `Get`, `Peek`, `Skip`, `Pass` or `RunOff`; the destructor to `Destroy`; the
loads and the sweeps to stutters. There is one lemma for each action.

`NetProofs` proves, for any peers, descriptors, calls, sizes and uses of `net.h`, from
`NetAssumption` (a finite set of peers; NULL and `Nobody` are told apart from them):

| Theorem | Statement |
|---|---|
| `Invariant` | `Spec => []IInv` |
| `Types`, `TablesRight` | `TypeOK` and `Addressed`, the invariants of `net_tables` |
| `SentInOrder`, `OpenStreamsHold` | `InOrder` and `StreamsHold`, the action properties of `net_queues` |
| `ListedArePolled` | `Spec /\ []OneEach => []NotForgotten` |
| `SourceIsRight` | `Spec => SourceRight`, for any `Uses`, also with `msg_source` called at any time |

*The invariant.* `Addressed` relates `connections` and `nids` to the sockets. What breaks it
by itself is `accept_connection`, which waits for a peer's identity on a descriptor that
has been another's: `Unlisted` says that no table names it meanwhile. `Places` says which
calls can be in progress at which `pc`; in particular a connection in the backlog has a
descriptor left for it. Three conjuncts give the order of messages. The calls in a queue
increase (`Sorted`); two queues have none in common (`Apart`), for a stream is marked as
deleted with its queue; the call that is being made is later than all that are queued
(`Unqueued`), also across the connect in it. `Passed` then says that what was sent last is
not after anything unfinished, and `Round` that the peers of a round of `send_readies`
are different and still have something ready when their turn comes. Most steps that touch
a queue only drop entries in front or finish some; `DrainingKeeps` is the lemma for
them all.

*The conditions.* `ListedArePolled` uses `OneEach` (no peer is listed at two
descriptors) in one place, the end of a connection: `recv_msg` erases the entry of the
one in `connections`. It holds in `net_queues` by the bound on descriptors; with more it
is what section 3 says of `NotForgotten`. The invariant is `Followed`: besides
`NotForgotten`, what `connections` does not lead to is polled, for `net_suspend` cannot
reach it. `SourceIsRight` needs `Sourced`: the entry in `nids` of a free descriptor is
NULL, and that of a socket with something to receive names its peer, or either is the 0
of an earlier `msg_source` (`MadeUp`), which cannot be among the entries when the application
does not call it. `shutdown_server` closes by these entries; one that is made up ends the
process (`SourcedOrEnded`).

`IuctlProofs` proves, for any servers, clients, inodes, capacity of the queue and
faults, from `IuctlAssumption` (clients are not servers, NULL is neither, the capacity is positive):

| Theorem | Statement |
|---|---|
| `Invariant` | `Spec => []IInv` |
| `Types`, `AddressesPaired`, `RepliesRight` | the first three invariants of `iuctl` |
| `NothingLeftOver` | `Spec => []NoLeftovers`, the fourth, for any `Faults` |

*The invariant.* `Paired` and `RightReply` are about what was received; the reason is in
the queues. Every message in any queue, also in one that a crash left behind, is the
command of the client it is from, or what that command makes a server send (`Addressing`),
and both sides of a request are at that command (`Commanded`). This is enough for all but
`net`, whose reply is two messages. There a client that waits for the length must not find
a string first. `Once` says that of a client's request and its length there is one, or a
server about to send the length, or the client has it; `Ordered` that while a client waits
for the length no string is in a queue, or about to be sent, without the length before it.
`Once` needs `Untouched`: a client that has not asked has no message anywhere, and clients
ask once. `OneServer` makes the pid a client reads that of the one server at work.

`NothingLeftOver` adds `Tidy` to the invariant. The messages of one command are all in
the client's queue, which is that of the server that handles it (`HomedAt`, `ServerHome`):
so a `shutdown` or a signal takes them with the queue (`Emptied`). Of a request, the server
that handles it and the reply that ends the command there is one at a time (`SingleAt`), so
that a client that has read this reply leaves nothing (`FinishedAt`). The second message
of `addr` is left by a client that is over, and `AwaitedAt` says that its request is in
front of it or the server at it. `Tidy` is about sets of messages, and the lemmas
`TakenSets` and `AddedSets` say what a receive and a send do to any set. It is claimed while
everybody is `Unharmed`, which only `Die` ends.

`MessengerProofs` proves, for any clients, datacenters, addresses, routes and numbers
of items, from the assumptions of `Datacenters` and `Messenger` (ids are numbers, a
finite set of clients, and constants of the right types):

| Theorem | Statement |
|---|---|
| `Invariant` | `Spec => []IInv` |
| `Types` | `Spec => []TypeOK` (the types of all variables the others rest on) |
| `MapsAlwaysAgree` | `Spec => []Agree` |
| `AlwaysSorted` | `Spec => []Sorted` |
| `NothingLost` | `Spec => []Kept` |

*The invariant.* An item is inserted long after it was numbered: indices are compared
that have been in a queue, on a wire, with a deputy and in a todo. So the types come
first, and they are stated for a set `I` of items, `Inv(I) == Typed(I) /\ Agree /\ Sorted`:
`IInv` takes for it `Issued`, the items made so far, which makes the type invariant say
that nothing is under way that nobody made. `NumberedOnce` says that, until a sender calls
`messenger_destroy`, its items to one receiver have different numbers below the next one;
`MarkedHandled` that what is marked in a conversation was handled. With these an item
that `add_received` overwrites or takes for a duplicate is the same item (`SameNumber`), and
`Kept` is kept. The rest is in lemmas about the operators: `SetNodeLocationAgrees` and
`GetNodeLocationAgrees` about the two maps; `InsertedIncreases` and `InsertedKeeps` about
the loop of `add_received`: everything marked before the place is smaller than the new
item, everything marked from there on is greater, because the place is the first marked
item that is not smaller; and nothing that was in the list is gone. `MinOf` (from the
well-foundedness of `<`) says that there is a first one, `InsertAtOf` what an insertion
does to each place. Then there is one lemma for each action.

`RelayProofs` proves, for any sources, items, sizes of files and of chunks and refusals,
from `RelayAssumption` (the sources are finitely many descriptors, of which some may leave, and
send files of natural sizes, or texts; the server's descriptor and the target's are two
others; descriptors are positive):

| Theorem | Statement |
|---|---|
| `Invariant` | `Spec => []IInv` |
| `TakesRight` | `Spec => []TakenRight` |
| `PollsOnce` | `Spec => []PolledOnce` |

*The invariant.* It has a part for each of the two, and they need one another. `Polls` is
about the entries: a source has one that is not negated or somebody reads from it
(`Single`, `Apart`, `Listed`); two deputies never read from one source, and it is resumed
once (`ReadOnce`), also between the two todos; what the main thread has found in an
entry stays true while other threads prune (`Marked`, `Chosen`). The main thread reads
`pollfds[start]` after such a prune, and may receive from another source than `poll` chose;
the proof needs only that the entry there is still that of some polled source, which
holds because a prune moves entries to the front and leaves the memory behind them
(`PickedOf`, `PruneOf`). `InStep` is about the messages. A place is an item's number and a position in
`Whole`, the item and all its pieces. For each source there is a `Line`: the places of what it
has still to send and what is in its socket, each the successor of the one before, to the
place of the next item. `Stage` says that who reads from the source is at the first of
them: the main thread between two items or behind an item it has just taken, or one
deputy, whose count of chunks and whose bytes so far are those that place requires. So
`over # "mixed"` is kept: whatever a thread takes is what it waits for. Nobody else may
take it meanwhile, which is where `ReadOnce` and `Apart` come in; and that the first place is
never in the middle of an item without somebody there (`SomeoneAt`) is what lets the main
thread take the next message for an item. `PiecesOf` and `NumChunks` carry the arithmetic:
the header announces as many chunks as the thread sends, also for an empty file and a
multiple of `CHUNK_SIZE`.

`RelayOrder` proves about the same, and from `NullAssumption` too (NULL is no message, no
sequence of messages and no stream):

| Theorem | Statement |
|---|---|
| `OrderInvariant` | `Spec => []OrderInv` |
| `ContentInOrder` | `Spec => []ContentFollows` |

*The invariant.* `ContentFollows` looks at what the target has; that the next message fits
is decided long before. `Flow` joins all that is on its way into one order: what went to
the target, what a thread has taken and not sent (`Taken`), the entries of the send queue,
and what the main thread is about to send (`Awaits`). An entry stands for a stretch of its item
(`First`, `EndOf`): an item's own message, its text, or for a stream everything from the
message that is read next. Two neighbours fit when the second goes on where the first ends,
or begins an item behind one that is complete (`Follows`); to begin with the text or header
is right only when the target refused the item. So `send_msg` on an empty queue and behind a
full one are the same step of that order (`SendStep`), and `send_readies` moves its head on.
When two threads hold messages (`TwoHold`) nothing is claimed about the queue, as the one
that sends sets `crossed`; when the last of them has sent, `crossed` is set. `Supplies`
is about the streams: what is in one and what its thread has still to put are together the
last pieces of the item (`Rest`, `Starts`), and it is closed only when the thread has put
all. It needs `IInv`: a file that is reported is the whole file, so what `on_finished` lets
the thread put is the item's content; and that one callback is told for a file (`ToldOnce`)
and the deputy has not begun when the stream is made (`CurrIs`) is why no second thread puts
into it. Only the first entry can be a stream that has been read from, or has ended (`Held`,
`EntryIs`); so what `empty` and `ready` look past was complete (`UnreadIs`). `Different`
says that no two messages of an item are equal, for each chunk but the last has the bytes
behind those of the one before: so a message has one place (`PlaceOf`). There is one lemma for
each action that sends, takes or puts, and two (`CalmMoves`, `CalmTakes`) for the rest.

`BroadcastProofs` proves, for any number of ports, of elements and of ports of the given
stream, and any calls, from `BroadcastAssumption` (there is a finite set of numbers of ports
to try, none of them 0, and NULL is no location and no way to end):

| Theorem | Statement |
|---|---|
| `Invariant` | `Spec => []Safe` |
| `NothingFreedInUse` | `Spec => []MemorySafe` |
| `OrderInvariant` | `Spec => [](Safe /\ Ordered)` |
| `ElementsInOrder` | `Spec => InOrder`, when a stream with one port is tried only with `KeyId = 0` |
| `AnswersAreRight` | `Spec => AnswersRight` |

The hypothesis of `ElementsInOrder` is what section 3 says of `peek`; the calls that
`AnswersRight` is about need none.

*The invariant of memory.* A sweep frees a node in a step of its own, after it has seen that
no listener is at it. `Swept` says why nobody gets there later: in the loop no listener is at the
cell first any more, listeners only move forward, and `listen`, which would start at
the cell first, is called by the thread that sweeps. Of a given stream `Gift` says that
one node has it, that a proxy exists only with that node, and that it is deleted when the
node is freed and `populate` has ended; `Reads` that a listener inside a given stream is still
at its node (`InGiven`), which is therefore not freed: so its proxy is there. While
`SweepJoin` waits, everybody is past the node (the `"join"` part of `Swept`). Each
location has one thread that moves it (`HeldApart`), so a loaded cell stays what it was
(`ReadsKept`).

*The invariant of order.* `Flat`, what is to be read, jumps when the given stream is
closed. `Taken` relates what a listener has taken to what it is past: before the given
stream both are equal; in it what it is past of that one is added; behind it that stream is
closed and all of it is taken. `Copied` says that the proxy is a prefix of the given stream, up to
where `populate` has read, and closed only when it is the whole of it. `FlatOf` says what `Flat`
has where, `AtGiven` and `NotAtGiven` what this makes of a listener's next element. The rest is about
what a call has seen and may have become old: `Ending`, that a stream seen closed stays
closed and a cell found empty after that stays empty; `Promise`, that a call of `ready` that
began with an element there does not come to the place where it says no: if it saw the given
stream open, that element is in it. `EndsOf` names the steps in which a call ends; `TakesNext` and
`RightAnswer` show what it returns there.

*Only model-checked*: the liveness properties (`EveryJobRuns`, `CallsReturn`, `WriterReturns`, `EverybodyHeard`,
`CommandsEnd`, `EveryItemRelayed`). TLAPS as
installed proves no liveness under fairness and nothing about ENABLED, no induction
over data through the library's theorems, and nothing in a module with RECURSIVE
operators; no module declares one.

## 5. Not modelled

- `Net`: a node connecting to itself; a `recv` that gets part of a message; a
  socket that is full, so that `send` blocks; the text of `net_addresses`.
- `Iuctl`: two servers in one directory at the same time; reuse of pids; messages
  over the kernel's limit; the digits in the pid file; that the server handles
  requests only when no message waits (`server.cpp:24`).
- `Relay`: other connections than the sources' and the one to the target, so no `accept`; loss
  of the connection to the target, which never writes; a failed `send` to it; the identity
  message that `connect_to` sends first. `connected` stands for the target's entries
  in `nids`, `connections` and `send_qs`. `Net` has all of this for one thread.
- `Relay` and `Messenger`: `save_file`, which nothing reaches; a file system that
  fails; exits of a process while its threads run; loss of a connection in
  `Messenger`; `getNodesIn`, a getter.
- `Broadcast`: given streams that have given streams, and calls without a definite
  answer.
- The layouts of messages and types, and `capitalC.h`, which wraps system calls and
  exits when they fail.
- Weak memory, in `Concat` and `Broadcast`; exits of the process while a thread is in
  `put`.

## 6. Plan

Done, in the order of importance: `TodoQueue`, `Mpsc`, `MpscProofs`; `Stream`,
`Concat`, `ConcatProofs`; `Net`, `NetProofs`; `Iuctl`, `IuctlProofs`;
`Relay` with the file threads, `RelayProofs`, `RelayOrder`; `Datacenters`, `Messenger`, `MessengerProofs`;
`Broadcast`, `BroadcastProofs`.
What is left, but for section 5:

1. `Net` with sockets of a bounded size: two nodes that send to each other.
2. `Messenger` over connections that are lost, with the queues `Net` leaves behind.
