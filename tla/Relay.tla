------------------------------- MODULE Relay -------------------------------
(***************************************************************************)
(* A server that relays items (server.cpp, relay.cpp, file.cpp): its main  *)
(* thread, in the loop over next_msg_now; a deputy thread for each file    *)
(* that comes in and a sending thread for each that goes out again.  A     *)
(* deputy runs net_idle while it waits, as the main thread does, so that   *)
(* two threads use the poll entries and the send queue.                    *)
(*                                                                         *)
(* Each source is a connected peer, named by the descriptor, whose items   *)
(* go to one target, whose address is known.  A source sends what          *)
(* messenger.cpp makes it send: an item, then its text or the pieces of    *)
(* its file.  Nothing is known of a file but which byte is where.          *)
(*                                                                         *)
(* The sources have connected before, and nobody else connects.  The       *)
(* target never writes or hangs up, so that its entries in connections,    *)
(* nids and send_qs are there from connect_to on: connected says it all.   *)
(* The identity that connect_to sends first is not on the wire of this     *)
(* module.  Connections that are lost are in module Net.                   *)
(***************************************************************************)
EXTENDS Integers, SequencesExt

CONSTANTS
    Source,         \* descriptors of the peers that send
    Sizes,          \* source -> sizes of the files it may send, in bytes, or Text
    Leaving,        \* the sources that may close their connection
    server_fd,      \* the descriptor the server listens on
    target,         \* the descriptor of the connection to the target
    CHUNK_SIZE,
    MaxItems,       \* source -> bound on the items it sends
    MaxRefusals,    \* bound on the times the target refuses to connect
    Text,           \* in place of a size: a text
    NULL

ASSUME RelayAssumption ==
    /\ Source \subseteq Nat \ {0} /\ IsFiniteSet(Source)
    /\ {server_fd, target} \subseteq (Nat \ {0}) \ Source /\ server_fd # target
    /\ Leaving \subseteq Source /\ CHUNK_SIZE \in Nat \ {0}
    /\ MaxItems \in [Source -> Nat] /\ MaxRefusals \in Nat
    /\ \A s \in Source : Sizes[s] \subseteq Nat \cup {Text}
    /\ Text \notin Nat /\ NULL \notin Nat \cup {Text, "mixed"}

Item == UNION {{s} \X (1 .. MaxItems[s]) : s \in Source}
Main == <<0, 0>>
Thread == Item \cup {Main}          \* the deputy of an item is named after it

VARIABLES
    size_of,    \* item -> size of its file, or Text, or NULL before it is sent
    snd,        \* source -> messages it has still to write
    in,         \* source -> messages in its socket
    eof,        \* sources that are gone
    pollfds,    \* memory of pollfds_vector: descriptor, negated if suspended, and revents
    count,      \* its size(); what lies behind is stale
    start,      \* round robin
    mistaken,   \* history: the main thread negated the entry of another
    mpc,        \* where the main thread is
    fd, curr,   \* its locals in next_msg_now and handle_item_relay
    dpc,        \* item -> where its deputy is
    chunks,     \* item -> chunks its deputy has still to get
    file,       \* item -> bytes its deputy has written
    idle,       \* thread -> where it is in net_idle, or "no"
    holding,    \* thread -> the message it took from the queue and has not sent
    todos,      \* the queue of todo.cpp
    send_q,     \* the target's queue: messages, and streams named by their item
    stream,     \* item -> [msgs, off], or NULL
    out,        \* item -> messages the sending thread has still to put, or NULL
    connected,  \* to the target
    wire,       \* history: what went to the target
    refusals, refused,  \* history: the refusals, and the items refused
    crossed,    \* history: a thread sent while another held a message
    over        \* "undefined", "mixed", or a race: "entries", "tables", "queue"; or NULL

source == <<size_of, snd, in, eof>>
polled == <<pollfds, count, start, mistaken>>
main == <<mpc, fd, curr>>
deputy == <<dpc, chunks, file>>
queued == <<send_q, stream>>
sent == <<connected, wire, refusals, refused, crossed>>
vars == <<source, polled, main, deputy, idle, holding, todos, queued, out, sent, over>>
-----------------------------------------------------------------------------
(***************************************************************************)
(* Messages, and the pieces in which send_file_thread puts a file.         *)
(***************************************************************************)
ItemMsg(id) == <<"item", id>>
TextMsg(id) == <<"text", id>>
Header(id, n) == <<"header", id, n>>
Chunk(id, bytes) == <<"chunk", id, bytes>>
Type(m) == m[1]
Of(m) == m[2]
Data(m) == m[3]
Bytes(z) == [i \in 1 .. z |-> i]    \* of a file
Message ==
    ({"item", "text"} \X Item) \cup ({"header"} \X Item \X Nat)
    \cup ({"chunk"} \X Item \X Seq(Nat))
\* Nor is a thread without a message, or an item without a stream, taken for one with it.
ASSUME NullAssumption ==
    NULL \notin Message \cup Seq(Message) \cup [msgs : Seq(Message), off : BOOLEAN]

NumChunks_full(z) == z \div CHUNK_SIZE
NumChunks(z) == z \div CHUNK_SIZE + (IF z % CHUNK_SIZE # 0 THEN 1 ELSE 0)

Pieces(id, data) ==
    LET full == Len(data) \div CHUNK_SIZE
    IN  <<Header(id, NumChunks(Len(data)))>>
        \o [i \in 1 .. full |-> Chunk(id, SubSeq(data, CHUNK_SIZE * (i - 1) + 1, CHUNK_SIZE * i))]
        \o (IF Len(data) % CHUNK_SIZE = 0 THEN << >>
            ELSE <<Chunk(id, SubSeq(data, CHUNK_SIZE * full + 1, Len(data)))>>)

Content(id) == IF size_of[id] \in Nat THEN Pieces(id, Bytes(size_of[id])) ELSE <<TextMsg(id)>>
Whole(id) == <<ItemMsg(id)>> \o Content(id)

\* addPollFd
Polling(f) == [fd |-> f, rev |-> {}]

\* init_server lists its own descriptor first, and then the sources came.
Init ==
    /\ size_of = [id \in Item |-> NULL]
    /\ snd = [s \in Source |-> << >>] /\ in = [s \in Source |-> << >>] /\ eof = {}
    /\ pollfds = <<Polling(server_fd)>>
                 \o [i \in 1 .. Cardinality(Source) |-> Polling(SetToSeq(Source)[i])]
    /\ count = Cardinality(Source) + 1 /\ start = 1 /\ mistaken = FALSE
    /\ mpc = "poll" /\ fd = NULL /\ curr = NULL
    /\ dpc = [id \in Item |-> "none"] /\ chunks = [id \in Item |-> 0]
    /\ file = [id \in Item |-> << >>]
    /\ idle = [t \in Thread |-> "no"] /\ holding = [t \in Thread |-> NULL]
    /\ todos = << >> /\ send_q = << >>
    /\ stream = [id \in Item |-> NULL] /\ out = [id \in Item |-> NULL]
    /\ connected = FALSE /\ wire = << >> /\ refusals = 0 /\ refused = {} /\ crossed = FALSE
    /\ over = NULL
-----------------------------------------------------------------------------
(***************************************************************************)
(* The sources.  A stream holds back what is sent after it, so an item     *)
(* starts when the one before it is written.                               *)
(***************************************************************************)
Running == over = NULL

PeerItem(s, z) ==
    /\ Running /\ s \notin eof /\ snd[s] = << >>
    /\ \E id \in Item :
          /\ id[1] = s /\ size_of[id] = NULL
          /\ \A k \in 1 .. id[2] - 1 : size_of[<<s, k>>] # NULL
          /\ size_of' = [size_of EXCEPT ![id] = z]
          /\ in' = [in EXCEPT ![s] = Append(@, ItemMsg(id))]
          /\ snd' = [snd EXCEPT ![s] = Content(id)']
    /\ UNCHANGED <<eof, polled, main, deputy, idle, holding, todos, queued, out, sent, over>>

PeerSends(s) ==
    /\ Running /\ s \notin eof /\ snd[s] # << >>
    /\ in' = [in EXCEPT ![s] = Append(@, Head(snd[s]))]
    /\ snd' = [snd EXCEPT ![s] = Tail(@)]
    /\ UNCHANGED <<size_of, eof, polled, main, deputy, idle, holding, todos, queued, out, sent,
                   over>>

PeerCloses(s) ==
    /\ Running /\ s \in Leaving \ eof
    /\ eof' = eof \cup {s}
    /\ UNCHANGED <<size_of, snd, in, polled, main, deputy, idle, holding, todos, queued, out, sent,
                   over>>
-----------------------------------------------------------------------------
(***************************************************************************)
(* The send queue, as a concat behaves (module Concat): a stream in it     *)
(* holds back what follows until it is closed and read.                    *)
(***************************************************************************)
Stream(m) == Type(m) = "stream"
Finished(m) == Stream(m) /\ stream[Of(m)].off /\ stream[Of(m)].msgs = << >>

\* What is left when the listener is past the finished streams.
Unread ==
    LET i == SelectInSeq(send_q, LAMBDA m : ~Finished(m))
    IN  IF i = 0 THEN << >> ELSE SubSeq(send_q, i, Len(send_q))

Empty == Unread = << >>
Ready == ~Empty /\ (Stream(Head(Unread)) => stream[Of(Head(Unread))].msgs # << >>)

Wire(t, m) ==
    /\ wire' = Append(wire, m)
    /\ crossed' = (crossed \/ \E u \in Thread \ {t} : holding[u] # NULL)

\* connect_to, when there is no connection yet: the target is listed last.
Entries == SubSeq(pollfds, 1, count)
Listing == IF connected THEN pollfds ELSE Append(Entries, Polling(target))
Connects ==
    /\ connected' = TRUE /\ UNCHANGED refusals
    /\ count' = IF connected THEN count ELSE count + 1
Refuses == /\ ~connected /\ refusals < MaxRefusals
           /\ refusals' = refusals + 1 /\ UNCHANGED <<connected, count>>

\* send_msg: at once when the queue is empty, or else behind what is there.
Direct_always == TRUE
Direct == Empty

SendMsg(m) ==
    /\ Connects /\ pollfds' = Listing /\ UNCHANGED <<start, mistaken, stream, refused>>
    /\ IF Direct THEN Wire(Main, m) /\ send_q' = Unread
                 ELSE send_q' = Append(Unread, m) /\ UNCHANGED <<wire, crossed>>

\* Nobody looks at the result.
SendMsgFails(m) ==
    /\ Refuses /\ refused' = refused \cup {Of(m)}
    /\ UNCHANGED <<pollfds, start, mistaken, queued, wire, crossed>>
-----------------------------------------------------------------------------
(***************************************************************************)
(* net_idle, by the main thread or a deputy: prunePollFds, send_readies.   *)
(***************************************************************************)
Idling(t, where) == Running /\ idle[t] = where /\ UNCHANGED <<source, deputy, todos, out>>
IdleAt(t, where) == idle' = [idle EXCEPT ![t] = where]

Picked(q, kept) ==
    [k \in 1 .. Cardinality(kept) |->
        q[CHOOSE i \in kept : Cardinality({j \in kept : j <= i}) = k]]
Kept == Picked(pollfds, {i \in 1 .. count : pollfds[i].fd > 0})

\* A net_idle that finds nothing to prune or to send is a stutter.
IdleBegins(t) ==
    /\ Kept # Entries \/ Ready
    /\ IdleAt(t, IF Kept # Entries THEN "prune" ELSE "send")

\* The entries move forward; those behind the new end stay in memory.
Prune(t) ==
    /\ Idling(t, "prune")
    /\ pollfds' = Kept \o SubSeq(pollfds, Len(Kept) + 1, Len(pollfds))
    /\ count' = Len(Kept)
    /\ IdleAt(t, "send")
    /\ UNCHANGED <<start, mistaken, main, holding, queued, sent, over>>

\* get, from the queue or from the stream at its head.
SendGet(t) ==
    LET m == Head(Unread) IN
    /\ Idling(t, "send") /\ Ready
    /\ IF Stream(m)
       THEN /\ holding' = [holding EXCEPT ![t] = Head(stream[Of(m)].msgs)]
            /\ stream' = [stream EXCEPT ![Of(m)].msgs = Tail(@)]
            /\ send_q' = Unread
       ELSE holding' = [holding EXCEPT ![t] = m] /\ send_q' = Tail(Unread) /\ UNCHANGED stream
    /\ IdleAt(t, "now")
    /\ UNCHANGED <<polled, main, sent, over>>

SendNow(t) ==
    /\ Idling(t, "now")
    /\ Wire(t, holding[t]) /\ holding' = [holding EXCEPT ![t] = NULL]
    /\ IdleAt(t, "send")
    /\ UNCHANGED <<polled, main, queued, connected, refusals, refused, over>>

\* The main loop goes on with do_todos.
IdleDone(t) ==
    /\ Idling(t, "send") /\ ~Ready
    /\ IdleAt(t, "no")
    /\ mpc' = IF t = Main /\ mpc = "idle" THEN "todos" ELSE mpc
    /\ UNCHANGED <<polled, fd, curr, holding, queued, sent, over>>
-----------------------------------------------------------------------------
(***************************************************************************)
(* The main loop.  next_msg_now looks at the entries again and again, and  *)
(* a deputy may prune them in between.                                     *)
(***************************************************************************)
MainAt(pc) == Running /\ mpc = pc /\ UNCHANGED <<snd, size_of, eof>>
Goto(pc) == mpc' = pc
Aside == UNCHANGED <<deputy, holding, out, queued, sent>>

\* Nobody connects, and the target sends nothing.
Revents(f) == IF f \notin Source THEN {}
              ELSE (IF in[f] # << >> \/ f \in eof THEN {"IN"} ELSE {})
                   \cup (IF f \in eof THEN {"RDHUP"} ELSE {})
Waits(i) == Revents(pollfds[i].fd) # {}

\* A round of the loop without a todo either is a stutter.
PollNothing ==
    /\ MainAt("poll") /\ \A i \in 1 .. count : ~Waits(i)
    /\ \/ IdleBegins(Main) /\ Goto("idle")
       \/ Kept = Entries /\ ~Ready /\ todos # << >> /\ Goto("todos") /\ UNCHANGED idle
    /\ Aside /\ UNCHANGED <<in, polled, fd, curr, todos, over>>

Distance(i) == (i - start - 1) % count

\* poll, and the next entry after start, cyclically, that has something; start can
\* lie outside of the actual range.
PollSome ==
    /\ MainAt("poll")
    /\ pollfds' = [i \in 1 .. count |-> [pollfds[i] EXCEPT !.rev = Revents(pollfds[i].fd)]]
    /\ \E i \in 1 .. count :
          /\ Waits(i) /\ start' = i
          /\ \A j \in 1 .. count : Waits(j) => Distance(i) <= Distance(j)
    /\ Goto("recv")
    /\ Aside /\ UNCHANGED <<in, count, mistaken, fd, curr, idle, todos, over>>

\* recv_msg on the descriptor the entry now has, which after another's prune may be the
\* target's.  Blocks when there is nothing.
Recv(f) == f = pollfds[start].fd /\ fd' = f
RecvItem(f) ==
    /\ MainAt("recv") /\ Recv(f)
    /\ "IN" \in pollfds[start].rev /\ in[f] # << >>
    /\ in' = [in EXCEPT ![f] = Tail(@)]
    /\ IF Type(Head(in[f])) = "item"
       THEN curr' = Of(Head(in[f])) /\ Goto("item") /\ UNCHANGED over
       ELSE over' = "mixed" /\ UNCHANGED <<curr, mpc>>
    /\ Aside /\ UNCHANGED <<polled, idle, todos>>

RecvNothing(f) ==
    /\ MainAt("recv") /\ Recv(f)
    /\ "IN" \in pollfds[start].rev => in[f] = << >> /\ f \in eof
    /\ Goto(IF "RDHUP" \in pollfds[start].rev THEN "negate" ELSE "poll")
    /\ Aside /\ UNCHANGED <<in, polled, curr, idle, todos, over>>

\* The entry at start may be another's by now.
Negate ==
    /\ MainAt("negate") /\ Goto("poll")
    /\ pollfds' = [pollfds EXCEPT ![start].fd = -fd]
    /\ mistaken' = (mistaken \/ pollfds[start].fd # fd)
    /\ Aside /\ UNCHANGED <<in, count, start, fd, curr, idle, todos, over>>
-----------------------------------------------------------------------------
(***************************************************************************)
(* handle_item_relay                                                       *)
(***************************************************************************)
Calm == UNCHANGED <<in, fd, idle, holding, todos, deputy, out>>

RelayItem ==
    /\ MainAt("item")
    /\ SendMsg(ItemMsg(curr)) \/ SendMsgFails(ItemMsg(curr))
    /\ Goto(IF size_of[curr] = Text THEN "text" ELSE "file")
    /\ Calm /\ UNCHANGED <<curr, over>>

\* relay_string: next_msg_same, which runs net_idle while it waits, and NULL when
\* the source is gone.
TextWait ==
    /\ MainAt("text") /\ idle[Main] = "no" /\ in[fd] = << >> /\ fd \notin eof
    /\ IdleBegins(Main)
    /\ Aside /\ UNCHANGED <<in, polled, main, todos, over>>

RelayText ==
    /\ MainAt("text") /\ idle[Main] = "no" /\ in[fd] # << >>
    /\ in' = [in EXCEPT ![fd] = Tail(@)]
    /\ IF Head(in[fd]) = TextMsg(curr)
       THEN /\ SendMsg(TextMsg(curr)) \/ SendMsgFails(TextMsg(curr))
            /\ Goto("todos") /\ curr' = NULL /\ UNCHANGED over
       ELSE over' = "mixed" /\ UNCHANGED <<polled, queued, sent, mpc, curr>>
    /\ UNCHANGED <<fd, idle, holding, todos, deputy, out>>

TextGone ==
    /\ MainAt("text") /\ idle[Main] = "no" /\ in[fd] = << >> /\ fd \in eof
    /\ over' = "undefined"
    /\ Calm /\ UNCHANGED <<polled, queued, sent, mpc, curr>>

Where(f) == {i \in 1 .. count : pollfds[i].fd = f}

\* recv_file: net_suspend, and the deputy starts.
Suspended_never(q) == q
Suspended(q) == IF Where(fd) = {} THEN q ELSE [q EXCEPT ![Min(Where(fd))].fd = -fd]

\* relay_file: send_stream, which may return NULL, and recv_file.
RelayFile ==
    /\ MainAt("file")
    /\ \/ /\ Connects /\ pollfds' = Suspended(Listing)
          /\ stream' = [stream EXCEPT ![curr] = [msgs |-> << >>, off |-> FALSE]]
          /\ send_q' = Append(send_q, <<"stream", curr>>)
       \/ Refuses /\ pollfds' = Suspended(pollfds) /\ UNCHANGED queued
    /\ dpc' = [dpc EXCEPT ![curr] = "header"]
    /\ curr' = NULL /\ Goto("todos")
    /\ UNCHANGED <<in, start, mistaken, fd, chunks, file, idle, holding, todos, out, wire,
                   refused, crossed, over>>
-----------------------------------------------------------------------------
(***************************************************************************)
(* recv_file_deputy                                                        *)
(***************************************************************************)
DeputyAt(id, pcs) ==
    /\ Running /\ dpc[id] \in pcs /\ idle[id] = "no"
    /\ UNCHANGED <<size_of, snd, eof, polled, main, holding, queued, out, sent>>
Getting == {"header", "chunk"}

DeputyWait(id) ==
    /\ DeputyAt(id, Getting) /\ in[id[1]] = << >> /\ id[1] \notin eof
    /\ IdleBegins(id)
    /\ UNCHANGED <<in, deputy, todos, over>>

DeputyGone(id) ==
    /\ DeputyAt(id, Getting) /\ in[id[1]] = << >> /\ id[1] \in eof
    /\ over' = "undefined"
    /\ UNCHANGED <<in, deputy, todos, idle>>

\* The message is taken for a header, or a chunk, whatever it is.
DeputyGet(id) ==
    LET m == Head(in[id[1]])
        left == IF Type(m) = "header" THEN Data(m) ELSE chunks[id] - 1
    IN
    /\ DeputyAt(id, Getting) /\ in[id[1]] # << >>
    /\ in' = [in EXCEPT ![id[1]] = Tail(@)]
    /\ IF Type(m) = dpc[id]
       THEN /\ chunks' = [chunks EXCEPT ![id] = left]
            /\ file' = [file EXCEPT ![id] = IF Type(m) = "chunk" THEN @ \o Data(m) ELSE @]
            /\ dpc' = [dpc EXCEPT ![id] = IF left = 0 THEN "resume" ELSE "chunk"]
            /\ UNCHANGED over
       ELSE over' = "mixed" /\ UNCHANGED deputy
    /\ UNCHANGED <<todos, idle>>

Then_ended(pc) == "ended"
Then(pc) == IF pc = "resume" THEN "callback" ELSE "ended"

\* add_todo for each of recv_file_finisher and the callback, in this order.
AddTodo(id) ==
    /\ DeputyAt(id, {"resume", "callback"})
    /\ todos' = Append(todos, <<dpc[id], id>>)
    /\ dpc' = [dpc EXCEPT ![id] = Then(@)]
    /\ UNCHANGED <<in, chunks, file, idle, over>>
-----------------------------------------------------------------------------
(***************************************************************************)
(* do_todos, and the thread that on_finished starts.                       *)
(***************************************************************************)
Todo(func) == MainAt("todos") /\ todos # << >> /\ Type(Head(todos)) = func /\ todos' = Tail(todos)

Resumed == pollfds' = Append(Entries, Polling(Of(Head(todos))[1])) /\ count' = count + 1

\* net_resume.  The entry that net_suspend negated may still be there.
Finisher ==
    /\ Todo("resume")
    /\ Resumed
    /\ Aside /\ UNCHANGED <<in, start, mistaken, mpc, fd, curr, idle, over>>

\* The target's stream is NULL if send_stream was refused.
OnFinished ==
    LET id == Of(Head(todos)) IN
    /\ Todo("callback")
    /\ IF stream[id] = NULL THEN over' = "undefined" /\ UNCHANGED out
       ELSE out' = [out EXCEPT ![id] = Pieces(id, file[id])] /\ UNCHANGED over
    /\ UNCHANGED <<in, polled, mpc, fd, curr, idle, deputy, holding, queued, sent>>

TodosDone ==
    /\ MainAt("todos") /\ todos = << >> /\ Goto("poll")
    /\ Aside /\ UNCHANGED <<in, polled, fd, curr, idle, todos, over>>

\* send_file_thread reads what the deputy wrote.
SenderPut(id) ==
    /\ Running /\ out[id] # NULL /\ out[id] # << >>
    /\ stream' = [stream EXCEPT ![id].msgs = Append(@, Head(out[id]))]
    /\ out' = [out EXCEPT ![id] = Tail(@)]
    /\ UNCHANGED <<source, polled, main, deputy, idle, holding, todos, send_q, sent, over>>

SenderClose(id) ==
    /\ Running /\ out[id] = << >> /\ ~stream[id].off
    /\ stream' = [stream EXCEPT ![id].off = TRUE]
    /\ UNCHANGED <<source, polled, main, deputy, idle, holding, todos, send_q, out, sent, over>>
-----------------------------------------------------------------------------
(***************************************************************************)
(* Two threads at once in what only one may use: anything may come of it.  *)
(***************************************************************************)
\* A deputy is about to move entries while the main thread is about to use them.
UsesEntries == mpc \in {"poll", "recv", "negate", "file"} \/ idle[Main] = "prune"
RaceEntries ==
    /\ Kept # Entries
    /\ \E t \in Item : idle[t] = "prune" /\ (UsesEntries \/ \E u \in Item \ {t} : idle[u] = "prune")

\* Two threads are about to read the queue: send_msg calls empty, a listener's.
UsesQueue == mpc = "item" \/ (mpc = "text" /\ idle[Main] = "no" /\ in[fd] # << >>)
RaceQueue ==
    /\ Ready
    /\ \E t, u \in Thread :
          t # u /\ idle[t] = "send" /\ (idle[u] = "send" \/ (u = Main /\ UsesQueue))

\* The main thread is about to append an entry, and in connect_to to connections, nids
\* and send_qs, while a deputy in next_msg_from looks through all but nids.
Appends ==
    \/ mpc = "todos" /\ todos # << >> /\ Type(Head(todos)) = "resume"
    \/ ~connected /\ (mpc = "file" \/ UsesQueue)
RaceTables == Appends /\ \E id \in Item : dpc[id] \in Getting

Race ==
    /\ Running
    /\ \/ RaceEntries /\ over' = "entries"
       \/ RaceTables /\ over' = "tables"
       \/ RaceQueue /\ over' = "queue"
    /\ UNCHANGED <<source, polled, main, deputy, idle, holding, todos, queued, out, sent>>
-----------------------------------------------------------------------------
NetIdle(t) == Prune(t) \/ SendGet(t) \/ SendNow(t) \/ IdleDone(t)
MainLoop ==
    \/ PollNothing \/ PollSome \/ (\E f \in Source : RecvItem(f)) \/ Negate
    \/ (\E f \in Source \cup {target} : RecvNothing(f))
    \/ RelayItem \/ TextWait \/ RelayText \/ TextGone \/ RelayFile
    \/ Finisher \/ OnFinished \/ TodosDone \/ NetIdle(Main)
Deputy(id) == DeputyWait(id) \/ DeputyGone(id) \/ DeputyGet(id) \/ AddTodo(id) \/ NetIdle(id)
Sender(id) == SenderPut(id) \/ SenderClose(id)

Next ==
    \/ MainLoop \/ Race
    \/ \E id \in Item : Deputy(id) \/ Sender(id)
    \/ \E s \in Source : PeerSends(s) \/ PeerCloses(s) \/ \E z \in Sizes[s] : PeerItem(s, z)

Spec == Init /\ [][Next]_vars

\* While a thread has something to do one goes on (no step is repeated for ever, so
\* this is all that scheduling has to give), and a source sends what it has begun.
FairSpec ==
    Spec /\ WF_vars(MainLoop \/ (\E id \in Item : Deputy(id) \/ Sender(id))
                    \/ \E s \in Source : PeerSends(s))
-----------------------------------------------------------------------------
\* The messages of one connection are divided rightly between the main thread, the
\* text it waits for and the deputies: nobody takes one for what it is not, and a
\* file that is reported has every byte once, in order.
TakenRight ==
    /\ over # "mixed"
    /\ \A id \in Item : dpc[id] \in {"resume", "callback", "ended"} =>
          file[id] = Bytes(size_of[id])

Reading(s) ==
    \E id \in Item : id[1] = s /\ \/ dpc[id] \in {"header", "chunk", "resume"}
                                  \/ Contains(todos, <<"resume", id>>)

\* A source is polled once when no deputy reads from it, and not while one does,
\* whoever prunes the entries and whenever.  Only when it is gone can it drop out, or
\* when a deputy moves the entries and the main thread then negates another's.
PolledOnce ==
    \A s \in Source :
        /\ Cardinality(Where(s)) <= (IF Reading(s) THEN 0 ELSE 1)
        /\ Where(s) = {} => Reading(s) \/ s \in eof \/ mistaken

Place(m) == SelectInSeq(Whole(Of(m)), LAMBDA x : x = m)
Begins(m) == Place(m) = 1 \/ (Place(m) = 2 /\ Of(m) \in refused)

\* The target gets every item directly followed by the whole of its text or file,
\* whatever the items are that are relayed at the same time; without the item when
\* the target refused that and then took its content.  (Not when a thread sends
\* while another holds a message it has taken from the queue.)
ContentFollows ==
    ~crossed =>
        \A i \in DOMAIN wire :
            /\ Place(wire[i]) # 0
            /\ i = 1 => Begins(wire[1])
            /\ i > 1 => LET prev == wire[i - 1] IN
                        IF Place(prev) = Len(Whole(Of(prev))) THEN Begins(wire[i])
                        ELSE Of(wire[i]) = Of(prev) /\ Place(wire[i]) = Place(prev) + 1

\* Again and again, all that a source has sent so far has reached the target to its last
\* piece, unless the source goes, the target refuses, two threads meet, or the main thread
\* negated the wrong entry.
EveryItemRelayed ==
    []<>(\A id \in Item : size_of[id] # NULL =>
            \/ id \in refused \/ id[1] \in eof \/ over # NULL \/ mistaken
            \/ Contains(wire, Last(Whole(id))))

\* include/concat.h:17, "specialized for one listener".
OneListener == ~(Running /\ RaceQueue)
=============================================================================
