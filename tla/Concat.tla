------------------------------- MODULE Concat -------------------------------
(***************************************************************************)
(* include/concat.h: a linked list of items and of given streams, with one *)
(* writer, which frees what has been read, and one listener.  There is one *)
(* outer stream (a send queue of src/net.cpp) and the streams given to it  *)
(* (what send_stream returns), each with a writing thread; one thread      *)
(* listens.                                                                *)
(*                                                                         *)
(* Every load of a cell another thread writes is a step of its own.  A     *)
(* location is a stream (its first cell) or a node (its next cell).  Freed *)
(* nodes and deleted streams may be handed out again at once.              *)
(***************************************************************************)
EXTENDS Naturals, Sequences

CONSTANTS
    Root,       \* the outer stream
    Child,      \* addresses of streams to be given
    Item,       \* what is put in a stream
    Node,       \* heap addresses of nodes; bounds the number of live nodes
    NULL

ASSUME ConcatAssumption ==
    /\ Root \notin Child \cup Node
    /\ Child \cap (Item \cup Node) = {}
    /\ NULL \notin Item \cup Node \cup Child \cup {Root}

Stream == Child \cup {Root}

VARIABLES
    allocated,  \* the nodes malloc has returned and nobody has freed
    alive,      \* the streams constructed and not deleted
    next,       \* node -> its next cell
    val,        \* node -> the item or the given stream in it
    first,      \* stream -> its first cell
    last,       \* stream -> the location at which its writer links the next node
    listener,   \* stream -> the location its listener reads next
    off,        \* stream -> closed (TRUE where none is constructed)
    ppc,        \* stream -> where its writer is
    iter,       \* stream -> the writer's cursor in sweep
    cpc,        \* where the listener is
    op,         \* the call it is in
    cur,        \* the stream it is looking at
    outer,      \* the node of Root that holds cur, when cur # Root
    node,       \* the node it loaded last
    closed,     \* ready: what given->closed() returned
    isready,    \* ready: what given->ready() returned
    got,        \* the item get or peek returned last
    answer,     \* what ready, empty or depleted returned last
    spent,      \* history: stream -> the nodes read and not yet freed
    unread,     \* history: stream -> the nodes still to read
    promised    \* history: an item could be read when the call began

heap == <<allocated, alive, next, val, first, last>>
writers == <<ppc, iter>>
listening == <<cpc, op, cur, outer, node, closed, isready, got, answer, promised>>
history == <<spent, unread>>
vars == <<heap, listener, off, writers, listening, history>>

\* What a location holds.
At(loc) == IF loc \in Stream THEN first[loc] ELSE next[loc]

\* An item is there for the listener: everything before it is read, and the given
\* streams before it are closed.
Finished(n) == val[n] \in Child /\ off[val[n]] /\ unread[val[n]] = << >>
HasItem(n) == val[n] \in Child => unread[val[n]] # << >>
Readable ==
    \E i \in DOMAIN unread[Root] :
        /\ HasItem(unread[Root][i])
        /\ \A j \in 1 .. i - 1 : Finished(unread[Root][j])
-----------------------------------------------------------------------------
Init ==
    /\ allocated = {} /\ alive = {Root}
    /\ next = [n \in Node |-> NULL]
    /\ val = [n \in Node |-> NULL]
    /\ first = [s \in Stream |-> NULL]
    /\ last = [s \in Stream |-> s]
    /\ listener = [s \in Stream |-> s]
    /\ off = [s \in Stream |-> s # Root]
    /\ ppc = [s \in Stream |-> "idle"]
    /\ iter = [s \in Stream |-> NULL]
    /\ cpc = "idle" /\ op = NULL /\ cur = Root /\ outer = NULL /\ node = NULL
    /\ closed = FALSE /\ isready = FALSE
    /\ got = NULL /\ answer = NULL /\ promised = FALSE
    /\ spent = [s \in Stream |-> << >>]
    /\ unread = [s \in Stream |-> << >>]
-----------------------------------------------------------------------------
(***************************************************************************)
(* The writer of s: put, give and close, and the sweep that ends the first *)
(* two.                                                                    *)
(***************************************************************************)
\* The node is private until `*last = put`, and last is the writer's own.  Which of the
\* free addresses it gets makes no difference: nobody holds one (MemorySafe).
Link(s, x, firsts, lasts) ==
    /\ ppc[s] = "idle" /\ ~off[s]
    /\ Node \ allocated # {}
    /\ LET n == CHOOSE m \in Node : m \notin allocated IN
        /\ allocated' = allocated \cup {n}
        /\ val' = [val EXCEPT ![n] = x]
        /\ first' = IF lasts[s] \in Stream
                    THEN [firsts EXCEPT ![lasts[s]] = n] ELSE firsts
        /\ next' = [m \in Node |-> CASE m = n        -> NULL
                                     [] m = lasts[s] -> n
                                     [] OTHER        -> next[m]]
        /\ last' = [lasts EXCEPT ![s] = n]
        /\ unread' = [unread EXCEPT ![s] = Append(@, n)]
    /\ ppc' = [ppc EXCEPT ![s] = "sweep"]
    /\ UNCHANGED <<iter, listening, spent>>

Put(s, x) ==
    /\ Link(s, x, first, last)
    /\ UNCHANGED <<alive, listener, off>>

\* new concat, then give.
Give(c) ==
    /\ c \notin alive
    /\ Link(Root, c, [first EXCEPT ![c] = NULL], [last EXCEPT ![c] = c])
    /\ alive' = alive \cup {c}
    /\ listener' = [listener EXCEPT ![c] = c]
    /\ off' = [off EXCEPT ![c] = FALSE]

Close(s) ==
    /\ ppc[s] = "idle" /\ ~off[s]
    /\ off' = [off EXCEPT ![s] = TRUE]
    /\ UNCHANGED <<heap, listener, writers, listening, history>>

\* `*listener == iter`.  The cell is written by this writer only, so loading the
\* location and the cell in one step hides nothing.
Reached_never(s, n) == FALSE
Reached_always(s, n) == TRUE
Reached(s, n) == At(listener[s]) = n

StopSweep(s) ==
    /\ ppc' = [ppc EXCEPT ![s] = "idle"]
    /\ iter' = [iter EXCEPT ![s] = NULL]

SweepFirst(s) ==
    /\ ppc[s] = "sweep"
    /\ IF Reached(s, first[s]) THEN StopSweep(s)
       ELSE /\ ppc' = [ppc EXCEPT ![s] = "loop"]
            /\ iter' = [iter EXCEPT ![s] = next[first[s]]]
    /\ UNCHANGED <<heap, listener, off, listening, history>>

SweepStop(s) ==
    /\ ppc[s] = "loop"
    /\ iter[s] = NULL \/ Reached(s, iter[s])
    /\ StopSweep(s)
    /\ UNCHANGED <<heap, listener, off, listening, history>>

\* The nodes linked from n on, which ~concat frees: the smallest set with n in it that
\* no next cell leads out of.
From(n) ==
    {m \in Node : \A S \in SUBSET Node :
        n \in S \cup {NULL} /\ (\A k \in S : next[k] \in S \cup {NULL}) => m \in S}

Freed(nodes, streams) ==
    /\ allocated' = allocated \ nodes
    /\ alive' = alive \ streams
    /\ next' = [m \in Node |-> IF m \in nodes THEN NULL ELSE next[m]]
    /\ val' = [m \in Node |-> IF m \in nodes THEN NULL ELSE val[m]]

Given(n) == {val[n]} \cap Child

GivenNodes_forgotten(n) == {}
GivenNodes(n) == UNION {From(first[c]) : c \in Given(n)}

Rest(seq) == IF seq = << >> THEN << >> ELSE Tail(seq)

\* Free the oldest node and delete the stream given in it.
SweepFree(s) ==
    /\ ppc[s] = "loop"
    /\ iter[s] # NULL /\ ~Reached(s, iter[s])
    /\ LET prev == first[s] IN
        /\ Freed({prev} \cup GivenNodes(prev), Given(prev))
        /\ first' = [t \in Stream |-> CASE t = s             -> next[prev]
                                        [] t \in Given(prev) -> NULL
                                        [] OTHER             -> first[t]]
        /\ last' = [t \in Stream |-> IF t \in Given(prev) THEN t ELSE last[t]]
        /\ listener' = [t \in Stream |-> IF t \in Given(prev) THEN t ELSE listener[t]]
        /\ spent' = [t \in Stream |-> CASE t = s             -> Rest(spent[s])
                                        [] t \in Given(prev) -> << >>
                                        [] OTHER             -> spent[t]]
    /\ iter' = [iter EXCEPT ![s] = next[@]]
    /\ UNCHANGED <<off, ppc, listening, unread>>
-----------------------------------------------------------------------------
(***************************************************************************)
(* The listener.  get, peek, skip and depleted wait for a node in the same *)
(* way: load the cell; if it is NULL look whether the stream is closed, and*)
(* if so load the cell again, for the writer may have linked a node before *)
(* it closed.                                                              *)
(***************************************************************************)
Call(o) ==
    /\ cpc = "idle"
    /\ op' = o
    /\ cpc' = CASE o = "ready" -> "ready" [] o = "empty" -> "empty" [] OTHER -> "load"
    /\ promised' = Readable
    /\ answer' = NULL
    /\ UNCHANGED <<heap, listener, off, writers, history,
                   cur, outer, node, closed, isready, got>>

\* The dead locals are cleared so that calls end in few different states.
Return(a) ==
    /\ cpc' = "idle" /\ op' = NULL /\ cur' = Root
    /\ outer' = NULL /\ node' = NULL
    /\ closed' = FALSE /\ isready' = FALSE /\ promised' = FALSE
    /\ answer' = a

\* listener = &n->next in stream s.
MoveTo(s, n) ==
    /\ listener' = [listener EXCEPT ![s] = n]
    /\ spent' = [spent EXCEPT ![s] = Append(@, Head(unread[s]))]
    /\ unread' = [unread EXCEPT ![s] = Tail(@)]

Stay == UNCHANGED <<listener, history>>

Load ==
    /\ cpc = "load"
    /\ node' = At(listener[cur])
    /\ cpc' = IF node' = NULL THEN "off" ELSE "have"
    /\ UNCHANGED <<heap, listener, off, writers, history,
                   op, cur, outer, closed, isready, got, answer, promised>>

CheckOff ==
    /\ cpc = "off"
    /\ cpc' = IF off[cur] THEN "reload" ELSE "load"
    /\ UNCHANGED <<heap, listener, off, writers, history,
                   op, cur, outer, node, closed, isready, got, answer, promised>>

Reloaded_skipped == NULL
Reloaded == At(listener[cur])

Reload ==
    /\ cpc = "reload"
    /\ node' = Reloaded
    /\ cpc' = IF node' = NULL THEN "end" ELSE "have"
    /\ UNCHANGED <<heap, listener, off, writers, history,
                   op, cur, outer, closed, isready, got, answer, promised>>

\* The outer stream ended: depleted says so, the others exit(ENODATA).
EndOfRoot ==
    /\ cpc = "end" /\ cur = Root
    /\ IF op = "depleted" THEN Return("yes") /\ UNCHANGED got
       ELSE /\ cpc' = "exited"
            /\ UNCHANGED <<op, cur, outer, node, closed, isready, got, answer, promised>>
    /\ Stay /\ UNCHANGED <<heap, off, writers>>

LeaveGiven_stays == Stay
LeaveGiven == MoveTo(Root, outer)

\* The given stream ended: go past it and start over.
EndOfGiven ==
    /\ cpc = "end" /\ cur # Root
    /\ LeaveGiven
    /\ cur' = Root /\ outer' = NULL
    /\ cpc' = "load"
    /\ UNCHANGED <<heap, off, writers,
                   op, node, closed, isready, got, answer, promised>>

EnterGiven ==
    /\ cpc = "have" /\ val[node] \in Child
    /\ outer' = node
    /\ cur' = val[node]
    /\ cpc' = "load"
    /\ Stay
    /\ UNCHANGED <<heap, off, writers,
                   op, node, closed, isready, got, answer, promised>>

\* An item.  given->get() loads the cell once more; it cannot have changed.
Found ==
    /\ cpc = "have" /\ val[node] \notin Child
    /\ IF op \in {"get", "skip"} THEN MoveTo(cur, node) ELSE Stay
    /\ got' = IF op \in {"get", "peek"} THEN val[node] ELSE got
    /\ Return(IF op = "depleted" THEN "no" ELSE NULL)
    /\ UNCHANGED <<heap, off, writers>>
-----------------------------------------------------------------------------
(***************************************************************************)
(* ready: closed is read before ready, so a stream found closed and not    *)
(* ready has ended.                                                        *)
(***************************************************************************)
ReadyLoad ==
    /\ cpc = "ready"
    /\ LET n == At(listener[Root]) IN
        IF n # NULL /\ val[n] \in Child
        THEN /\ node' = n /\ cur' = val[n] /\ cpc' = "ready_closed"
             /\ UNCHANGED <<op, outer, closed, isready, answer, promised>>
        ELSE Return(IF n = NULL THEN "no" ELSE "yes")
    /\ Stay /\ UNCHANGED <<heap, off, writers, got>>

ReadyClosed ==
    /\ cpc = "ready_closed"
    /\ closed' = off[cur]
    /\ cpc' = "ready_given"
    /\ UNCHANGED <<heap, listener, off, writers, history,
                   op, cur, outer, node, isready, got, answer, promised>>

\* given->ready(): given streams hold items only.
ReadyGiven ==
    /\ cpc = "ready_given"
    /\ isready' = (At(listener[cur]) # NULL)
    /\ cpc' = "ready_end"
    /\ UNCHANGED <<heap, listener, off, writers, history,
                   op, cur, outer, node, closed, got, answer, promised>>

WasClosed_late == off[cur]
WasClosed == closed

ReadyEnd ==
    /\ cpc = "ready_end"
    /\ IF isready \/ ~WasClosed
       THEN Return(IF isready THEN "yes" ELSE "no") /\ Stay
       ELSE /\ MoveTo(Root, node)
            /\ cpc' = "ready" /\ cur' = Root /\ node' = NULL /\ closed' = FALSE
            /\ UNCHANGED <<op, outer, isready, answer, promised>>
    /\ UNCHANGED <<heap, off, writers, got>>
-----------------------------------------------------------------------------
\* empty: nothing is left and nothing more can come from a given stream.
EmptyLoad ==
    /\ cpc = "empty"
    /\ LET n == At(listener[Root]) IN
        IF n # NULL /\ val[n] \in Child
        THEN /\ node' = n /\ cur' = val[n] /\ cpc' = "empty_closed"
             /\ UNCHANGED <<op, outer, closed, isready, answer, promised>>
        ELSE Return(IF n = NULL THEN "yes" ELSE "no")
    /\ Stay /\ UNCHANGED <<heap, off, writers, got>>

StillOpen_ignored == FALSE
StillOpen == ~off[cur]

EmptyClosed ==
    /\ cpc = "empty_closed"
    /\ IF StillOpen THEN Return("no")
       ELSE cpc' = "empty_given"
            /\ UNCHANGED <<op, cur, outer, node, closed, isready, answer, promised>>
    /\ Stay /\ UNCHANGED <<heap, off, writers, got>>

EmptyGiven ==
    /\ cpc = "empty_given"
    /\ IF At(listener[cur]) # NULL THEN Return("no") /\ Stay
       ELSE /\ MoveTo(Root, node)
            /\ cpc' = "empty" /\ cur' = Root /\ node' = NULL
            /\ UNCHANGED <<op, outer, closed, isready, answer, promised>>
    /\ UNCHANGED <<heap, off, writers, got>>
-----------------------------------------------------------------------------
\* ~concat of the outer stream, once every thread is done with it: free its nodes
\* and delete the given streams in them.
Destroy ==
    /\ cpc = "idle"
    /\ \A s \in Stream : ppc[s] = "idle" /\ (s # Root => off[s])
    /\ LET nodes == From(first[Root]) IN
        Freed(nodes \cup UNION {GivenNodes(n) : n \in nodes},
              {Root} \cup UNION {Given(n) : n \in nodes})
    /\ cpc' = "gone"
    /\ off' = [off EXCEPT ![Root] = TRUE]
    /\ first' = [s \in Stream |-> NULL]
    /\ last' = [s \in Stream |-> s]
    /\ listener' = [s \in Stream |-> s]
    /\ spent' = [s \in Stream |-> << >>]
    /\ unread' = [s \in Stream |-> << >>]
    /\ UNCHANGED <<writers, op, cur, outer, node, closed, isready, got, answer, promised>>
-----------------------------------------------------------------------------
Sweep(s) == SweepFirst(s) \/ SweepStop(s) \/ SweepFree(s)

Listen ==
    \/ Load \/ CheckOff \/ Reload \/ EndOfRoot \/ EndOfGiven \/ EnterGiven \/ Found
    \/ ReadyLoad \/ ReadyClosed \/ ReadyGiven \/ ReadyEnd
    \/ EmptyLoad \/ EmptyClosed \/ EmptyGiven

Running == cpc \notin {"exited", "gone"}

Next ==
    \/ /\ Running
       /\ \/ \E s \in Stream : \/ \E x \in Item : Put(s, x)
                               \/ Close(s)
                               \/ Sweep(s)
          \/ \E c \in Child : Give(c)
    \/ \E o \in {"get", "peek", "skip", "depleted", "ready", "empty"} : Call(o)
    \/ Listen
    \/ Destroy

Spec == Init /\ [][Next]_vars

\* The listener's thread keeps running while it is in a call, and so does a writer
\* in put or give.  Nothing is assumed to be put, closed or called.
FairSpec == Spec /\ WF_vars(Listen) /\ \A s \in Stream : WF_vars(Running /\ Sweep(s))
-----------------------------------------------------------------------------
All(s) == spent[s] \o unread[s]
Nodes(s) == {All(s)[i] : i \in DOMAIN All(s)}

\* The cells agree with the history: one list per stream, last at its end, the
\* listener on the last node read, which sweep keeps.
Chained ==
    \A s \in alive :
        LET all == All(s) IN
        /\ first[s] = IF all = << >> THEN NULL ELSE all[1]
        /\ \A i \in DOMAIN all :
            next[all[i]] = IF i = Len(all) THEN NULL ELSE all[i + 1]
        /\ last[s] = IF all = << >> THEN s ELSE all[Len(all)]
        /\ listener[s] = IF spent[s] = << >> THEN s ELSE spent[s][Len(spent[s])]

\* Every variable keeps its type, and the lists their shape.
TypeOK ==
    /\ Chained
    /\ allocated \subseteq Node /\ alive \subseteq Stream
    /\ next \in [Node -> Node \cup {NULL}]
    /\ val \in [Node -> Item \cup Child \cup {NULL}]
    /\ first \in [Stream -> Node \cup {NULL}]
    /\ last \in [Stream -> Stream \cup Node]
    /\ listener \in [Stream -> Stream \cup Node]
    /\ off \in [Stream -> BOOLEAN]
    /\ ppc \in [Stream -> {"idle", "sweep", "loop"}]
    /\ iter \in [Stream -> Node \cup {NULL}]
    /\ cpc \in {"idle", "load", "off", "reload", "end", "have", "ready", "ready_closed",
                "ready_given", "ready_end", "empty", "empty_closed", "empty_given",
                "exited", "gone"}
    /\ op \in {NULL, "get", "peek", "skip", "depleted", "ready", "empty"}
    /\ cur \in Stream
    /\ outer \in Node \cup {NULL} /\ node \in Node \cup {NULL}
    /\ cpc = "have" => node \in Node
    /\ closed \in BOOLEAN /\ isready \in BOOLEAN /\ promised \in BOOLEAN
    /\ got \in Item \cup {NULL} /\ answer \in {NULL, "yes", "no"}
    /\ spent \in [Stream -> Seq(Node)] /\ unread \in [Stream -> Seq(Node)]

\* No thread holds the address of a freed node or a deleted stream: the writer's
\* sweep never frees the node whose next cell the listener is on, and a given
\* stream is deleted only after its writer closed it and the listener left it.
MemorySafe ==
    /\ \A s \in alive :
        /\ first[s] \in allocated \cup {NULL}
        /\ last[s] \in allocated \cup {s}
        /\ listener[s] \in allocated \cup {s}
        /\ iter[s] \in allocated \cup {NULL}
    /\ node \in allocated \cup {NULL} /\ outer \in allocated \cup {NULL}
    /\ cpc # "gone" => cur \in alive
    /\ \A s \in Stream : ~off[s] \/ ppc[s] # "idle" => s \in alive

\* What is allocated is what the lists of the live streams hold, read or unread;
\* the live given streams are those in the outer list.
NoLeak ==
    /\ allocated = UNION {Nodes(s) : s \in alive}
    /\ alive \ {Root} = UNION {Given(n) : n \in allocated}
    /\ cpc = "gone" => alive = {}

\* ready says yes only when get would not wait, and no only when it would have
\* waited at the time of the call (tst/concat.cpp:115-116); empty, which lets
\* send_msg send ahead of the queue, says yes only when nothing is queued or still
\* to come from a given stream; depleted says no only when there is something to
\* get.  Writers may run between any two loads of the call.
AnswersRight ==
    [][ cpc # "idle" /\ cpc' = "idle" =>
        /\ op = "ready" => IF answer' = "yes" THEN Readable' ELSE ~promised
        /\ op = "empty" => LET vacant == \A i \in DOMAIN unread[Root] :
                                            Finished(unread[Root][i])
                           IN  (answer' = "yes") = vacant
        /\ op = "depleted" => IF answer' = "yes" THEN off[Root] /\ unread[Root] = << >>
                                                 ELSE Readable'
      ]_vars

\* Each put or give leaves at most one read node behind it in its list, however
\* many were read since the one before.
Swept ==
    [][ \A s \in Stream :
            ppc[s] # "idle" /\ ppc'[s] = "idle" => Len(spent[s]) <= 1 ]_vars

\* Once every stream is closed no call of the listener waits for ever.
CallsReturn ==
    (\A s \in Stream : off[s]) /\ cpc \notin {"idle", "gone", "exited"}
        ~> cpc \in {"idle", "exited"}

\* What is left to read in a stream.
Items(s) == [i \in DOMAIN unread[s] |-> val[unread[s][i]]]

\* Reading through the pointers is reading one sequence (Stream.tla).
Promise == INSTANCE Stream WITH
    None <- NULL,
    queue <- Items(Root),
    sub <- [c \in Child |-> Items(c)],
    open <- {c \in Child : ~off[c]},
    ended <- off[Root],
    taken <- got,
    over <- ~Running

RefinesStream == Promise!Spec
=============================================================================
