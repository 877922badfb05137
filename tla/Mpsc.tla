-------------------------------- MODULE Mpsc --------------------------------
(***************************************************************************)
(* The multi-producer single-consumer list of include/mpsc.h, as           *)
(* src/todo.cpp uses it: any thread calls add_todo (put), the main loop    *)
(* calls do_todos, which calls get until it returns NULL and runs each     *)
(* job it gets.                                                            *)
(*                                                                         *)
(* Every access to a shared cell (last.exchange, next.store, next.load) is *)
(* a step of its own.  Node is the set of addresses malloc can return: a   *)
(* freed address may be handed out again at once, so a thread that kept a  *)
(* stale pointer would touch another thread's node.                        *)
(***************************************************************************)
EXTENDS Naturals, Sequences

CONSTANTS
    Producer,   \* threads that call add_todo
    Job,        \* the (function, argument) pairs they queue
    Node,       \* heap addresses; bounds the number of live nodes
    NULL

ASSUME MpscAssumption ==
    /\ NULL \notin Node
    /\ NULL \notin Job
    /\ NULL \notin Producer

VARIABLES
    allocated,  \* the nodes malloc has returned and nobody has freed
    next,       \* node -> the atomic next pointer in it
    data,       \* node -> the job in it (NULL: never written)
    first,      \* consumer: the last node consumed (the sentinel at first)
    last,       \* shared: the node the next put will link after
    pc,         \* producer -> where it is in put
    proposal,   \* producer -> the node it is adding
    prev,       \* producer -> what last.exchange returned to it
    cpc,        \* where the consumer is in do_todos, get or ~mpsc
    to_delete,  \* consumer: the node get is about to free
    chain       \* history: the nodes from first on, in the order of the exchanges

vars == <<allocated, next, data, first, last, pc, proposal, prev, cpc,
          to_delete, chain>>

Closing == {"destroy", "gone"}
-----------------------------------------------------------------------------
\* mpsc(): one sentinel node, first and last on it.
Init ==
    \E n \in Node :
        /\ allocated = {n}
        /\ next = [m \in Node |-> NULL]
        /\ data = [m \in Node |-> NULL]
        /\ first = n /\ last = n
        /\ pc = [p \in Producer |-> "idle"]
        /\ proposal = [p \in Producer |-> NULL]
        /\ prev = [p \in Producer |-> NULL]
        /\ cpc = "idle"
        /\ to_delete = NULL
        /\ chain = <<n>>
-----------------------------------------------------------------------------
(***************************************************************************)
(* put: allocate and fill a node, exchange it into last, and link it after *)
(* the node the exchange returned.                                         *)
(***************************************************************************)
\* Until the exchange the node is private to p: allocating and filling it is one
\* step.  Nobody calls put on a queue being destroyed (its owner's contract).
PutAlloc(p, job) ==
    /\ pc[p] = "idle"
    /\ cpc \notin Closing
    /\ \E n \in Node \ allocated :
        /\ allocated' = allocated \cup {n}
        /\ data' = [data EXCEPT ![n] = job]
        /\ next' = [next EXCEPT ![n] = NULL]
        /\ proposal' = [proposal EXCEPT ![p] = n]
    /\ pc' = [pc EXCEPT ![p] = "swap"]
    /\ UNCHANGED <<first, last, prev, cpc, to_delete, chain>>

PutSwap_loadOnly(p) ==
    /\ pc[p] = "swap"
    /\ prev' = [prev EXCEPT ![p] = last]
    /\ chain' = Append(chain, proposal[p])
    /\ pc' = [pc EXCEPT ![p] = "link"]
    /\ UNCHANGED <<allocated, next, data, first, last, proposal, cpc, to_delete>>

PutSwap(p) ==
    /\ pc[p] = "swap"
    /\ prev' = [prev EXCEPT ![p] = last]
    /\ last' = proposal[p]
    /\ chain' = Append(chain, proposal[p])
    /\ pc' = [pc EXCEPT ![p] = "link"]
    /\ UNCHANGED <<allocated, next, data, first, proposal, cpc, to_delete>>

LinkAfter_last(p) == last
LinkAfter(p) == prev[p]

PutLink(p) ==
    /\ pc[p] = "link"
    /\ next' = [next EXCEPT ![LinkAfter(p)] = proposal[p]]
    /\ pc' = [pc EXCEPT ![p] = "idle"]
    /\ proposal' = [proposal EXCEPT ![p] = NULL]
    /\ prev' = [prev EXCEPT ![p] = NULL]
    /\ UNCHANGED <<allocated, data, first, last, cpc, to_delete, chain>>
-----------------------------------------------------------------------------
(***************************************************************************)
(* do_todos and get: load first->next; if NULL return NULL and leave the   *)
(* loop, otherwise step to it, free the node left behind and run the job   *)
(* in the new first.                                                       *)
(***************************************************************************)
Consume(from, to) == cpc = from /\ cpc' = to

DoTodos ==
    /\ Consume("idle", "get")
    /\ UNCHANGED <<allocated, next, data, first, last, pc, proposal, prev,
                   to_delete, chain>>

HasNext_unchecked == TRUE
HasNext == next[first] # NULL

GetEmpty ==
    /\ Consume("get", "idle")
    /\ ~HasNext
    /\ UNCHANGED <<allocated, next, data, first, last, pc, proposal, prev,
                   to_delete, chain>>

GetSome ==
    /\ Consume("get", "advance")
    /\ HasNext
    /\ UNCHANGED <<allocated, next, data, first, last, pc, proposal, prev,
                   to_delete, chain>>

LeftBehind_returned == next[first]
LeftBehind == first

GetAdvance ==
    /\ Consume("advance", "free")
    /\ to_delete' = LeftBehind
    /\ first' = next[first]
    /\ chain' = Tail(chain)
    /\ UNCHANGED <<allocated, next, data, last, pc, proposal, prev>>

\* What a freed node held is gone.
Free(n) ==
    /\ allocated' = allocated \ {n}
    /\ next' = [next EXCEPT ![n] = NULL]
    /\ data' = [data EXCEPT ![n] = NULL]

GetFree_forgotten ==
    /\ Consume("free", "run")
    /\ to_delete' = NULL
    /\ UNCHANGED <<allocated, next, data, first, last, pc, proposal, prev, chain>>

GetFree ==
    /\ Consume("free", "run")
    /\ Free(to_delete)
    /\ to_delete' = NULL
    /\ UNCHANGED <<first, last, pc, proposal, prev, chain>>

\* job->func(job->arg), read through the pointer get returned; then the next get.
RunJob ==
    /\ Consume("run", "get")
    /\ UNCHANGED <<allocated, next, data, first, last, pc, proposal, prev,
                   to_delete, chain>>
-----------------------------------------------------------------------------
(***************************************************************************)
(* ~mpsc: walk from first, freeing every node.  The owner has joined the   *)
(* producers (tst/mpsc.cpp) and is not inside do_todos.                    *)
(***************************************************************************)
Destroy ==
    /\ \A p \in Producer : pc[p] = "idle"
    /\ Consume("idle", "destroy")
    /\ UNCHANGED <<allocated, next, data, first, last, pc, proposal, prev,
                   to_delete, chain>>

DestroyNext ==
    /\ cpc = "destroy" /\ first # NULL
    /\ Free(first)
    /\ first' = next[first]
    /\ chain' = Tail(chain)
    /\ UNCHANGED <<last, pc, proposal, prev, cpc, to_delete>>

DestroyDone ==
    /\ Consume("destroy", "gone")
    /\ first = NULL
    /\ UNCHANGED <<allocated, next, data, first, last, pc, proposal, prev,
                   to_delete, chain>>
-----------------------------------------------------------------------------
Put(p) == (\E job \in Job : PutAlloc(p, job)) \/ PutSwap(p) \/ PutLink(p)

Get == GetEmpty \/ GetSome \/ GetAdvance \/ GetFree

Next ==
    \/ \E p \in Producer : Put(p)
    \/ DoTodos \/ Get \/ RunJob
    \/ Destroy \/ DestroyNext \/ DestroyDone

Spec == Init /\ [][Next]_vars

\* A thread inside put is eventually scheduled again, and the server's main loop
\* calls do_todos for ever (src/server.cpp:21-35).  Nothing forces a put to start
\* or the queue to be destroyed.
FairSpec ==
    /\ Spec
    /\ \A p \in Producer : WF_vars(PutSwap(p)) /\ WF_vars(PutLink(p))
    /\ WF_vars(DoTodos \/ Get \/ RunJob)
    /\ WF_vars(DestroyNext \/ DestroyDone)
-----------------------------------------------------------------------------
InPut(p) == pc[p] # "idle"

InChain(n) == \E i \in DOMAIN chain : chain[i] = n

\* The i-th link of the chain is not stored yet, and p is the one to store it.
Filling(p, i) ==
    /\ pc[p] = "link"
    /\ prev[p] = chain[i]
    /\ proposal[p] = chain[i + 1]

\* Every variable keeps its type; first is NULL only once ~mpsc has freed all.
TypeOK ==
    /\ allocated \subseteq Node
    /\ next \in [Node -> Node \cup {NULL}]
    /\ data \in [Node -> Job \cup {NULL}]
    /\ first \in Node \cup {NULL}
    /\ first = NULL => cpc \in Closing
    /\ last \in Node
    /\ pc \in [Producer -> {"idle", "swap", "link"}]
    /\ proposal \in [Producer -> Node \cup {NULL}]
    /\ \A p \in Producer : pc[p] # "idle" => proposal[p] \in Node
    /\ prev \in [Producer -> Node \cup {NULL}]
    /\ \A p \in Producer : pc[p] = "link" => prev[p] \in Node
    /\ cpc \in {"idle", "get", "advance", "free", "run"} \cup Closing
    /\ to_delete \in Node \cup {NULL}
    /\ cpc = "free" => to_delete \in Node
    /\ chain \in Seq(Node)

\* No thread follows a pointer to a freed node, nor frees one twice: not the
\* consumer through first or to_delete, not a producer that was suspended between
\* its exchange and its store while the consumer went on freeing.
MemorySafe ==
    /\ first # NULL => first \in allocated
    /\ cpc = "free" => to_delete \in allocated \ {first}
    /\ \A p \in Producer :
        pc[p] = "link" => prev[p] \in allocated /\ proposal[p] \in allocated

\* Every allocated node is in the list, being added or about to be freed, so
\* get frees all that put allocates and ~mpsc leaves nothing behind.
NoLeak ==
    /\ \A n \in allocated :
        \/ InChain(n)
        \/ cpc = "free" /\ n = to_delete
        \/ \E p \in Producer : pc[p] = "swap" /\ proposal[p] = n
    /\ cpc = "gone" => allocated = {}

\* The list is one chain from first to last in exchange order.  A missing link is
\* a put between its exchange and its store, and that put still holds the two
\* nodes it must join: the list mends itself whatever the other threads did.
ChainMends ==
    /\ chain # << >> => chain[1] = first /\ chain[Len(chain)] = last
    /\ \A i \in 1 .. Len(chain) - 1 :
        \/ next[chain[i]] = chain[i + 1]
        \/ next[chain[i]] = NULL /\ \E p \in Producer : Filling(p, i)
    /\ \A p \in Producer :
        pc[p] = "link" => \E i \in 1 .. Len(chain) - 1 :
                            Filling(p, i) /\ next[chain[i]] = NULL

\* What makes the above inductive: the nodes in play are allocated and distinct,
\* the end of the list and every node not yet exchanged carry a NULL link.
Distinct ==
    /\ \A i \in DOMAIN chain : chain[i] \in allocated
    /\ \A i, j \in DOMAIN chain : chain[i] = chain[j] => i = j
    /\ chain # << >> => next[last] = NULL
    /\ \A p \in Producer :
        pc[p] = "swap" => /\ proposal[p] \in allocated
                          /\ ~InChain(proposal[p])
                          /\ next[proposal[p]] = NULL
    /\ \A p, q \in Producer :
        InPut(p) /\ InPut(q) /\ proposal[p] = proposal[q] => p = q
    /\ \A i \in DOMAIN chain : i # 1 => data[chain[i]] \in Job
    /\ \A p \in Producer : pc[p] = "swap" => data[proposal[p]] \in Job

Consumer ==
    /\ first = NULL <=> chain = << >>
    /\ cpc = "gone" => chain = << >>
    /\ cpc = "advance" => next[first] # NULL
    /\ cpc = "free" => /\ to_delete \in allocated
                       /\ ~InChain(to_delete)
                       /\ \A p \in Producer : InPut(p) => proposal[p] # to_delete
    /\ cpc \in {"free", "run"} => data[first] \in Job
    /\ cpc \in Closing => \A p \in Producer : pc[p] = "idle"

IInv == TypeOK /\ NoLeak /\ ChainMends /\ Distinct /\ Consumer

\* A job whose put is past its exchange is reached by the main loop, unless the
\* queue is destroyed first: no interleaving of puts loses or strands it.
EveryJobRuns ==
    \A n \in Node :
        (\E i \in 2 .. Len(chain) : chain[i] = n)
            ~> (first = n \/ cpc \in Closing)
-----------------------------------------------------------------------------
\* The producer that has exchanged n in and not yet linked it, if any.
Adder(n) ==
    IF \E p \in Producer : pc[p] = "link" /\ proposal[p] = n
    THEN CHOOSE p \in Producer : pc[p] = "link" /\ proposal[p] = n
    ELSE NULL

Queued ==
    [i \in 1 .. Len(chain) - 1 |->
        [job |-> data[chain[i + 1]], by |-> Adder(chain[i + 1])]]

Running == IF cpc \in {"free", "run"} THEN data[first] ELSE NULL

Todo == INSTANCE TodoQueue WITH
    None <- NULL,
    queue <- Queued,
    running <- Running,
    draining <- cpc \in {"get", "advance", "free", "run"},
    closed <- cpc \in Closing

\* The list implements the queue of jobs src/todo.cpp needs: oldest first, a job
\* taken only when its put has landed, do_todos stopping only on an empty queue
\* or on an unlanded head.
RefinesTodoQueue == Todo!Spec
=============================================================================
