----------------------------- MODULE TodoQueue -----------------------------
(***************************************************************************)
(* What src/todo.cpp promises to the threads that call add_todo and to the *)
(* main loop that calls do_todos: one queue of jobs, run in the order in   *)
(* which the calls took effect.  A job is "landed" once the add_todo that  *)
(* queued it is past its last store.  do_todos may stop early, but only    *)
(* when the oldest job is not landed yet.                                  *)
(***************************************************************************)
EXTENDS Sequences

CONSTANTS
    Producer,   \* threads that call add_todo
    Job,        \* the (function, argument) pairs they queue
    None        \* no producer, no job

VARIABLES
    queue,      \* the queued jobs, oldest first, with the producer still adding it
    running,    \* the job the main loop is running, or None
    draining,   \* the main loop is inside do_todos
    closed      \* the queue is being destroyed: no add_todo, no do_todos

absVars == <<queue, running, draining, closed>>

Entry == [job : Job, by : Producer \cup {None}]

Landed(e) == e.by = None

Init ==
    /\ queue = << >>
    /\ running = None
    /\ draining = FALSE
    /\ closed = FALSE

\* An add_todo takes effect ...
Enqueue(p, job) ==
    /\ ~closed
    /\ \A i \in DOMAIN queue : queue[i].by # p
    /\ queue' = Append(queue, [job |-> job, by |-> p])
    /\ UNCHANGED <<running, draining, closed>>

\* ... and completes.
Land(p) ==
    /\ \E i \in DOMAIN queue : queue[i].by = p
    /\ queue' = [i \in DOMAIN queue |->
                    [queue[i] EXCEPT !.by = IF @ = p THEN None ELSE @]]
    /\ UNCHANGED <<running, draining, closed>>

Drain ==
    /\ ~draining /\ ~closed
    /\ draining' = TRUE
    /\ UNCHANGED <<queue, running, closed>>

\* do_todos takes the oldest job, if landed, when it runs no other.
Dequeue ==
    /\ draining /\ running = None
    /\ queue # << >> /\ Landed(Head(queue))
    /\ running' = Head(queue).job
    /\ queue' = Tail(queue)
    /\ UNCHANGED <<draining, closed>>

Finish ==
    /\ running # None
    /\ running' = None
    /\ UNCHANGED <<queue, draining, closed>>

\* do_todos returns: nothing is queued, or the oldest job is still being added.
Stop ==
    /\ draining /\ running = None
    /\ queue = << >> \/ ~Landed(Head(queue))
    /\ draining' = FALSE
    /\ UNCHANGED <<queue, running, closed>>

\* Destruction, only while nobody uses the queue; the jobs left are dropped.
Close ==
    /\ ~draining /\ ~closed
    /\ \A i \in DOMAIN queue : Landed(queue[i])
    /\ closed' = TRUE
    /\ UNCHANGED <<queue, running, draining>>

Discard ==
    /\ closed
    /\ queue # << >>
    /\ queue' = Tail(queue)
    /\ UNCHANGED <<running, draining, closed>>

Next ==
    \/ \E p \in Producer : (\E job \in Job : Enqueue(p, job)) \/ Land(p)
    \/ Drain \/ Dequeue \/ Finish \/ Stop
    \/ Close \/ Discard

Spec == Init /\ [][Next]_absVars
=============================================================================
