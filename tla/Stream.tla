------------------------------- MODULE Stream -------------------------------
(***************************************************************************)
(* What include/concat.h promises: a queue of items and of given streams,  *)
(* read by one listener as one sequence.  A given stream is read to its    *)
(* end, in its place, and only a closed one has an end.  Nothing written   *)
(* is lost, repeated or overtaken, and a listener is only told the stream  *)
(* has ended when its owner closed it and everything was read.             *)
(***************************************************************************)
EXTENDS Sequences

CONSTANTS
    Child,      \* streams that can be given
    Item,       \* what is put in a stream
    None        \* no item

VARIABLES
    queue,      \* what is left to read: items and given streams, oldest first
    sub,        \* given stream -> the items left in it
    open,       \* the given streams that their writers have not closed
    ended,      \* the outer stream is closed
    taken,      \* the item read last
    over        \* the listener ran off the end, or the stream was destroyed

absVars == <<queue, sub, open, ended, taken, over>>

Queued(c) == \E i \in DOMAIN queue : queue[i] = c

Init ==
    /\ queue = << >>
    /\ sub = [c \in Child |-> << >>]
    /\ open = {}
    /\ ended = FALSE
    /\ taken = None
    /\ over = FALSE

Put(x) ==
    /\ ~ended
    /\ queue' = Append(queue, x)
    /\ UNCHANGED <<sub, open, ended, taken, over>>

Give(c) ==
    /\ ~ended /\ c \notin open /\ ~Queued(c)
    /\ queue' = Append(queue, c)
    /\ open' = open \cup {c}
    /\ UNCHANGED <<sub, ended, taken, over>>

SubPut(c, x) ==
    /\ c \in open
    /\ sub' = [sub EXCEPT ![c] = Append(@, x)]
    /\ UNCHANGED <<queue, open, ended, taken, over>>

SubClose(c) ==
    /\ c \in open
    /\ open' = open \ {c}
    /\ UNCHANGED <<queue, sub, ended, taken, over>>

End ==
    /\ ~ended
    /\ ended' = TRUE
    /\ UNCHANGED <<queue, sub, open, taken, over>>

\* The next item is there to be read: at the front, or in the stream in front.
Readable ==
    /\ queue # << >>
    /\ Head(queue) \in Child => sub[Head(queue)] # << >>

Front == IF Head(queue) \in Child THEN Head(sub[Head(queue)]) ELSE Head(queue)

Advance ==
    IF Head(queue) \in Child
    THEN sub' = [sub EXCEPT ![Head(queue)] = Tail(@)] /\ UNCHANGED queue
    ELSE queue' = Tail(queue) /\ UNCHANGED sub

\* The listener reads an item and moves on (get), reads it (peek), or moves on (skip).
Get  == ~over /\ Readable /\ taken' = Front /\ Advance /\ UNCHANGED <<open, ended, over>>
Peek == ~over /\ Readable /\ taken' = Front /\ UNCHANGED <<queue, sub, open, ended, over>>
Skip == ~over /\ Readable /\ Advance /\ UNCHANGED <<taken, open, ended, over>>

\* It goes past a given stream only when that is closed and read to its end.
Pass ==
    /\ ~over /\ queue # << >> /\ Head(queue) \in Child
    /\ Head(queue) \notin open
    /\ sub[Head(queue)] = << >>
    /\ queue' = Tail(queue)
    /\ UNCHANGED <<sub, open, ended, taken, over>>

\* Reading past the end is exit(ENODATA).
RunOff ==
    /\ ~over /\ ended /\ queue = << >>
    /\ over' = TRUE
    /\ UNCHANGED <<queue, sub, open, ended, taken>>

Destroy ==
    /\ ~over /\ open = {}
    /\ over' = TRUE /\ ended' = TRUE
    /\ queue' = << >>
    /\ sub' = [c \in Child |-> << >>]
    /\ UNCHANGED <<open, taken>>

Next ==
    \/ \E x \in Item : Put(x) \/ \E c \in Child : SubPut(c, x)
    \/ \E c \in Child : Give(c) \/ SubClose(c)
    \/ End \/ Get \/ Peek \/ Skip \/ Pass \/ RunOff \/ Destroy

Spec == Init /\ [][Next]_absVars
=============================================================================
