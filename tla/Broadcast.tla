------------------------------ MODULE Broadcast ------------------------------
(***************************************************************************)
(* include/stream.h: a stream whose elements go to every listener.  The    *)
(* outer stream "out" has max_ports ports, a writing thread, and a thread  *)
(* at each port that has been listened to; the key of port KeyId of a      *)
(* second stream "in", which has a writing thread too, may be given to it. *)
(* With one port the given stream is read in place.  With more, a thread   *)
(* (populate) copies it to a stream "proxy" with a port for each of ours.  *)
(*                                                                         *)
(* Nodes are counted in the order they were linked, so that node n is      *)
(* freed when n <= freed.  A location is the node whose next cell it is,   *)
(* or 0 for the cell first.  Each load of a cell another thread writes is  *)
(* a step of its own.                                                      *)
(***************************************************************************)
EXTENDS Integers, SequencesExt

CONSTANTS
    OutPorts,   \* the numbers of ports tried for out
    InPorts,    \* the number of ports of in, each with a key
    KeyId,      \* the port of in whose key is given
    MaxOut,     \* number of ports of out -> bound on the nodes put in it
    MaxIn,      \* number of ports of out -> bound on the nodes put in in
    Calls,      \* number of ports -> the calls the listeners of out make
    NULL

ASSUME BroadcastAssumption ==
    /\ OutPorts \subseteq Nat \ {0} /\ OutPorts # {} /\ IsFiniteSet(OutPorts)
    /\ InPorts \in Nat /\ KeyId \in 0 .. InPorts - 1
    /\ \A n \in OutPorts : MaxOut[n] \in Nat /\ MaxIn[n] \in Nat
    /\ \A n \in OutPorts : Calls[n] \subseteq {"get", "peek", "skip", "depleted", "ready", "empty"}
    /\ NULL \notin Nat \cup {"exit", "gone", "undefined"}

Strm == {"out", "in", "proxy"}
Port == 0 .. Max(OutPorts) - 1
Populate == -1                      \* the thread that runs populate
Reader == Port \cup {Populate}
GIVEN == <<"out", 0>>               \* the content of a node with other set
Yes == <<"yes", 0>>
No == <<"no", 0>>

VARIABLES
    max_ports,  \* of out, and of the proxy
    list,       \* stream -> all nodes ever linked, oldest first
    freed,      \* stream -> how many of them are freed
    listeners,  \* stream -> port -> the location read next, or NULL
    off,        \* stream -> closed
    proxy,      \* "none", "live" or "deleted"
    wpc,        \* stream -> where its writer is
    iter,       \* stream -> sweep's iter, 0 for NULL
    cancelling, \* pthread_cancel was called on populate
    rpc,        \* reader -> where it is
    op,         \* reader -> the call it is in
    cur,        \* reader -> the stream it is looking at
    asking,     \* reader -> it asks the given stream whether it is depleted
    node,       \* reader -> the node it loaded last, 0 for NULL
    closed,     \* reader -> ready: what proxy->closed() returned
    ret,        \* the element populate is copying
    over,       \* how the process, or the stream, ended
    took,       \* history: port -> elements its listener is past
    promised    \* history: port -> an element was there when ready was called

nodes == <<list, freed, off>>
writing == <<wpc, iter>>
frame == <<rpc, op, cur, asking, node, closed>>
reading == <<frame, ret, took, promised>>
vars == <<max_ports, nodes, listeners, proxy, writing, cancelling, reading, over>>

Ports(s) == IF s = "in" THEN 0 .. InPorts - 1 ELSE 0 .. max_ports - 1

\* What a location holds.
At(s, loc) ==
    LET n == IF loc = 0 THEN freed[s] + 1 ELSE loc + 1
    IN  IF n <= Len(list[s]) THEN n ELSE 0
-----------------------------------------------------------------------------
\* The caller of the constructors has listened to in, to give a key.
Init ==
    /\ max_ports \in OutPorts
    /\ list = [s \in Strm |-> << >>] /\ freed = [s \in Strm |-> 0]
    /\ off = [s \in Strm |-> FALSE]
    /\ listeners = [s \in Strm |-> [i \in Ports(s) |-> IF s = "in" THEN 0 ELSE NULL]]
    /\ proxy = "none" /\ cancelling = FALSE /\ over = NULL
    /\ wpc = [s \in Strm |-> "idle"] /\ iter = [s \in Strm |-> 0]
    /\ rpc = [t \in Reader |-> IF t = Populate THEN "none" ELSE "idle"]
    /\ op = [t \in Reader |-> NULL] /\ cur = [t \in Reader |-> "out"]
    /\ asking = [t \in Reader |-> FALSE] /\ node = [t \in Reader |-> 0]
    /\ closed = [t \in Reader |-> FALSE] /\ ret = NULL
    /\ took = [i \in Port |-> 0] /\ promised = [i \in Port |-> FALSE]

Running == over = NULL
-----------------------------------------------------------------------------
(***************************************************************************)
(* A writer of s: put and give, and the sweep that ends both.              *)
(***************************************************************************)
\* The node is private until `*last = put`, and last is the writer's own.
Link(s, x) ==
    /\ wpc[s] = "idle"
    /\ list' = [list EXCEPT ![s] = Append(@, x)]
    /\ wpc' = [wpc EXCEPT ![s] = "first"]
    /\ iter' = [iter EXCEPT ![s] = freed[s] + 1]
    /\ UNCHANGED <<max_ports, freed>>

Room(s) == Len(list[s]) < (IF s = "out" THEN MaxOut ELSE MaxIn)[max_ports]
Writes(s) == Running /\ ~off[s] /\ wpc[s] = "idle"

Put(s) ==
    /\ Writes(s) /\ Room(s)
    /\ Link(s, <<s, Len(list[s]) + 1>>)
    /\ UNCHANGED <<listeners, off, proxy, cancelling, reading, over>>

\* A key is given once.
Gives == Writes("out") /\ Room("out") /\ ~Contains(list["out"], GIVEN) /\ Link("out", GIVEN)

GiveOne ==
    /\ max_ports <= 1 /\ Gives
    /\ UNCHANGED <<listeners, off, proxy, cancelling, reading, over>>

\* The proxy has every port listening, used or not.
GiveAll ==
    /\ max_ports > 1 /\ Gives
    /\ proxy' = "live"
    /\ listeners' = [listeners EXCEPT !["proxy"] = [i \in Ports("proxy") |-> 0]]
    /\ rpc' = [rpc EXCEPT ![Populate] = "load"]
    /\ op' = [op EXCEPT ![Populate] = "depleted"]
    /\ cur' = [cur EXCEPT ![Populate] = "in"]
    /\ UNCHANGED <<off, cancelling, asking, node, closed, ret, took, promised, over>>

Close(s) ==
    /\ s # "proxy" /\ Writes(s)
    /\ off' = [off EXCEPT ![s] = TRUE]
    /\ UNCHANGED <<max_ports, list, freed, listeners, proxy, writing, cancelling, reading, over>>

\* listen, by the thread that writes.  Bound: before a stream is given.
Free == {i \in Ports("out") : listeners["out"][i] = NULL}
Listen(i) ==
    /\ Writes("out") /\ ~Contains(list["out"], GIVEN)
    /\ i \in Free /\ \A j \in Free : i <= j
    /\ rpc[i] = "idle"
    /\ listeners' = [listeners EXCEPT !["out"][i] = 0]
    /\ took' = [took EXCEPT ![i] = freed["out"]]
    /\ UNCHANGED <<max_ports, nodes, proxy, writing, cancelling, frame, ret, promised, over>>
-----------------------------------------------------------------------------
Sweeping(s, pc) == Running /\ wpc[s] = pc /\ UNCHANGED <<max_ports, list, off>>
WriterAt(s, pc) == wpc' = [wpc EXCEPT ![s] = pc]
SweepDone(s) == WriterAt(s, "idle") /\ iter' = [iter EXCEPT ![s] = 0]
NextNode(s) == IF iter[s] < Len(list[s]) THEN iter[s] + 1 ELSE 0

\* Some listener is at iter.  The loop over the ports is one step: a listener that
\* has been looked at and was past iter stays past it, and the cell is written by
\* this writer only.
Reached_first(s) == listeners[s][0] # NULL /\ At(s, listeners[s][0]) = iter[s]
Reached(s) == \E i \in Ports(s) : listeners[s][i] # NULL /\ At(s, listeners[s][i]) = iter[s]

\* A listener is at the first node; or none is, and the second is next.
SweepFirst(s) ==
    /\ Sweeping(s, "first")
    /\ IF Reached(s) THEN SweepDone(s)
       ELSE WriterAt(s, "loop") /\ iter' = [iter EXCEPT ![s] = NextNode(s)]
    /\ UNCHANGED <<freed, listeners, proxy, cancelling, reading, over>>

SweepStop(s) ==
    /\ Sweeping(s, "loop") /\ (iter[s] = 0 \/ Reached(s))
    /\ SweepDone(s)
    /\ UNCHANGED <<freed, listeners, proxy, cancelling, reading, over>>

HasProxy(s, n) == s = "out" /\ max_ports > 1 /\ list[s][n] = GIVEN

\* No listener is at iter: the node before it is freed, with its proxy.
Passed(s) == Sweeping(s, "loop") /\ iter[s] # 0 /\ ~Reached(s)

FreeFirst(s) ==
    /\ freed' = [freed EXCEPT ![s] = @ + 1]
    /\ iter' = [iter EXCEPT ![s] = NextNode(s)]

SweepFree(s) ==
    /\ Passed(s) /\ ~HasProxy(s, freed[s] + 1)
    /\ FreeFirst(s)
    /\ UNCHANGED <<listeners, proxy, wpc, cancelling, reading, over>>

SweepCancel ==
    /\ Passed("out") /\ HasProxy("out", freed["out"] + 1)
    /\ cancelling' = TRUE /\ WriterAt("out", "join")
    /\ UNCHANGED <<freed, listeners, proxy, iter, reading, over>>

Joined_unwaited == TRUE
Joined == rpc[Populate] = "ended"

SweepJoin ==
    /\ Sweeping("out", "join") /\ Joined
    /\ proxy' = "deleted"
    /\ FreeFirst("out") /\ WriterAt("out", "loop")
    /\ UNCHANGED <<listeners, cancelling, reading, over>>

\* ~stream, once the listeners are done with it: the given stream may still be
\* written and populate still run.
Destroy ==
    /\ Sweeping("out", "idle") /\ \A i \in Port : rpc[i] = "idle"
    /\ cancelling' = (proxy = "live") /\ WriterAt("out", "destroy")
    /\ UNCHANGED <<freed, listeners, proxy, iter, reading, over>>

Destroyed ==
    /\ Sweeping("out", "destroy") /\ (proxy = "live" => Joined)
    /\ freed' = [freed EXCEPT !["out"] = Len(list["out"])]
    /\ listeners' = [listeners EXCEPT !["out"] = [i \in Ports("out") |-> NULL]]
    /\ proxy' = IF proxy = "live" THEN "deleted" ELSE proxy
    /\ over' = "gone" /\ WriterAt("out", "idle")
    /\ UNCHANGED <<iter, cancelling, reading>>
-----------------------------------------------------------------------------
(***************************************************************************)
(* A reader.  get, peek, skip and depleted wait for a node alike: load the *)
(* cell; when it is NULL look whether the stream is closed, and if so load *)
(* the cell again, for the writer may have linked a node before it closed. *)
(***************************************************************************)
\* The port of the stream it looks at: id, or proxy_id.
PeekId(t) == t
PortOf(t) ==
    IF cur[t] # "in" THEN t
    ELSE IF op[t] = "peek" /\ ~asking[t] THEN PeekId(t) ELSE KeyId
Loc(t) == listeners[cur[t]][PortOf(t)]
Cell(t) == At(cur[t], Loc(t))
IsGiven(t) == list[cur[t]][node[t]] = GIVEN

At_(t, pc) == Running /\ rpc[t] = pc /\ UNCHANGED <<max_ports, nodes, proxy, writing, cancelling>>
To(t, pc) == rpc' = [rpc EXCEPT ![t] = pc]
Again(t) == To(t, "load") /\ node' = [node EXCEPT ![t] = 0]
Keep == UNCHANGED <<listeners, op, cur, asking, closed, ret, took, promised, over>>

\* What is to be read, in order: a given stream in its place, and what follows it
\* once it is closed.
Flat ==
    LET g == SelectInSeq(list["out"], LAMBDA x : x = GIVEN)
    IN  IF g = 0 THEN list["out"]
        ELSE SubSeq(list["out"], 1, g - 1) \o list["in"]
             \o (IF off["in"] THEN SubSeq(list["out"], g + 1, Len(list["out"])) ELSE << >>)

Call(t, o) ==
    /\ At_(t, "idle") /\ t \in Ports("out") /\ wpc["out"] # "destroy"
    /\ listeners["out"][t] # NULL
    /\ op' = [op EXCEPT ![t] = o]
    /\ To(t, IF o \in {"ready", "empty"} THEN o ELSE "load")
    /\ promised' = [promised EXCEPT ![t] = o = "ready" /\ took[t] < Len(Flat)]
    /\ UNCHANGED <<listeners, cur, asking, node, closed, ret, took, over>>

\* canceled(id) is listeners[id] = NULL.
Cancel(t) ==
    /\ At_(t, "idle") /\ t \in Ports("out") /\ wpc["out"] # "destroy"
    /\ listeners["out"][t] # NULL
    /\ listeners' = [listeners EXCEPT !["out"][t] = NULL]
    /\ UNCHANGED <<frame, ret, took, promised, over>>

Load(t) ==
    /\ At_(t, "load")
    /\ node' = [node EXCEPT ![t] = Cell(t)]
    /\ To(t, IF Cell(t) = 0 THEN "off" ELSE "have")
    /\ Keep

\* depleted waits in sleep, a cancellation point; get yields, which is none.
Cancels_never(t) == FALSE
Cancels(t) == t = Populate /\ cancelling /\ op[t] = "depleted"

CheckOff(t) ==
    /\ At_(t, "off")
    /\ To(t, CASE off[cur[t]]                -> "reload"
               [] ~off[cur[t]] /\ Cancels(t) -> "cleanup"
               [] OTHER                      -> "load")
    /\ Keep /\ UNCHANGED node

Reloaded_skipped(t) == 0
Reloaded(t) == Cell(t)

Reload(t) ==
    /\ At_(t, "reload")
    /\ node' = [node EXCEPT ![t] = Reloaded(t)]
    /\ To(t, IF Reloaded(t) = 0 THEN "end" ELSE "have")
    /\ Keep

\* The dead locals are cleared so that calls end in few different states.
Return(t) ==
    /\ To(t, "idle")
    /\ op' = [op EXCEPT ![t] = NULL] /\ cur' = [cur EXCEPT ![t] = "out"]
    /\ asking' = [asking EXCEPT ![t] = FALSE] /\ node' = [node EXCEPT ![t] = 0]
    /\ closed' = [closed EXCEPT ![t] = FALSE] /\ promised' = [promised EXCEPT ![t] = FALSE]

ReturnOnly(t) == Return(t) /\ UNCHANGED <<ret, took, over>>

\* What the step that ends a call returns.
Answer(t) ==
    CASE rpc[t] = "have" /\ op[t] # "depleted" -> list[cur[t]][node[t]]
      [] rpc[t] = "end" \/ (rpc[t] = "some" /\ op[t] = "ready") -> Yes
      [] rpc[t] \in {"ready", "empty"} -> IF (Cell(t) = 0) = (op[t] = "empty") THEN Yes ELSE No
      [] OTHER -> No

\* Nothing can come any more: depleted says so, the others exit(ENODATA).
End(t) ==
    /\ At_(t, "end") /\ t # Populate /\ ~asking[t] /\ UNCHANGED listeners
    /\ IF op[t] = "depleted" THEN ReturnOnly(t)
       ELSE over' = "exit" /\ UNCHANGED reading

\* listeners[id] = &n->next in stream s.
MoveTo(s, i, n) == listeners' = [listeners EXCEPT ![s][i] = n]

\* The given stream ended: go past it and start over.
EndOfGiven(t) ==
    /\ At_(t, "end") /\ asking[t]
    /\ MoveTo("out", t, At("out", listeners["out"][t]))
    /\ cur' = [cur EXCEPT ![t] = "out"] /\ asking' = [asking EXCEPT ![t] = FALSE]
    /\ To(t, "load")
    /\ UNCHANGED <<op, node, closed, ret, took, promised, over>>

EnterGiven(t) ==
    /\ At_(t, "have") /\ IsGiven(t)
    /\ cur' = [cur EXCEPT ![t] = IF max_ports <= 1 THEN "in" ELSE "proxy"]
    /\ asking' = [asking EXCEPT ![t] = TRUE]
    /\ Again(t)
    /\ UNCHANGED <<listeners, op, closed, ret, took, promised, over>>

\* The given stream is not depleted: the call goes to it.
AskedGiven(t) ==
    /\ At_(t, "have") /\ asking[t] /\ op[t] # "depleted"
    /\ asking' = [asking EXCEPT ![t] = FALSE]
    /\ Again(t)
    /\ UNCHANGED <<listeners, op, cur, closed, ret, took, promised, over>>

\* An element, for a listener.
Found(t) ==
    /\ At_(t, "have") /\ t # Populate /\ ~IsGiven(t) /\ (asking[t] => op[t] = "depleted")
    /\ IF op[t] \in {"get", "skip"}
       THEN MoveTo(cur[t], PortOf(t), node[t]) /\ took' = [took EXCEPT ![t] = @ + 1]
       ELSE UNCHANGED <<listeners, took>>
    /\ Return(t) /\ UNCHANGED <<ret, over>>
-----------------------------------------------------------------------------
(***************************************************************************)
(* ready and empty look into a given stream under node->id, which give has *)
(* set only when there is one port.                                        *)
(***************************************************************************)
Look(t, o) ==
    /\ At_(t, o)
    /\ LET n == Cell(t) IN
       IF n = 0 \/ list["out"][n] # GIVEN
       THEN ReturnOnly(t) /\ UNCHANGED listeners
       ELSE IF max_ports > 1 THEN over' = "undefined" /\ UNCHANGED <<listeners, reading>>
       ELSE /\ node' = [node EXCEPT ![t] = n] /\ cur' = [cur EXCEPT ![t] = "in"]
            /\ To(t, "closed")
            /\ UNCHANGED <<listeners, op, asking, closed, ret, took, promised, over>>

LookClosed(t) ==
    /\ At_(t, "closed")
    /\ IF op[t] = "empty" /\ ~off["in"] THEN ReturnOnly(t)
       ELSE /\ closed' = [closed EXCEPT ![t] = off["in"]] /\ To(t, "inside")
            /\ UNCHANGED <<op, cur, asking, node, ret, took, promised, over>>
    /\ UNCHANGED listeners

WasClosed_late(t) == off["in"]
WasClosed(t) == closed[t]

\* Given streams hold elements only.
LookInside(t) ==
    /\ At_(t, "inside")
    /\ To(t, IF Cell(t) # 0 THEN "some" ELSE "past")
    /\ Keep /\ UNCHANGED node

LookAnswer(t) ==
    /\ At_(t, "some") \/ (At_(t, "past") /\ ~WasClosed(t))
    /\ ReturnOnly(t)
    /\ UNCHANGED listeners

LookPast(t) ==
    /\ At_(t, "past") /\ WasClosed(t)
    /\ MoveTo("out", t, node[t])
    /\ cur' = [cur EXCEPT ![t] = "out"] /\ To(t, op[t])
    /\ UNCHANGED <<op, asking, node, closed, ret, took, promised, over>>
-----------------------------------------------------------------------------
(***************************************************************************)
(* populate, with in as its source and the proxy as its destination.       *)
(***************************************************************************)
Copying == UNCHANGED <<max_ports, list, freed, proxy, writing, cancelling, cur, asking, closed,
                       took, promised, over>>

PopulateFound ==
    /\ At_(Populate, "have")
    /\ IF op[Populate] = "depleted"
       THEN /\ op' = [op EXCEPT ![Populate] = "get"] /\ Again(Populate)
            /\ UNCHANGED <<listeners, ret>>
       ELSE /\ MoveTo("in", KeyId, node[Populate])
            /\ ret' = list["in"][node[Populate]]
            /\ To(Populate, "put") /\ node' = [node EXCEPT ![Populate] = 0]
            /\ UNCHANGED op
    /\ UNCHANGED <<cur, asking, closed, took, promised, over>>

PopulatePut ==
    /\ Running /\ rpc[Populate] = "put"
    /\ Link("proxy", ret)
    /\ ret' = NULL /\ To(Populate, "sweep")
    /\ UNCHANGED <<listeners, off, proxy, cancelling, op, cur, asking, node, closed,
                   took, promised, over>>

PopulateNext ==
    /\ Running /\ rpc[Populate] = "sweep" /\ wpc["proxy"] = "idle"
    /\ op' = [op EXCEPT ![Populate] = "depleted"] /\ To(Populate, "load")
    /\ Copying /\ UNCHANGED <<listeners, off, node, ret>>

CloseProxy_never == UNCHANGED off
CloseProxy == off' = [off EXCEPT !["proxy"] = TRUE]

PopulateClose ==
    /\ Running /\ rpc[Populate] = "end"
    /\ CloseProxy
    /\ To(Populate, "cleanup")
    /\ Copying /\ UNCHANGED <<listeners, op, node, ret>>

\* populate_cleanup, at the end and when the thread is canceled.
PopulateCleanup ==
    /\ Running /\ rpc[Populate] = "cleanup"
    /\ listeners' = [listeners EXCEPT !["in"][KeyId] = NULL]
    /\ To(Populate, "ended")
    /\ Copying /\ UNCHANGED <<off, op, node, ret>>
-----------------------------------------------------------------------------
Sweep(s) == SweepFirst(s) \/ SweepStop(s) \/ SweepFree(s)
WriteOut == SweepCancel \/ SweepJoin \/ Destroyed

Wait(t) == Load(t) \/ CheckOff(t) \/ Reload(t)
Listening(t) ==
    \/ Wait(t) \/ End(t) \/ EndOfGiven(t) \/ EnterGiven(t) \/ AskedGiven(t) \/ Found(t)
    \/ Look(t, "ready") \/ Look(t, "empty") \/ LookClosed(t) \/ LookInside(t)
    \/ LookAnswer(t) \/ LookPast(t)
Populating ==
    \/ Wait(Populate) \/ PopulateFound \/ PopulatePut \/ PopulateNext \/ PopulateClose
    \/ PopulateCleanup \/ Sweep("proxy")

Next ==
    \/ \E s \in {"out", "in"} : Put(s) \/ Close(s) \/ Sweep(s)
    \/ GiveOne \/ GiveAll \/ WriteOut \/ Destroy
    \/ \E t \in Port :
          \/ Listen(t) \/ Cancel(t) \/ Listening(t)
          \/ \E o \in Calls[max_ports] : Call(t, o)
    \/ Populating

Spec == Init /\ [][Next]_vars

\* A thread inside a call is scheduled.  Nothing has to be put, closed or called.
FairSpec ==
    /\ Spec
    /\ WF_vars(Sweep("out") \/ WriteOut) /\ WF_vars(Populating)
    /\ \A t \in Port : WF_vars(Listening(t))
-----------------------------------------------------------------------------
InUse(t) == rpc[t] \notin {"none", "idle", "ended"}

\* No thread holds the address of a freed node or a deleted stream: a sweep never
\* frees the node whose next cell a listener is on, whichever of them is behind,
\* and a proxy is deleted only when populate has ended and no listener is in it.
MemorySafe ==
    /\ \A s \in Strm : \A i \in Ports(s) :
          listeners[s][i] # NULL /\ (s = "proxy" => proxy = "live")
          => listeners[s][i] = 0 \/ listeners[s][i] > freed[s]
    /\ \A s \in Strm : list[s] # << >> /\ over # "gone" => freed[s] < Len(list[s])
    /\ \A t \in Reader : rpc[t] = "have" => node[t] > freed[cur[t]]
    /\ \A t \in Reader : InUse(t) /\ (t = Populate \/ cur[t] = "proxy") => proxy = "live"

\* Every listener gets what was put since it listened, in order and without a gap,
\* a given stream whole and in its place, whatever the others do and however the
\* copying to a proxy is scheduled; what peek shows is what get would take.
InOrder ==
    [][ \A t \in Port :
          rpc[t] = "have" /\ rpc'[t] = "idle" /\ op[t] \in {"get", "peek"} =>
            took[t] < Len(Flat) /\ Answer(t) = Flat[took[t] + 1] ]_vars

\* Nothing is left and nothing can come from a given stream.
Vacant(t) == took[t] = Len(Flat) /\ (Contains(list["out"], GIVEN) => off["in"])

\* ready says yes only when get would not wait, and no only when it would have
\* waited at the time of the call; empty says yes just when nothing is left and no
\* given stream is open; depleted says yes only when get would exit, and no only
\* when it would not wait.
AnswersRight ==
    [][ \A t \in Port : InUse(t) /\ rpc'[t] = "idle" =>
          LET yes == Answer(t) = Yes IN
          /\ op[t] = "ready" => IF yes THEN took[t] < Len(Flat) ELSE ~promised[t]
          /\ op[t] = "empty" => (yes = Vacant(t))
          /\ op[t] = "depleted" => IF yes THEN off["out"] /\ Vacant(t)
                                          ELSE took[t] < Len(Flat) ]_vars

\* Once both streams are closed no call of a listener waits for ever.
CallsReturn ==
    \A t \in Port : off["out"] /\ off["in"] /\ InUse(t) ~> ~InUse(t) \/ ~Running

\* put, give and the destructor return: populate, which they join, notices that it
\* is canceled although its source may never be written or closed again.
WriterReturns == wpc["out"] # "idle" ~> wpc["out"] = "idle" \/ ~Running
=============================================================================
