---------------------------- MODULE IuctlProofs ----------------------------
(***************************************************************************)
(* For any servers, clients, inodes, capacity of the queue and faults: the *)
(* address the server stores for a node is the one sent with that node,    *)
(* and what a client receives is what it waits for.  When nobody is killed *)
(* a command leaves nothing in the queue.                                  *)
(***************************************************************************)
EXTENDS Iuctl, SequenceTheorems, WellFoundedInduction, TLAPS

-----------------------------------------------------------------------------
(***************************************************************************)
(* The inductive invariant                                                 *)
(***************************************************************************)
ServerPC == {"off", "write", "msgget", "loop", "status", "net", "string", "addr",
             "shutdown", "unlink", "ended", "dead"}
ClientPC == {"join", "kill", "msgget", "ask", "status", "length", "string", "address",
             "done", "failed", "undefined", "dead"}
Kind == Commands \cup {"address", "length", "string"}
Msg == [to : Process, from : Process, kind : Kind]
Queue == [inode : Inode, live : BOOLEAN, msgs : Seq(Msg)]
File == [inode : Inode, pid : Server \cup {NULL}]
Busy(s) == pc[s] \in {"status", "net", "string", "addr"}

\* Where the processes are, beside TypeOK.
Places ==
    /\ DOMAIN pc = Process /\ DOMAIN msg_q = Process
    /\ \A s \in Server : pc[s] \in ServerPC
    /\ \A c \in Client : pc[c] \in ClientPC
    /\ client \in [Server -> Client \cup {NULL}]
    /\ \A c \in Client : pc[c] \in {"kill", "msgget", "ask"} => server_pid[c] \in Server

\* One server at a time, which has its file until it unlinks it.
OneServer ==
    /\ \A s, t \in Server : pc[s] \notin Over /\ pc[t] \notin Over => s = t
    /\ \A s \in Server : pc[s] \in {"write", "msgget"} => file \in File

\* A message to a server is the command of a client; one to a client is what its
\* command makes the server send, or the address, which it sends itself.
Allowed(m) ==
    \/ m.to \in Server /\ m.from \in Client /\ m.kind = command[m.from]
    \/ /\ m.to \in Client
       /\ \/ m.kind = "status" /\ command[m.to] = "status"
          \/ m.kind = "address" /\ command[m.to] = "addr" /\ m.from = m.to
          \/ m.kind \in {"length", "string"} /\ command[m.to] = "net"
Addressing ==
    \A q \in DOMAIN queues : \A i \in DOMAIN queues[q].msgs : Allowed(queues[q].msgs[i])

\* Both sides are at the command the client was started with.
Commanded ==
    /\ \A s \in Server : Busy(s) =>
          /\ client[s] \in Client
          /\ command[client[s]] = IF pc[s] = "string" THEN "net" ELSE pc[s]
    /\ \A c \in Client :
          /\ pc[c] = "status" => command[c] = "status"
          /\ pc[c] \in {"length", "string"} => command[c] = "net"
          /\ pc[c] = "address" => command[c] = "addr"

\* A client that has not asked has no part in anything yet.
Early(c) == pc[c] \in {"join", "kill", "msgget", "ask"}
Untouched ==
    \A c \in Client : Early(c) =>
        /\ \A s \in Server : Busy(s) => client[s] # c
        /\ \A q \in DOMAIN queues : \A i \in DOMAIN queues[q].msgs :
              queues[q].msgs[i].from # c /\ queues[q].msgs[i].to # c

\* The request of a client, or the length it is answered with.
Pending(c, m) == (m.to \in Server /\ m.from = c) \/ (m.to = c /\ m.kind = "length")
AtNet(s, c) == pc[s] = "net" /\ client[s] = c

\* There is one of these, or a server that is to send the length; and none once the
\* client has its length.
OnePending(c) ==
    \A q, r \in DOMAIN queues :
        \A i \in DOMAIN queues[q].msgs, j \in DOMAIN queues[r].msgs :
            Pending(c, queues[q].msgs[i]) /\ Pending(c, queues[r].msgs[j]) => q = r /\ i = j
NonePending(c) ==
    \A q \in DOMAIN queues : \A i \in DOMAIN queues[q].msgs : ~Pending(c, queues[q].msgs[i])
Once ==
    \A c \in Client :
        /\ OnePending(c)
        /\ (pc[c] = "string" \/ \E s \in Server : AtNet(s, c)) => NonePending(c)
        /\ pc[c] = "string" => \A s \in Server : ~AtNet(s, c)

\* While a client waits for the length, no string is without a length before it.
Sized(c, q, n) ==
    \E i \in DOMAIN queues[q].msgs :
        i < n /\ queues[q].msgs[i].to = c /\ queues[q].msgs[i].kind = "length"
StringsSized(c) ==
    \A q \in DOMAIN queues : \A j \in DOMAIN queues[q].msgs :
        queues[q].msgs[j].to = c /\ queues[q].msgs[j].kind = "string" => Sized(c, q, j)
Ordered ==
    \A c \in Client : pc[c] = "length" =>
        /\ StringsSized(c)
        /\ \A s \in Server : pc[s] = "string" /\ client[s] = c =>
              Sized(c, msg_q[s], Len(queues[msg_q[s]].msgs) + 1)

IInv ==
    /\ TypeOK /\ Places /\ OneServer /\ Addressing /\ Commanded /\ Untouched /\ Once /\ Ordered
    /\ Paired /\ RightReply
-----------------------------------------------------------------------------
(***************************************************************************)
(* Sequences                                                               *)
(***************************************************************************)
\* A set of numbers that is not empty has a least one.
LEMMA Least ==
    ASSUME NEW S \in SUBSET Nat, S # {}
    PROVE  \E x \in S : \A y \in S : x <= y
<1>1. PICK x \in S : \A y \in S : ~ (<<y, x>> \in OpToRel(<, Nat))
  BY WFMin, NatLessThanWellFounded
<1>2. \A y \in S : y \in Nat /\ x \in Nat
  OBVIOUS
<1>3. \A y \in S : ~ (y < x)
  BY <1>1, <1>2, Zenon DEF OpToRel
<1>4. \A y \in S : x <= y
  BY <1>2, <1>3
<1> QED
  BY <1>4

LEMMA Seqs ==
    ASSUME NEW S, NEW s \in Seq(S)
    PROVE  Len(s) \in Nat /\ DOMAIN s = 1 .. Len(s) /\ \A i \in 1 .. Len(s) : s[i] \in S
  OBVIOUS

LEMMA AppendOf ==
    ASSUME NEW S, NEW s \in Seq(S), NEW e \in S
    PROVE  /\ Append(s, e) \in Seq(S) /\ Len(Append(s, e)) = Len(s) + 1
           /\ DOMAIN Append(s, e) = 1 .. Len(s) + 1
           /\ \A i \in 1 .. Len(s) : Append(s, e)[i] = s[i]
           /\ Append(s, e)[Len(s) + 1] = e
  OBVIOUS

\* The elements behind the one that is removed move by one place.
LEMMA RemoveAtOf ==
    ASSUME NEW S, NEW s \in Seq(S), NEW i \in 1 .. Len(s)
    PROVE  /\ RemoveAt(s, i) \in Seq(S) /\ Len(RemoveAt(s, i)) = Len(s) - 1
           /\ DOMAIN RemoveAt(s, i) = 1 .. Len(s) - 1
           /\ \A j \in 1 .. Len(s) - 1 :
                 RemoveAt(s, i)[j] = IF j < i THEN s[j] ELSE s[j + 1]
<1> DEFINE a == SubSeq(s, 1, i - 1)
           b == SubSeq(s, i + 1, Len(s))
<1>0. Len(s) \in Nat /\ \A j \in 1 .. Len(s) : s[j] \in S
  OBVIOUS
<1>1. /\ a \in Seq(S) /\ Len(a) = i - 1
      /\ \A j \in 1 .. i - 1 : a[j] = s[j]
  <2>1. \A j \in 1 .. i - 1 : s[j] \in S
    BY <1>0
  <2>2. /\ a \in Seq(S) /\ Len(a) = IF 1 <= i - 1 THEN i - 1 - 1 + 1 ELSE 0
        /\ \A j \in 1 .. i - 1 - 1 + 1 : a[j] = s[1 + j - 1]
    BY <2>1, SubSeqProperties
  <2> HIDE DEF a
  <2> QED
    BY <2>2
<1>2. /\ b \in Seq(S) /\ Len(b) = Len(s) - i
      /\ \A j \in 1 .. Len(s) - i : b[j] = s[i + j]
  <2>1. \A j \in i + 1 .. Len(s) : s[j] \in S
    BY <1>0
  <2>2. /\ b \in Seq(S)
        /\ Len(b) = IF i + 1 <= Len(s) THEN Len(s) - (i + 1) + 1 ELSE 0
        /\ \A j \in 1 .. Len(s) - (i + 1) + 1 : b[j] = s[i + 1 + j - 1]
    BY <1>0, <2>1, SubSeqProperties
  <2> HIDE DEF b
  <2> QED
    BY <1>0, <2>2
<1>3. RemoveAt(s, i) = a \o b
  BY DEF RemoveAt
<1> HIDE DEF a, b
<1>4. /\ a \o b \in Seq(S) /\ Len(a \o b) = Len(a) + Len(b)
      /\ \A j \in 1 .. Len(a) + Len(b) :
            (a \o b)[j] = IF j <= Len(a) THEN a[j] ELSE b[j - Len(a)]
  BY <1>1, <1>2, ConcatProperties
<1>5. Len(a) + Len(b) = Len(s) - 1
  BY <1>0, <1>1, <1>2
<1>6. ASSUME NEW j \in 1 .. Len(s) - 1
      PROVE  (a \o b)[j] = IF j < i THEN s[j] ELSE s[j + 1]
  <2>1. CASE j < i
    BY <2>1, <1>0, <1>1, <1>4, <1>5
  <2>2. CASE j >= i
    <3>1. j - (i - 1) \in 1 .. Len(s) - i /\ i + (j - (i - 1)) = j + 1
      BY <2>2, <1>0
    <3>2. (a \o b)[j] = b[j - (i - 1)]
      BY <2>2, <1>0, <1>1, <1>4, <1>5
    <3>3. ~(j < i)
      BY <2>2
    <3> QED
      BY <3>1, <3>2, <3>3, <1>2
  <2>3. j < i \/ j >= i
    OBVIOUS
  <2> QED
    BY <2>1, <2>2, <2>3, Zenon
<1>7. DOMAIN (a \o b) = 1 .. Len(s) - 1
  BY <1>4, <1>5
<1> QED
  BY <1>3, <1>4, <1>5, <1>6, <1>7, Zenon
-----------------------------------------------------------------------------
(***************************************************************************)
(* What each system call does to the queues                                *)
(***************************************************************************)
QueuesType ==
    /\ queues \in Seq(Queue)
    /\ \A q \in DOMAIN queues : Len(queues[q].msgs) <= MaxMsgs
    /\ \A p \in Process : msg_q[p] \in 0 .. Len(queues)

\* TypeOK speaks of the same records.
LEMMA TypeQueues == TypeOK => QueuesType
  BY DEF TypeOK, QueuesType, Queue, Msg, Kind

LEMMA QueueType ==
    ASSUME QueuesType, NEW q \in DOMAIN queues
    PROVE  /\ queues[q] \in Queue /\ queues[q].msgs \in Seq(Msg)
           /\ Len(queues[q].msgs) \in Nat
           /\ DOMAIN queues[q].msgs = 1 .. Len(queues[q].msgs)
           /\ \A i \in 1 .. Len(queues[q].msgs) : queues[q].msgs[i] \in Msg
<1>1. queues[q] \in Queue
  BY DEF QueuesType
<1> QED
  BY <1>1, Seqs DEF Queue

\* Nothing is lost and nothing moves; m may be new, at the end of p's queue.
Added(p, m) ==
    /\ QueuesType' /\ Len(queues') = Len(queues) /\ DOMAIN queues' = DOMAIN queues
    /\ \A q \in DOMAIN queues :
          /\ queues'[q].live = queues[q].live /\ queues'[q].inode = queues[q].inode
          /\ \A i \in DOMAIN queues[q].msgs :
                i \in DOMAIN queues'[q].msgs /\ queues'[q].msgs[i] = queues[q].msgs[i]
          /\ \A i \in DOMAIN queues'[q].msgs \ DOMAIN queues[q].msgs :
                queues'[q].msgs[i] = m /\ q = msg_q[p] /\ i = Len(queues[q].msgs) + 1

LEMMA SendsAdds ==
    ASSUME QueuesType, MaxMsgs \in Nat, NEW p \in Process, NEW m \in Msg, Sends(p, m),
           UNCHANGED msg_q
    PROVE  /\ Added(p, m)
           /\ Live(msg_q[p]) => \E i \in DOMAIN queues'[msg_q[p]].msgs :
                 i = Len(queues[msg_q[p]].msgs) + 1 /\ queues'[msg_q[p]].msgs[i] = m
<1> DEFINE q0 == msg_q[p]
<1>0. q0 \in 0 .. Len(queues) /\ DOMAIN queues = 1 .. Len(queues) /\ Len(queues) \in Nat
  BY Seqs DEF QueuesType
<1>1. CASE ~Live(q0)
  <2>1. UNCHANGED queues
    BY <1>1 DEF Sends
  <2> QED
    BY <1>1, <2>1, QueueType DEF Added, QueuesType
<1>2. CASE Live(q0)
  <2> DEFINE new == Append(queues[q0].msgs, m)
             k == [queues[q0] EXCEPT !.msgs = new]
  <2>1. /\ Len(queues[q0].msgs) < MaxMsgs
        /\ queues' = [queues EXCEPT ![q0] = k]
    BY <1>2 DEF Sends
  <2>2. q0 \in DOMAIN queues
    BY <1>0, <1>2 DEF Live
  <2>3. /\ new \in Seq(Msg) /\ Len(new) = Len(queues[q0].msgs) + 1
        /\ DOMAIN new = 1 .. Len(queues[q0].msgs) + 1
        /\ \A i \in 1 .. Len(queues[q0].msgs) : new[i] = queues[q0].msgs[i]
        /\ new[Len(queues[q0].msgs) + 1] = m
    BY <2>2, QueueType, AppendOf
  <2> HIDE DEF new
  <2>4. k \in Queue /\ k.msgs = new /\ k.live = queues[q0].live /\ k.inode = queues[q0].inode
    BY <2>2, <2>3, QueueType DEF Queue
  <2> HIDE DEF k
  <2>5. /\ queues' \in Seq(Queue) /\ Len(queues') = Len(queues)
        /\ DOMAIN queues' = DOMAIN queues /\ queues'[q0] = k
        /\ \A q \in DOMAIN queues : q # q0 => queues'[q] = queues[q]
    BY <2>1, <2>2, <2>4 DEF QueuesType
  <2>6. QueuesType'
    BY <1>0, <2>1, <2>2, <2>3, <2>4, <2>5, QueueType DEF QueuesType
  <2>7. ASSUME NEW q \in DOMAIN queues
        PROVE  /\ queues'[q].live = queues[q].live /\ queues'[q].inode = queues[q].inode
               /\ \A i \in DOMAIN queues[q].msgs :
                     i \in DOMAIN queues'[q].msgs /\ queues'[q].msgs[i] = queues[q].msgs[i]
               /\ \A i \in DOMAIN queues'[q].msgs \ DOMAIN queues[q].msgs :
                     queues'[q].msgs[i] = m /\ q = q0 /\ i = Len(queues[q].msgs) + 1
    <3>1. CASE q # q0
      BY <2>5, <3>1
    <3>2. CASE q = q0
      <4>1. /\ queues'[q].msgs = new /\ queues'[q].live = queues[q].live
            /\ queues'[q].inode = queues[q].inode
        BY <2>4, <2>5, <3>2
      <4>2. /\ DOMAIN queues[q].msgs = 1 .. Len(queues[q].msgs)
            /\ Len(queues[q].msgs) \in Nat
        BY QueueType
      <4> QED
        BY <2>3, <3>2, <4>1, <4>2
    <3> QED
      BY <3>1, <3>2
  <2> QED
    BY <2>2, <2>3, <2>4, <2>5, <2>6, <2>7, QueueType DEF Added
<1> QED
  BY <1>1, <1>2

\* Where a message was that is now at i of q, when the one at i0 of q0 is taken.
Place(q, i, q0, i0) == IF q = q0 /\ i >= i0 THEN i + 1 ELSE i

\* m, the first for type in p's queue, is taken, and those behind it move up.
Taken(p, type) ==
    \E i0 \in DOMAIN queues[msg_q[p]].msgs :
        /\ queues[msg_q[p]].msgs[i0] = Received(p, type) /\ Received(p, type).to = type
        /\ msg_q[p] \in DOMAIN queues
        /\ \A i \in DOMAIN queues[msg_q[p]].msgs :
              i < i0 => queues[msg_q[p]].msgs[i].to # type
        /\ QueuesType' /\ Len(queues') = Len(queues) /\ DOMAIN queues' = DOMAIN queues
        /\ \A q \in DOMAIN queues :
              /\ queues'[q].live = queues[q].live /\ queues'[q].inode = queues[q].inode
              /\ \A i \in DOMAIN queues'[q].msgs :
                    /\ i \in Nat /\ Place(q, i, msg_q[p], i0) \in DOMAIN queues[q].msgs
                    /\ queues'[q].msgs[i] = queues[q].msgs[Place(q, i, msg_q[p], i0)]
              /\ \A k \in DOMAIN queues[q].msgs : ~(q = msg_q[p] /\ k = i0) =>
                    \E i \in DOMAIN queues'[q].msgs : k = Place(q, i, msg_q[p], i0)

LEMMA ReceivesTakes ==
    ASSUME QueuesType, MaxMsgs \in Nat, NEW p \in Process, NEW type, Receives(p, type),
           UNCHANGED msg_q
    PROVE  Taken(p, type)
<1> DEFINE q0 == msg_q[p]
           i0 == FirstFor(type, q0)
<1>0. /\ q0 \in 0 .. Len(queues) /\ DOMAIN queues = 1 .. Len(queues) /\ Len(queues) \in Nat
      /\ Live(q0) /\ For(type, q0) # {}
  BY Seqs DEF QueuesType, Receives, Waiting
<1>1. q0 \in DOMAIN queues
  BY <1>0 DEF Live
<1>2. i0 \in For(type, q0) /\ \A j \in For(type, q0) : i0 <= j
  <2>1. For(type, q0) \in SUBSET Nat
    BY <1>1, QueueType DEF For
  <2>2. \E i \in For(type, q0) : \A j \in For(type, q0) : i <= j
    BY <1>0, <2>1, Least
  <2> QED
    BY <2>2 DEF FirstFor
<1>3. /\ i0 \in DOMAIN queues[q0].msgs /\ queues[q0].msgs[i0].to = type
      /\ queues[q0].msgs[i0] = Received(p, type)
      /\ \A i \in DOMAIN queues[q0].msgs : i < i0 => queues[q0].msgs[i].to # type
  <2>1. i0 \in Nat /\ \A i \in DOMAIN queues[q0].msgs : i \in Nat
    BY <1>1, <1>2, QueueType DEF For
  <2> QED
    BY <1>2, <2>1 DEF For, Received
<1> DEFINE new == RemoveAt(queues[q0].msgs, i0)
           k == [queues[q0] EXCEPT !.msgs = new]
<1>4. queues' = [queues EXCEPT ![q0] = k]
  BY DEF Receives
<1> HIDE DEF i0
<1>5. /\ new \in Seq(Msg) /\ Len(new) = Len(queues[q0].msgs) - 1
      /\ DOMAIN new = 1 .. Len(queues[q0].msgs) - 1
      /\ \A j \in 1 .. Len(queues[q0].msgs) - 1 :
            new[j] = IF j < i0 THEN queues[q0].msgs[j] ELSE queues[q0].msgs[j + 1]
  BY <1>1, <1>3, QueueType, RemoveAtOf
<1> HIDE DEF new
<1>6. k \in Queue /\ k.msgs = new /\ k.live = queues[q0].live /\ k.inode = queues[q0].inode
  BY <1>1, <1>5, QueueType DEF Queue
<1> HIDE DEF k
<1>7. /\ queues' \in Seq(Queue) /\ Len(queues') = Len(queues)
      /\ DOMAIN queues' = DOMAIN queues /\ queues'[q0] = k
      /\ \A q \in DOMAIN queues : q # q0 => queues'[q] = queues[q]
  BY <1>1, <1>4, <1>6 DEF QueuesType
<1>8. QueuesType'
  <2>1. ASSUME NEW q \in DOMAIN queues
        PROVE  Len(queues'[q].msgs) <= MaxMsgs
    <3>1. CASE q # q0
      BY <1>7, <3>1 DEF QueuesType
    <3>2. CASE q = q0
      <4>1. queues'[q].msgs = new
        BY <1>6, <1>7, <3>2
      <4>2. Len(queues[q0].msgs) \in Nat /\ Len(queues[q0].msgs) <= MaxMsgs
        BY <1>1, QueueType DEF QueuesType
      <4> QED
        BY <1>5, <4>1, <4>2
    <3> QED
      BY <3>1, <3>2
  <2> QED
    BY <1>7, <2>1 DEF QueuesType
<1>9. ASSUME NEW q \in DOMAIN queues
      PROVE  /\ queues'[q].live = queues[q].live /\ queues'[q].inode = queues[q].inode
             /\ \A i \in DOMAIN queues'[q].msgs :
                   /\ i \in Nat /\ Place(q, i, q0, i0) \in DOMAIN queues[q].msgs
                   /\ queues'[q].msgs[i] = queues[q].msgs[Place(q, i, q0, i0)]
             /\ \A n \in DOMAIN queues[q].msgs : ~(q = q0 /\ n = i0) =>
                   \E i \in DOMAIN queues'[q].msgs : n = Place(q, i, q0, i0)
  <2>1. CASE q # q0
    BY <1>7, <2>1, QueueType DEF Place
  <2>2. CASE q = q0
    <3>1. queues'[q].msgs = new /\ queues'[q].live = queues[q].live
            /\ queues'[q].inode = queues[q].inode
      BY <1>6, <1>7, <2>2
    <3>2. /\ Len(queues[q0].msgs) \in Nat
          /\ DOMAIN queues[q0].msgs = 1 .. Len(queues[q0].msgs)
          /\ i0 \in 1 .. Len(queues[q0].msgs)
      BY <1>1, <1>3, QueueType
    <3>3. ASSUME NEW i \in DOMAIN new
          PROVE  /\ i \in Nat /\ Place(q, i, q0, i0) \in DOMAIN queues[q].msgs
                 /\ new[i] = queues[q].msgs[Place(q, i, q0, i0)]
      BY <1>5, <2>2, <3>2 DEF Place
    <3>4. ASSUME NEW n \in DOMAIN queues[q].msgs, n # i0
          PROVE  \E i \in DOMAIN new : n = Place(q, i, q0, i0)
      <4>1. CASE n < i0
        BY <1>5, <2>2, <3>2, <4>1 DEF Place
      <4>2. CASE n > i0
        <5>1. n - 1 \in DOMAIN new /\ n = Place(q, n - 1, q0, i0)
          BY <1>5, <2>2, <3>2, <4>2 DEF Place
        <5> QED
          BY <5>1
      <4> QED
        BY <2>2, <3>2, <3>4, <4>1, <4>2
    <3> QED
      BY <2>2, <3>1, <3>3, <3>4
  <2> QED
    BY <2>1, <2>2
<1> QED
  BY <1>1, <1>3, <1>7, <1>8, <1>9 DEF Taken
-----------------------------------------------------------------------------
(***************************************************************************)
(* What a step that moves one process leaves of the invariant              *)
(***************************************************************************)
Serving == {"loop", "status", "net", "string", "addr", "shutdown"}

LEMMA Moved ==
    ASSUME Places, NEW p \in Process, NEW l, Goto(p, l)
    PROVE  /\ DOMAIN pc' = Process /\ pc'[p] = l
           /\ \A o \in Process : o # p => pc'[o] = pc[o]
  BY DEF Places, Goto

\* TypeOK is QueuesType and the rest.
LEMMA TypeAgain ==
    ASSUME QueuesType', Commanded', file' \in {NULL} \cup File,
           \A s \in Server : pc'[s] \in Serving => Live(msg_q[s])',
           server_pid' \in [Client -> Server \cup {NULL}], command' \in [Client -> Commands]
    PROVE  TypeOK'
  BY DEF TypeOK, QueuesType, Queue, Msg, Kind, File, Serving, Commanded, Busy

\* What a step of a server leaves of Places and OneServer.
LEMMA ServerMoves ==
    ASSUME IInv, IuctlAssumption, NEW s \in Server, NEW l \in ServerPC, Goto(s, l),
           \A o \in Server \ {s} : pc[o] \in Over,
           l \in {"write", "msgget"} => file' \in File,
           client' \in [Server -> Client \cup {NULL}], UNCHANGED server_pid,
           DOMAIN msg_q' = Process
    PROVE  Places' /\ OneServer'
<1>1. s \in Process /\ \A o \in Process \ {s} : pc'[o] = pc[o]
  BY Moved DEF IInv, Process
<1>2. DOMAIN pc' = Process /\ pc'[s] = l
  BY Moved DEF IInv, Process
<1>3. Server \cap Client = {} /\ Server \cup Client = Process
  BY DEF IuctlAssumption, Process
<1>4. Places'
  BY <1>1, <1>2, <1>3 DEF IInv, Places
<1>5. OneServer'
  <2>1. \A o \in Server : o # s => pc'[o] \in Over
    BY <1>1, <1>3
  <2>2. \A o \in Server : pc'[o] \in {"write", "msgget"} => o = s
    BY <2>1 DEF Over
  <2> QED
    BY <1>2, <2>1, <2>2 DEF OneServer
<1> QED
  BY <1>4, <1>5

LEMMA OthersOver ==
    ASSUME IInv, NEW s \in Server, pc[s] \notin Over
    PROVE  \A o \in Server \ {s} : pc[o] \in Over
  BY DEF IInv, OneServer

\* The same for a client.
LEMMA ClientMoves ==
    ASSUME IInv, IuctlAssumption, NEW c \in Client, NEW l \in ClientPC, Goto(c, l),
           UNCHANGED <<file, client>>, DOMAIN msg_q' = Process,
           \A o \in Client \ {c} : server_pid'[o] = server_pid[o],
           l \in {"kill", "msgget", "ask"} => server_pid'[c] \in Server
    PROVE  Places' /\ OneServer'
<1>1. c \in Process /\ \A o \in Process \ {c} : pc'[o] = pc[o]
  BY Moved DEF IInv, Process
<1>2. DOMAIN pc' = Process /\ pc'[c] = l
  BY Moved DEF IInv, Process
<1>3. Server \cap Client = {} /\ Server \cup Client = Process
  BY DEF IuctlAssumption, Process
<1>4. Places'
  BY <1>1, <1>2, <1>3 DEF IInv, Places
<1>5. \A s \in Server : pc'[s] = pc[s]
  BY <1>1, <1>3
<1>6. OneServer'
  BY <1>5 DEF IInv, OneServer
<1> QED
  BY <1>4, <1>6

\* A process goes on without a message; queues may have been made or emptied, but
\* not that of a server which is sending.
LEMMA Quiet ==
    ASSUME IInv, IuctlAssumption, NEW p \in Process, NEW l, Goto(p, l),
           UNCHANGED <<client, command>>,
           l \notin {"status", "net", "string", "addr", "length", "address"},
           p \in Client /\ l \in {"join", "kill", "msgget", "ask"} => Early(p),
           \A q \in DOMAIN queues' :
              \/ queues'[q].msgs = << >>
              \/ q \in DOMAIN queues /\ queues'[q].msgs = queues[q].msgs,
           \A s \in Server \ {p} : pc[s] = "string" =>
              msg_q'[s] = msg_q[s] /\ queues'[msg_q[s]].msgs = queues[msg_q[s]].msgs
    PROVE  Addressing' /\ Commanded' /\ Untouched' /\ Once' /\ Ordered'
<1>1. DOMAIN pc' = Process /\ pc'[p] = l /\ \A o \in Process : o # p => pc'[o] = pc[o]
  BY Moved DEF IInv
<1>2. Server \cap Client = {} /\ Server \subseteq Process /\ Client \subseteq Process
  BY DEF IuctlAssumption, Process
<1>3. \A o \in Process :
         pc'[o] \in {"status", "net", "string", "addr", "length", "address"} =>
            o # p /\ pc'[o] = pc[o]
  BY <1>1
<1>4. \A s \in Server : Busy(s)' => Busy(s) /\ s # p /\ pc'[s] = pc[s]
  BY <1>2, <1>3 DEF Busy
<1>5. \A c \in Client : Early(c)' => Early(c)
  BY <1>1, <1>2 DEF Early
<1>6. \A q \in DOMAIN queues' : \A i \in DOMAIN queues'[q].msgs :
         q \in DOMAIN queues /\ queues'[q].msgs = queues[q].msgs
  OBVIOUS
<1>7. Addressing'
  BY <1>6 DEF IInv, Addressing, Allowed
<1>8. Commanded'
  BY <1>2, <1>3, <1>4 DEF IInv, Commanded
<1>9. Untouched'
  BY <1>4, <1>5, <1>6 DEF IInv, Untouched
<1>10. Once'
  <2>1. \A s \in Server, c \in Client : AtNet(s, c)' => AtNet(s, c)
    BY <1>2, <1>3 DEF AtNet
  <2>2. \A c \in Client : pc'[c] = "string" => pc[c] = "string"
    BY <1>2, <1>3
  <2> QED
    BY <1>6, <2>1, <2>2 DEF IInv, Once, OnePending, NonePending
<1>11. Ordered'
  <2>1. \A c \in Client : pc'[c] = "length" => pc[c] = "length"
    BY <1>2, <1>3
  <2>2. \A s \in Server : pc'[s] = "string" =>
           /\ pc[s] = "string" /\ msg_q'[s] = msg_q[s]
           /\ queues'[msg_q[s]].msgs = queues[msg_q[s]].msgs
    BY <1>2, <1>3
  <2> QED
    BY <1>6, <2>1, <2>2 DEF IInv, Ordered, StringsSized, Sized
<1> QED
  BY <1>7, <1>8, <1>9, <1>10, <1>11
-----------------------------------------------------------------------------
(***************************************************************************)
(* The steps without a message                                             *)
(***************************************************************************)
LEMMA Same == ASSUME QueuesType, UNCHANGED <<queues, msg_q>> PROVE QueuesType'
  BY DEF QueuesType

LEMMA Parts ==
    IInv => /\ TypeOK /\ Places /\ OneServer /\ Addressing /\ Commanded /\ Untouched /\ Once
            /\ Ordered /\ Paired /\ RightReply /\ QueuesType
  BY TypeQueues DEF IInv

LEMMA Apart ==
    ASSUME IuctlAssumption
    PROVE  /\ MaxMsgs \in Nat \ {0} /\ Server \cap Client = {}
           /\ Server \subseteq Process /\ Client \subseteq Process
           /\ Process = Server \cup Client
  BY DEF IuctlAssumption, Process

LEMMA QuietServer ==
    ASSUME IInv, IuctlAssumption, NEW s \in Server, NEW l \in ServerPC, Goto(s, l),
           l \notin {"status", "net", "string", "addr"},
           \A o \in Server \ {s} : pc[o] \in Over,
           UNCHANGED <<client, clientVars, history>>,
           file' \in {NULL} \cup File, l \in {"write", "msgget"} => file' \in File,
           QueuesType', DOMAIN msg_q' = Process, l \in Serving => Live(msg_q[s])',
           \A q \in DOMAIN queues' :
              \/ queues'[q].msgs = << >>
              \/ q \in DOMAIN queues /\ queues'[q].msgs = queues[q].msgs
    PROVE  IInv'
<1>1. UNCHANGED <<client, server_pid, command, read, learned>>
  BY DEF clientVars, history
<1>2. s \in Process /\ s \notin Client /\ client \in [Server -> Client \cup {NULL}]
  BY Parts, Apart DEF Places
<1>3. DOMAIN pc' = Process /\ pc'[s] = l /\ \A o \in Process : o # s => pc'[o] = pc[o]
  BY <1>2, Moved, Parts
<1>4. \A o \in Server : o # s => pc'[o] \in Over
  BY <1>3, Apart
<1>5. Places' /\ OneServer'
  BY <1>1, <1>2, ServerMoves
<1>6. \A o \in Server \ {s} : pc[o] # "string"
  BY DEF Over
<1>7. l \notin {"status", "net", "string", "addr", "length", "address"}
  BY DEF ServerPC
<1>8. Addressing' /\ Commanded' /\ Untouched' /\ Once' /\ Ordered'
  BY <1>1, <1>2, <1>6, <1>7, Quiet
<1>9. TypeOK'
  <2>1. \A o \in Server : pc'[o] \in Serving => Live(msg_q[o])'
    BY <1>3, <1>4 DEF Serving, Over
  <2> QED
    BY <1>1, <1>8, <2>1, TypeAgain, Parts DEF TypeOK
<1>10. Paired' /\ RightReply'
  BY <1>1, Parts DEF Paired, RightReply
<1> QED
  BY <1>5, <1>8, <1>9, <1>10 DEF IInv

LEMMA QuietClient ==
    ASSUME IInv, IuctlAssumption, NEW c \in Client, NEW l \in ClientPC, Goto(c, l),
           l \notin {"status", "length", "string", "address"},
           UNCHANGED <<file, queues, client, command, learned>>,
           DOMAIN msg_q' = Process, \A o \in Process \ {c} : msg_q'[o] = msg_q[o],
           msg_q'[c] \in 0 .. Len(queues),
           server_pid' \in [Client -> Server \cup {NULL}],
           \A o \in Client \ {c} : server_pid'[o] = server_pid[o],
           l \in {"join", "kill", "msgget", "ask"} => Early(c) /\ server_pid'[c] \in Server,
           RightReply'
    PROVE  IInv'
<1>1. c \in Process /\ c \notin Server
  BY Apart
<1>2. DOMAIN pc' = Process /\ pc'[c] = l /\ \A o \in Process : o # c => pc'[o] = pc[o]
  BY <1>1, Moved, Parts
<1>3. Places' /\ OneServer'
  BY ClientMoves
<1>4. l \notin {"status", "net", "string", "addr", "length", "address"}
  BY DEF ClientPC
<1>5. Addressing' /\ Commanded' /\ Untouched' /\ Once' /\ Ordered'
  <2>1. \A s \in Server \ {c} : msg_q'[s] = msg_q[s]
    BY Apart
  <2> QED
    BY <1>1, <1>4, <2>1, Quiet
<1>6. QueuesType'
  BY Parts DEF QueuesType
<1>7. TypeOK'
  <2>1. \A o \in Server : pc'[o] = pc[o] /\ msg_q'[o] = msg_q[o]
    BY <1>1, <1>2, Apart
  <2>2. \A o \in Server : pc'[o] \in Serving => Live(msg_q[o])'
    BY <2>1, Parts DEF TypeOK, Live, Serving
  <2>3. file' \in {NULL} \cup File /\ command' \in [Client -> Commands]
    BY Parts DEF TypeOK, File
  <2> QED
    BY <1>5, <1>6, <2>2, <2>3, TypeAgain
<1>8. Paired'
  BY Parts DEF Paired
<1> QED
  BY <1>3, <1>5, <1>7, <1>8 DEF IInv

LEMMA StartKeeps ==
    ASSUME IInv, IuctlAssumption, NEW s \in Server, ServerStart(s)
    PROVE  IInv'
<1>1. /\ \A other \in Server \ {s} : pc[other] \in Over
      /\ Goto(s, "write") /\ UNCHANGED <<queues, msg_q, client, clientVars, history>>
  BY DEF ServerStart, InServer, history
<1>2. file' \in File
  BY Parts DEF ServerStart, TypeOK, File
<1>3. QueuesType' /\ DOMAIN msg_q' = Process
  BY <1>1, Same, Parts DEF Places
<1> QED
  BY <1>1, <1>2, <1>3, QuietServer DEF ServerPC, Serving

LEMMA WriteKeeps ==
    ASSUME IInv, IuctlAssumption, NEW s \in Server, ServerWrite(s)
    PROVE  IInv'
<1>1. /\ pc[s] = "write" /\ Goto(s, "msgget") /\ file' = [file EXCEPT !.pid = s]
      /\ UNCHANGED <<queues, msg_q, client, clientVars, history>>
  BY DEF ServerWrite, InServer, history
<1>2. file' \in File
  BY <1>1, Parts DEF OneServer, File
<1>3. QueuesType' /\ DOMAIN msg_q' = Process
  BY <1>1, Same, Parts DEF Places
<1>4. \A o \in Server \ {s} : pc[o] \in Over
  BY <1>1, OthersOver DEF Over
<1> QED
  BY <1>1, <1>2, <1>3, <1>4, QuietServer DEF ServerPC, Serving

LEMMA MsggetKeeps ==
    ASSUME IInv, IuctlAssumption, NEW s \in Server, ServerMsgget(s)
    PROVE  IInv'
<1>1. pc[s] = "msgget" /\ Goto(s, "loop") /\ UNCHANGED <<file, client, clientVars, history>>
  BY DEF ServerMsgget, InServer, history
<1>2. s \in Process /\ DOMAIN msg_q = Process /\ file \in File /\ QueuesType
  BY <1>1, Parts, Apart DEF OneServer, Places
<1>3. DOMAIN queues = 1 .. Len(queues) /\ Len(queues) \in Nat
  BY <1>2, Seqs DEF QueuesType
<1>4. /\ QueuesType' /\ DOMAIN msg_q' = Process /\ Live(msg_q[s])'
      /\ \A q \in DOMAIN queues' :
            \/ queues'[q].msgs = << >>
            \/ q \in DOMAIN queues /\ queues'[q].msgs = queues[q].msgs
  <2>1. CASE Found # {}
    <3>1. PICK q \in Found : msg_q' = [msg_q EXCEPT ![s] = q] /\ UNCHANGED queues
      BY <2>1 DEF ServerMsgget
    <3>2. q \in DOMAIN queues /\ q # 0 /\ queues[q].live
      BY <1>3 DEF Found
    <3> QED
      BY <1>2, <1>3, <3>1, <3>2 DEF QueuesType, Live
  <2>2. CASE Found = {}
    <3> DEFINE new == [inode |-> file.inode, msgs |-> << >>, live |-> TRUE]
    <3>1. /\ queues' = Append(queues, new)
          /\ msg_q' = [msg_q EXCEPT ![s] = Len(queues) + 1]
      BY <2>2 DEF ServerMsgget
    <3>2. new \in Queue /\ new.msgs = << >> /\ new.live /\ Len(new.msgs) = 0
      BY <1>2 DEF Queue, File
    <3> HIDE DEF new
    <3>3. /\ queues' \in Seq(Queue) /\ Len(queues') = Len(queues) + 1
          /\ DOMAIN queues' = 1 .. Len(queues) + 1
          /\ \A q \in 1 .. Len(queues) : queues'[q] = queues[q]
          /\ queues'[Len(queues) + 1] = new
      BY <1>2, <3>1, <3>2, AppendOf DEF QueuesType
    <3>4. \A q \in DOMAIN queues' :
             q = Len(queues) + 1 \/ (q \in DOMAIN queues /\ queues'[q] = queues[q])
      BY <1>3, <3>3
    <3>5. msg_q'[s] = Len(queues) + 1 /\ \A o \in Process \ {s} : msg_q'[o] = msg_q[o]
      BY <1>2, <3>1
    <3>6. QueuesType'
      <4>1. \A q \in DOMAIN queues' : Len(queues'[q].msgs) <= MaxMsgs
        BY <1>2, <3>2, <3>3, <3>4, Apart DEF QueuesType
      <4>2. \A o \in Process : msg_q'[o] \in 0 .. Len(queues')
        BY <1>2, <1>3, <3>3, <3>5 DEF QueuesType
      <4> QED
        BY <3>3, <4>1, <4>2 DEF QueuesType
    <3> QED
      BY <1>2, <1>3, <3>1, <3>2, <3>3, <3>4, <3>5, <3>6 DEF Live
  <2> QED
    BY <2>1, <2>2
<1>5. \A o \in Server \ {s} : pc[o] \in Over
  BY <1>1, OthersOver DEF Over
<1> QED
  BY <1>1, <1>2, <1>4, <1>5, QuietServer DEF ServerPC

LEMMA DestroyKeeps ==
    ASSUME IInv, IuctlAssumption, NEW s \in Server, ServerDestroy(s)
    PROVE  IInv'
<1> DEFINE q0 == msg_q[s]
           k == [queues[q0] EXCEPT !.live = FALSE, !.msgs = << >>]
<1>1. /\ pc[s] = "shutdown" /\ Goto(s, "unlink")
      /\ UNCHANGED <<file, msg_q, client, clientVars, history>>
      /\ queues' = [queues EXCEPT ![q0].live = FALSE, ![q0].msgs = << >>]
  BY DEF ServerDestroy, InServer, history
<1>2. q0 \in DOMAIN queues
  <2>1. q0 # 0 /\ s \in Process
    BY <1>1, Parts, Apart DEF TypeOK, Live
  <2> QED
    BY <2>1, Parts, Seqs DEF QueuesType
<1>3. k \in Queue /\ k.msgs = << >> /\ Len(k.msgs) = 0
  <2>1. queues[q0] \in Queue /\ << >> \in Seq(Msg) /\ Len(<< >>) = 0
    BY <1>2, Parts, QueueType
  <2> QED
    BY <2>1 DEF Queue
<1>4. queues' = [queues EXCEPT ![q0] = k]
  BY <1>1, <1>2, Parts DEF QueuesType
<1> HIDE DEF k
<1>5. /\ queues' \in Seq(Queue) /\ Len(queues') = Len(queues)
      /\ DOMAIN queues' = DOMAIN queues /\ queues'[q0] = k
      /\ \A q \in DOMAIN queues : q # q0 => queues'[q] = queues[q]
  BY <1>2, <1>3, <1>4, Parts DEF QueuesType
<1>6. QueuesType' /\ DOMAIN msg_q' = Process
  BY <1>1, <1>3, <1>5, Parts, Apart DEF QueuesType, Places
<1>7. \A q \in DOMAIN queues' :
         \/ queues'[q].msgs = << >>
         \/ q \in DOMAIN queues /\ queues'[q].msgs = queues[q].msgs
  BY <1>3, <1>5
<1>8. \A o \in Server \ {s} : pc[o] \in Over
  BY <1>1, OthersOver DEF Over
<1>9. file' \in {NULL} \cup File
  BY <1>1, Parts DEF TypeOK, File
<1> QED
  BY <1>1, <1>6, <1>7, <1>8, <1>9, QuietServer DEF ServerPC, Serving

LEMMA UnlinkKeeps ==
    ASSUME IInv, IuctlAssumption, NEW s \in Server, ServerUnlink(s)
    PROVE  IInv'
<1>1. /\ pc[s] = "unlink" /\ Goto(s, "ended") /\ file' = NULL
      /\ UNCHANGED <<queues, msg_q, client, clientVars, history>>
  BY DEF ServerUnlink, InServer, history
<1>2. QueuesType' /\ DOMAIN msg_q' = Process
  BY <1>1, Same, Parts DEF Places
<1>3. \A o \in Server \ {s} : pc[o] \in Over
  BY <1>1, OthersOver DEF Over
<1> QED
  BY <1>1, <1>2, <1>3, QuietServer DEF ServerPC, Serving

LEMMA SignalKeeps ==
    ASSUME IInv, IuctlAssumption, NEW s \in Server, ServerSignal(s)
    PROVE  IInv'
<1>1. /\ pc[s] \in {"loop", "status", "net", "string", "addr"} /\ Goto(s, "shutdown")
      /\ UNCHANGED <<file, queues, msg_q, client, clientVars, history>>
  BY DEF ServerSignal, history
<1>2. QueuesType' /\ DOMAIN msg_q' = Process /\ file' \in {NULL} \cup File
  BY <1>1, Same, Parts DEF Places, TypeOK, File
<1>3. \A o \in Server \ {s} : pc[o] \in Over
  BY <1>1, OthersOver DEF Over
<1>4. Live(msg_q[s])'
  BY <1>1, Parts DEF TypeOK, Live
<1> QED
  BY <1>1, <1>2, <1>3, <1>4, QuietServer DEF ServerPC

LEMMA DieKeeps ==
    ASSUME IInv, IuctlAssumption, NEW p \in Process, Die(p)
    PROVE  IInv'
<1>1. /\ pc[p] \notin Over /\ Goto(p, "dead")
      /\ UNCHANGED <<file, queues, msg_q, client, clientVars, history>>
  BY DEF Die
<1>2. QueuesType' /\ DOMAIN msg_q' = Process /\ file' \in {NULL} \cup File
  BY <1>1, Same, Parts DEF Places, TypeOK, File
<1>3. CASE p \in Server
  <2>1. \A o \in Server \ {p} : pc[o] \in Over
    BY <1>1, <1>3, OthersOver
  <2> QED
    BY <1>1, <1>2, <1>3, <2>1, QuietServer DEF ServerPC, Serving
<1>4. CASE p \in Client
  <2>1. RightReply' /\ UNCHANGED <<command, learned, server_pid>>
    BY <1>1, Parts DEF RightReply, history, clientVars
  <2>2. msg_q'[p] \in 0 .. Len(queues) /\ server_pid' \in [Client -> Server \cup {NULL}]
    BY <1>1, <2>1, Parts DEF QueuesType, TypeOK
  <2> QED
    BY <1>1, <1>2, <1>4, <2>1, <2>2, QuietClient DEF ClientPC
<1> QED
  BY <1>3, <1>4 DEF Process

LEMMA JoinKeeps ==
    ASSUME IInv, IuctlAssumption, NEW c \in Client, ClientJoin(c)
    PROVE  IInv'
<1>1. pc[c] = "join" /\ UNCHANGED <<file, client, command, learned, queues, msg_q, read>>
  BY DEF ClientJoin, InClient
<1>2. /\ DOMAIN msg_q' = Process /\ msg_q'[c] \in 0 .. Len(queues) /\ RightReply'
      /\ server_pid \in [Client -> Server \cup {NULL}] /\ Early(c)
  BY <1>1, Parts, Apart DEF Places, QueuesType, RightReply, TypeOK, Early
<1>3. CASE file = NULL \/ file.pid = NULL
  BY <1>1, <1>2, <1>3, QuietClient DEF ClientJoin, ClientPC
<1>4. CASE ~(file = NULL \/ file.pid = NULL)
  <2>1. Goto(c, "kill") /\ server_pid' = [server_pid EXCEPT ![c] = file.pid]
    BY <1>4 DEF ClientJoin
  <2>2. file.pid \in Server
    BY <1>4, Parts DEF TypeOK
  <2>3. /\ server_pid' \in [Client -> Server \cup {NULL}] /\ server_pid'[c] \in Server
        /\ \A o \in Client \ {c} : server_pid'[o] = server_pid[o]
    BY <1>2, <2>1, <2>2
  <2> QED
    BY <1>1, <1>2, <2>1, <2>3, QuietClient DEF ClientPC
<1> QED
  BY <1>3, <1>4

LEMMA KillKeeps ==
    ASSUME IInv, IuctlAssumption, NEW c \in Client, ClientKill(c)
    PROVE  IInv'
<1>1. /\ pc[c] = "kill"
      /\ UNCHANGED <<file, client, command, learned, queues, msg_q, read, server_pid>>
      /\ Goto(c, "failed") \/ Goto(c, "msgget")
  BY DEF ClientKill, InClient
<1>2. /\ DOMAIN msg_q' = Process /\ msg_q'[c] \in 0 .. Len(queues) /\ RightReply'
      /\ server_pid \in [Client -> Server \cup {NULL}] /\ Early(c) /\ server_pid[c] \in Server
  BY <1>1, Parts, Apart DEF Places, QueuesType, RightReply, TypeOK, Early
<1>3. CASE Goto(c, "failed")
  BY <1>1, <1>2, <1>3, QuietClient DEF ClientPC
<1>4. CASE Goto(c, "msgget")
  BY <1>1, <1>2, <1>4, QuietClient DEF ClientPC
<1> QED
  BY <1>1, <1>3, <1>4

LEMMA ClientMsggetKeeps ==
    ASSUME IInv, IuctlAssumption, NEW c \in Client, ClientMsgget(c)
    PROVE  IInv'
<1>1. /\ pc[c] = "msgget"
      /\ UNCHANGED <<file, client, command, learned, queues, read, server_pid>>
  BY DEF ClientMsgget, InClient
<1>2. /\ DOMAIN msg_q = Process /\ c \in Process /\ RightReply'
      /\ server_pid \in [Client -> Server \cup {NULL}] /\ Early(c) /\ server_pid[c] \in Server
      /\ \A o \in Process : msg_q[o] \in 0 .. Len(queues)
  BY <1>1, Parts, Apart DEF Places, QueuesType, RightReply, TypeOK, Early
<1>3. DOMAIN queues = 1 .. Len(queues) /\ Len(queues) \in Nat
  BY Seqs, Parts DEF QueuesType
<1>4. CASE file = NULL
  <2>1. Goto(c, "failed") /\ UNCHANGED msg_q
    BY <1>4 DEF ClientMsgget
  <2> QED
    BY <1>1, <1>2, <2>1, QuietClient DEF ClientPC
<1>5. CASE file # NULL
  <2>1. PICK q \in IF Found = {} THEN {0} ELSE Found : msg_q' = [msg_q EXCEPT ![c] = q]
    BY <1>5 DEF ClientMsgget
  <2>2. Goto(c, "ask") /\ q \in 0 .. Len(queues)
    BY <1>3, <1>5, <2>1 DEF ClientMsgget, Found
  <2>3. /\ DOMAIN msg_q' = Process /\ msg_q'[c] \in 0 .. Len(queues)
        /\ \A o \in Process \ {c} : msg_q'[o] = msg_q[o]
    BY <1>2, <2>1, <2>2
  <2> QED
    BY <1>1, <1>2, <2>2, <2>3, QuietClient DEF ClientPC
<1> QED
  BY <1>4, <1>5
-----------------------------------------------------------------------------
(***************************************************************************)
(* A message is taken                                                      *)
(***************************************************************************)
LEMMA PlaceOrder ==
    ASSUME NEW q, NEW q0, NEW i \in Nat, NEW j \in Nat, NEW i0 \in Nat
    PROVE  /\ i < j <=> Place(q, i, q0, i0) < Place(q, j, q0, i0)
           /\ Place(q, i, q0, i0) = Place(q, j, q0, i0) => i = j
           /\ q = q0 => Place(q, i, q0, i0) # i0
  BY DEF Place

\* What is in a queue was there before, and what was taken is one more.
LEMMA TakenWas ==
    ASSUME QueuesType, NEW p \in Process, NEW type, Taken(p, type)
    PROVE  /\ QueuesType' /\ DOMAIN queues' = DOMAIN queues /\ Len(queues') = Len(queues)
           /\ \A q \in DOMAIN queues : queues'[q].live = queues[q].live
           /\ \A q \in DOMAIN queues : \A i \in DOMAIN queues'[q].msgs :
                 \E k \in DOMAIN queues[q].msgs : queues'[q].msgs[i] = queues[q].msgs[k]
           /\ msg_q[p] \in DOMAIN queues /\ Received(p, type).to = type
           /\ Received(p, type) \in Msg
           /\ \E k \in DOMAIN queues[msg_q[p]].msgs :
                 /\ queues[msg_q[p]].msgs[k] = Received(p, type)
                 /\ \A i \in DOMAIN queues[msg_q[p]].msgs :
                       i < k => queues[msg_q[p]].msgs[i].to # type
  BY QueueType DEF Taken

LEMMA TakenPending ==
    ASSUME QueuesType, NEW p \in Process, NEW type, Taken(p, type), NEW c, OnePending(c)
    PROVE  /\ OnePending(c)'
           /\ NonePending(c) => NonePending(c)'
           /\ Pending(c, Received(p, type)) => NonePending(c)'
<1> DEFINE q0 == msg_q[p]
<1>1. PICK i0 \in DOMAIN queues[q0].msgs :
         /\ queues[q0].msgs[i0] = Received(p, type) /\ q0 \in DOMAIN queues
         /\ DOMAIN queues' = DOMAIN queues
         /\ \A q \in DOMAIN queues : \A i \in DOMAIN queues'[q].msgs :
               /\ i \in Nat /\ Place(q, i, q0, i0) \in DOMAIN queues[q].msgs
               /\ queues'[q].msgs[i] = queues[q].msgs[Place(q, i, q0, i0)]
  BY DEF Taken
<1>2. i0 \in Nat
  BY <1>1, QueueType
<1>3. OnePending(c)'
  BY <1>1, <1>2, PlaceOrder DEF OnePending
<1>4. NonePending(c) => NonePending(c)'
  BY <1>1 DEF NonePending
<1>5. ASSUME Pending(c, Received(p, type))
      PROVE  NonePending(c)'
  <2> SUFFICES ASSUME NEW q \in DOMAIN queues, NEW i \in DOMAIN queues'[q].msgs
               PROVE  ~Pending(c, queues'[q].msgs[i])
    BY <1>1 DEF NonePending
  <2>1. ~(q = q0 /\ Place(q, i, q0, i0) = i0)
    BY <1>1, <1>2, PlaceOrder
  <2> QED
    BY <1>1, <1>5, <2>1 DEF OnePending
<1> QED
  BY <1>3, <1>4, <1>5

\* A length that is not taken stays before the strings it was before.
LEMMA TakenSized ==
    ASSUME QueuesType, NEW p \in Process, NEW type, Taken(p, type), NEW c,
           ~(Received(p, type).to = c /\ Received(p, type).kind = "length")
    PROVE  /\ StringsSized(c) => StringsSized(c)'
           /\ \A q \in DOMAIN queues :
                 Sized(c, q, Len(queues[q].msgs) + 1) =>
                    Sized(c, q, Len(queues[q].msgs) + 1)'
<1> DEFINE q0 == msg_q[p]
<1>1. PICK i0 \in DOMAIN queues[q0].msgs :
         /\ queues[q0].msgs[i0] = Received(p, type) /\ q0 \in DOMAIN queues
         /\ DOMAIN queues' = DOMAIN queues
         /\ \A q \in DOMAIN queues :
               /\ \A i \in DOMAIN queues'[q].msgs :
                     /\ i \in Nat /\ Place(q, i, q0, i0) \in DOMAIN queues[q].msgs
                     /\ queues'[q].msgs[i] = queues[q].msgs[Place(q, i, q0, i0)]
               /\ \A k \in DOMAIN queues[q].msgs : ~(q = q0 /\ k = i0) =>
                     \E i \in DOMAIN queues'[q].msgs : k = Place(q, i, q0, i0)
  BY DEF Taken
<1>2. i0 \in Nat
  BY <1>1, QueueType
<1>3. ASSUME NEW q \in DOMAIN queues, NEW k \in DOMAIN queues[q].msgs,
             queues[q].msgs[k].to = c, queues[q].msgs[k].kind = "length"
      PROVE  \E i \in DOMAIN queues'[q].msgs :
                /\ i \in Nat /\ k = Place(q, i, q0, i0)
                /\ queues'[q].msgs[i].to = c /\ queues'[q].msgs[i].kind = "length"
  <2>1. ~(q = q0 /\ k = i0)
    BY <1>1, <1>3
  <2> QED
    BY <1>1, <1>3, <2>1
<1>4. ASSUME StringsSized(c)
      PROVE  StringsSized(c)'
  <2> SUFFICES ASSUME NEW q \in DOMAIN queues, NEW j \in DOMAIN queues'[q].msgs,
                      queues'[q].msgs[j].to = c, queues'[q].msgs[j].kind = "string"
               PROVE  Sized(c, q, j)'
    BY <1>1 DEF StringsSized
  <2>1. PICK k \in DOMAIN queues[q].msgs :
           /\ k < Place(q, j, q0, i0)
           /\ queues[q].msgs[k].to = c /\ queues[q].msgs[k].kind = "length"
    BY <1>1, <1>4 DEF StringsSized, Sized
  <2>2. PICK i \in DOMAIN queues'[q].msgs :
           /\ i \in Nat /\ k = Place(q, i, q0, i0)
           /\ queues'[q].msgs[i].to = c /\ queues'[q].msgs[i].kind = "length"
    BY <1>3, <2>1
  <2>3. j \in Nat
    BY <1>1
  <2>4. i < j
    BY <1>2, <2>1, <2>2, <2>3, PlaceOrder
  <2> QED
    BY <2>2, <2>4 DEF Sized
<1>5. ASSUME NEW q \in DOMAIN queues, Sized(c, q, Len(queues[q].msgs) + 1)
      PROVE  Sized(c, q, Len(queues[q].msgs) + 1)'
  <2>1. PICK k \in DOMAIN queues[q].msgs :
           queues[q].msgs[k].to = c /\ queues[q].msgs[k].kind = "length"
    BY <1>5 DEF Sized
  <2>2. PICK i \in DOMAIN queues'[q].msgs :
           queues'[q].msgs[i].to = c /\ queues'[q].msgs[i].kind = "length"
    BY <1>3, <2>1
  <2>3. /\ QueuesType' /\ q \in DOMAIN queues'
    BY <1>1 DEF Taken
  <2>4. i < Len(queues'[q].msgs) + 1
    <3>1. Len(queues'[q].msgs) \in Nat /\ DOMAIN queues'[q].msgs = 1 .. Len(queues'[q].msgs)
      BY <2>3, Seqs DEF QueuesType, Queue
    <3> QED
      BY <3>1
  <2> QED
    BY <2>2, <2>4 DEF Sized
<1> QED
  BY <1>4, <1>5

\* The parts of the invariant about single messages.
LEMMA TakenMessages ==
    ASSUME IInv, NEW p \in Process, NEW type, Taken(p, type), UNCHANGED command
    PROVE  /\ Addressing' /\ Allowed(Received(p, type))
           /\ \A c \in Client : Early(c) =>
                 /\ Received(p, type).from # c /\ Received(p, type).to # c
                 /\ \A q \in DOMAIN queues' : \A i \in DOMAIN queues'[q].msgs :
                       queues'[q].msgs[i].from # c /\ queues'[q].msgs[i].to # c
<1>1. /\ Addressing /\ Untouched /\ QueuesType
  BY Parts
<1>2. /\ msg_q[p] \in DOMAIN queues
      /\ \E k \in DOMAIN queues[msg_q[p]].msgs :
            queues[msg_q[p]].msgs[k] = Received(p, type)
  BY <1>1, TakenWas
<1>3. /\ DOMAIN queues' = DOMAIN queues
      /\ \A q \in DOMAIN queues : \A i \in DOMAIN queues'[q].msgs :
            \E k \in DOMAIN queues[q].msgs : queues'[q].msgs[i] = queues[q].msgs[k]
  BY <1>1, TakenWas
<1>4. Allowed(Received(p, type))
  BY <1>1, <1>2 DEF Addressing
<1>5. Addressing'
  BY <1>1, <1>3 DEF Addressing, Allowed
<1>6. ASSUME NEW c \in Client, Early(c)
      PROVE  /\ Received(p, type).from # c /\ Received(p, type).to # c
             /\ \A q \in DOMAIN queues' : \A i \in DOMAIN queues'[q].msgs :
                   queues'[q].msgs[i].from # c /\ queues'[q].msgs[i].to # c
  <2>1. \A q \in DOMAIN queues : \A i \in DOMAIN queues[q].msgs :
           queues[q].msgs[i].from # c /\ queues[q].msgs[i].to # c
    BY <1>1, <1>6 DEF Untouched
  <2> QED
    BY <1>2, <1>3, <2>1
<1> QED
  BY <1>4, <1>5, <1>6

LEMMA RequestKeeps ==
    ASSUME IInv, IuctlAssumption, NEW s \in Server, ServerRequest(s)
    PROVE  IInv'
<1> DEFINE m == Received(s, s)
<1>1. /\ pc[s] = "loop" /\ Receives(s, s) /\ client' = [client EXCEPT ![s] = m.from]
      /\ Goto(s, m.kind)
      /\ UNCHANGED <<file, msg_q, learned, server_pid, command, read>>
  BY DEF ServerRequest, InServer, clientVars
<1>2. Taken(s, s)
  BY <1>1, ReceivesTakes, Parts, Apart
<1> HIDE DEF m
<1>3. m.to = s /\ Allowed(m) /\ Addressing' /\ m \in Msg
  BY <1>1, <1>2, TakenMessages, TakenWas, Parts, Apart DEF m
<1>4. s \notin Client /\ s \in Process
  BY Apart
<1>5. m.from \in Client /\ m.kind = command[m.from] /\ m.kind \in Commands
  BY <1>3, <1>4, Parts DEF Allowed, TypeOK
<1>6. DOMAIN pc' = Process /\ pc'[s] = m.kind /\ \A o \in Process : o # s => pc'[o] = pc[o]
  BY <1>1, <1>4, Moved, Parts
<1>7. /\ client' \in [Server -> Client \cup {NULL}] /\ client'[s] = m.from
      /\ \A o \in Server : o # s => client'[o] = client[o]
  BY <1>1, <1>5, Parts DEF Places
<1>8. \A o \in Server \ {s} : pc[o] \in Over
  BY <1>1, OthersOver DEF Over
<1>9. Places' /\ OneServer'
  <2>1. m.kind \in ServerPC /\ m.kind \notin {"write", "msgget"}
    BY <1>5 DEF ServerPC, Commands
  <2>2. DOMAIN msg_q' = Process
    BY <1>1, Parts DEF Places
  <2> QED
    BY <1>1, <1>7, <1>8, <2>1, <2>2, ServerMoves
<1>10. \A o \in Server : Busy(o)' \/ pc'[o] = "string" => o = s /\ pc'[o] # "string"
  <2>1. \A o \in Server : o # s => pc'[o] \in Over
    BY <1>6, <1>8, Apart
  <2>2. pc'[s] # "string"
    BY <1>5, <1>6 DEF Commands
  <2> QED
    BY <2>1, <2>2 DEF Busy, Over
<1>11. \A c \in Client : pc'[c] = pc[c]
  BY <1>4, <1>6, Apart
<1>12. Commanded'
  BY <1>1, <1>5, <1>6, <1>7, <1>10, <1>11, Parts DEF Commanded
<1>13. Untouched'
  <2> SUFFICES ASSUME NEW c \in Client, Early(c)
               PROVE  /\ \A o \in Server : Busy(o)' => client'[o] # c
                      /\ \A q \in DOMAIN queues' : \A i \in DOMAIN queues'[q].msgs :
                            queues'[q].msgs[i].from # c /\ queues'[q].msgs[i].to # c
    BY <1>11 DEF Untouched, Early
  <2> QED
    BY <1>1, <1>2, <1>4, <1>7, <1>10, TakenMessages DEF m
<1>14. Once'
  <2> SUFFICES ASSUME NEW c \in Client
               PROVE  /\ OnePending(c)'
                      /\ (pc'[c] = "string" \/ \E o \in Server : AtNet(o, c)')
                            => NonePending(c)'
                      /\ pc'[c] = "string" => \A o \in Server : ~AtNet(o, c)'
    BY DEF Once
  <2>1. OnePending(c) /\ (pc[c] = "string" => NonePending(c)) /\ QueuesType
    BY Parts DEF Once
  <2>2. /\ OnePending(c)' /\ (NonePending(c) => NonePending(c)')
        /\ Pending(c, m) => NonePending(c)'
    BY <1>2, <1>4, <2>1, TakenPending DEF m
  <2>3. ASSUME NEW o \in Server, AtNet(o, c)'
        PROVE  Pending(c, m)
    BY <1>3, <1>7, <1>10, <2>3 DEF AtNet, Busy, Pending
  <2>4. Pending(c, m) => ~NonePending(c)
    BY <1>2, <1>4, <2>1, TakenWas DEF NonePending, m
  <2> QED
    BY <1>11, <2>1, <2>2, <2>3, <2>4
<1>15. Ordered'
  <2> SUFFICES ASSUME NEW c \in Client, pc[c] = "length"
               PROVE  StringsSized(c)'
    BY <1>10, <1>11 DEF Ordered
  <2>1. m.to # c /\ StringsSized(c)
    BY <1>3, <1>4, Parts DEF Ordered
  <2> QED
    BY <1>2, <1>4, <2>1, TakenSized, Parts DEF m
<1>16. TypeOK'
  <2>1. QueuesType' /\ \A q \in DOMAIN queues : queues'[q].live = queues[q].live
    BY <1>2, <1>4, TakenWas, Parts
  <2>2. msg_q[s] \in DOMAIN queues
    BY <1>2, <1>4, TakenWas, Parts
  <2>3. Live(msg_q[s])
    BY <1>1, Parts DEF TypeOK
  <2>4. Live(msg_q[s])'
    BY <1>1, <2>1, <2>2, <2>3 DEF Live
  <2>5. \A o \in Server : pc'[o] \in Serving => o = s
    BY <1>6, <1>8, Apart DEF Serving, Over
  <2> QED
    BY <1>1, <1>12, <2>1, <2>4, <2>5, TypeAgain, Parts DEF TypeOK, File
<1>17. Paired' /\ RightReply'
  BY <1>1, Parts DEF Paired, RightReply
<1> QED
  BY <1>3, <1>9, <1>12, <1>13, <1>14, <1>15, <1>16, <1>17 DEF IInv

\* The second message of an addr command is that of the same client.
LEMMA AddrKeeps ==
    ASSUME IInv, IuctlAssumption, NEW s \in Server, ServerAddr(s)
    PROVE  IInv'
<1> DEFINE m == Received(s, client[s])
<1>1. /\ pc[s] = "addr" /\ Receives(s, client[s]) /\ Goto(s, "loop")
      /\ learned' = learned \cup
            {<<client[s], IF m.kind = "address" THEN m.from ELSE NULL>>}
      /\ UNCHANGED <<file, msg_q, client, server_pid, command, read>>
  BY DEF ServerAddr, InServer, clientVars, AddrType
<1>2. Taken(s, client[s])
  BY <1>1, ReceivesTakes, Parts, Apart
<1> HIDE DEF m
<1>3. /\ m.to = client[s] /\ Allowed(m) /\ Addressing' /\ m \in Msg
      /\ client[s] \in Client /\ command[client[s]] = "addr"
  BY <1>1, <1>2, TakenMessages, TakenWas, Parts, Apart DEF m, Commanded, Busy
<1>4. s \notin Client /\ s \in Process /\ client[s] \notin Server
  BY <1>3, Apart
<1>5. m.kind = "address" /\ m.from = client[s]
  BY <1>3, <1>4 DEF Allowed
<1>6. DOMAIN pc' = Process /\ pc'[s] = "loop" /\ \A o \in Process : o # s => pc'[o] = pc[o]
  BY <1>1, <1>4, Moved, Parts
<1>7. \A o \in Server \ {s} : pc[o] \in Over
  BY <1>1, OthersOver DEF Over
<1>8. Places' /\ OneServer'
  <2>1. DOMAIN msg_q' = Process /\ client' \in [Server -> Client \cup {NULL}]
    BY <1>1, Parts DEF Places
  <2> QED
    BY <1>1, <1>7, <2>1, ServerMoves DEF ServerPC
<1>9. \A o \in Server : ~Busy(o)' /\ pc'[o] \notin {"net", "string"}
  <2>1. \A o \in Server : o # s => pc'[o] \in Over
    BY <1>6, <1>7, Apart
  <2> QED
    BY <1>6, <2>1 DEF Busy, Over
<1>10. \A c \in Client : pc'[c] = pc[c]
  BY <1>4, <1>6, Apart
<1>11. Commanded'
  BY <1>1, <1>9, <1>10, Parts DEF Commanded
<1>12. Untouched'
  <2> SUFFICES ASSUME NEW c \in Client, Early(c)
               PROVE  \A q \in DOMAIN queues' : \A i \in DOMAIN queues'[q].msgs :
                         queues'[q].msgs[i].from # c /\ queues'[q].msgs[i].to # c
    BY <1>9, <1>10 DEF Untouched, Early
  <2> QED
    BY <1>1, <1>2, <1>4, TakenMessages
<1>13. Once'
  <2> SUFFICES ASSUME NEW c \in Client
               PROVE  OnePending(c)' /\ (pc[c] = "string" => NonePending(c)')
    BY <1>9, <1>10 DEF Once, AtNet
  <2>1. OnePending(c) /\ (pc[c] = "string" => NonePending(c)) /\ QueuesType
    BY Parts DEF Once
  <2> QED
    BY <1>2, <1>4, <2>1, TakenPending
<1>14. Ordered'
  <2> SUFFICES ASSUME NEW c \in Client, pc[c] = "length"
               PROVE  StringsSized(c)'
    BY <1>9, <1>10 DEF Ordered
  <2>1. m.kind # "length" /\ StringsSized(c)
    BY <1>5, Parts DEF Ordered
  <2> QED
    BY <1>2, <1>4, <2>1, TakenSized, Parts DEF m
<1>15. TypeOK'
  <2>1. QueuesType' /\ \A q \in DOMAIN queues : queues'[q].live = queues[q].live
    BY <1>2, <1>4, TakenWas, Parts
  <2>2. msg_q[s] \in DOMAIN queues
    BY <1>2, <1>4, TakenWas, Parts
  <2>3. Live(msg_q[s])
    BY <1>1, Parts DEF TypeOK
  <2>4. Live(msg_q[s])'
    BY <1>1, <2>1, <2>2, <2>3 DEF Live
  <2>5. \A o \in Server : pc'[o] \in Serving => o = s
    BY <1>6, <1>7, Apart DEF Serving, Over
  <2> QED
    BY <1>1, <1>11, <2>1, <2>4, <2>5, TypeAgain, Parts DEF TypeOK, File
<1>16. Paired' /\ RightReply'
  <2>1. learned' = learned \cup {<<client[s], client[s]>>}
    BY <1>1, <1>5
  <2> QED
    BY <1>1, <2>1, Parts DEF Paired, RightReply
<1> QED
  BY <1>3, <1>8, <1>11, <1>12, <1>13, <1>14, <1>15, <1>16 DEF IInv

\* What a waiting client takes is what it waits for.
LEMMA ReadsRight ==
    ASSUME IInv, IuctlAssumption, NEW c \in Client, Taken(c, c),
           pc[c] \in {"status", "length", "string"}
    PROVE  Received(c, c).kind = pc[c] /\ Received(c, c).to = c
<1> DEFINE m == Received(c, c)
           q0 == msg_q[c]
<1>1. c \in Process /\ c \notin Server
  BY Apart
<1>2. PICK k \in DOMAIN queues[q0].msgs :
         /\ queues[q0].msgs[k] = m
         /\ \A i \in DOMAIN queues[q0].msgs : i < k => queues[q0].msgs[i].to # c
  BY <1>1, TakenWas, Parts
<1>3. q0 \in DOMAIN queues /\ m.to = c
  BY <1>1, TakenWas, Parts
<1> HIDE DEF m
<1>4. Allowed(m)
  BY <1>2, <1>3, Parts DEF Addressing
<1>5. CASE pc[c] = "status"
  <2>1. command[c] = "status"
    BY <1>5, Parts DEF Commanded
  <2> QED
    BY <1>1, <1>3, <1>4, <1>5, <2>1 DEF Allowed, m
<1>6. pc[c] \in {"length", "string"} => m.kind \in {"length", "string"}
  <2>1. pc[c] \in {"length", "string"} => command[c] = "net"
    BY Parts DEF Commanded
  <2> QED
    BY <1>1, <1>3, <1>4, <2>1 DEF Allowed
<1>7. CASE pc[c] = "length"
  <2>1. ~(m.kind = "string")
    <3>1. StringsSized(c)
      BY <1>7, Parts DEF Ordered
    <3> QED
      BY <1>2, <1>3, <3>1 DEF StringsSized, Sized
  <2> QED
    BY <1>3, <1>6, <1>7, <2>1 DEF m
<1>8. CASE pc[c] = "string"
  <2>1. NonePending(c)
    BY <1>8, Parts DEF Once
  <2>2. ~(m.kind = "length")
    BY <1>2, <1>3, <2>1 DEF NonePending, Pending
  <2> QED
    BY <1>3, <1>6, <1>8, <2>2 DEF m
<1> QED
  BY <1>5, <1>7, <1>8

LEMMA ReadsKeep ==
    ASSUME IInv, IuctlAssumption, NEW c \in Client, NEW kind \in {"status", "length", "string"},
           pc[c] = kind, Receives(c, c), read' = read \cup {<<c, kind, Received(c, c).kind>>},
           NEW l, Goto(c, l), l = "done" \/ (kind = "length" /\ l = "string"),
           UNCHANGED <<file, client, command, learned, msg_q, server_pid>>
    PROVE  IInv'
<1> DEFINE m == Received(c, c)
<1>1. c \in Process /\ c \notin Server
  BY Apart
<1>2. Taken(c, c)
  BY <1>1, ReceivesTakes, Parts, Apart
<1>3. m.kind = kind /\ m.to = c
  BY <1>2, ReadsRight
<1> HIDE DEF m
<1>4. DOMAIN pc' = Process /\ pc'[c] = l /\ \A o \in Process : o # c => pc'[o] = pc[o]
  BY <1>1, Moved, Parts
<1>5. /\ \A s \in Server : pc'[s] = pc[s]
      /\ \A d \in Client : d # c => pc'[d] = pc[d]
  BY <1>1, <1>4, Apart
<1>6. Places' /\ OneServer'
  <2>1. DOMAIN msg_q' = Process /\ l \in ClientPC /\ l \notin {"kill", "msgget", "ask"}
    BY Parts DEF Places, ClientPC
  <2> QED
    BY <2>1, ClientMoves
<1>7. Addressing'
  BY <1>1, <1>2, TakenMessages
<1>8. Commanded'
  <2>1. l = "string" => command[c] = "net"
    BY Parts DEF Commanded
  <2>2. \A d \in Client : d # c =>
           /\ pc'[d] = "status" => command[d] = "status"
           /\ pc'[d] \in {"length", "string"} => command[d] = "net"
           /\ pc'[d] = "address" => command[d] = "addr"
    BY <1>5, Parts DEF Commanded
  <2>3. \A s \in Server : Busy(s)' =>
           /\ client[s] \in Client
           /\ command[client[s]] = IF pc'[s] = "string" THEN "net" ELSE pc'[s]
    BY <1>5, Parts DEF Commanded, Busy
  <2> QED
    BY <1>4, <1>5, <2>1, <2>2, <2>3 DEF Commanded
<1>9. Untouched'
  <2> SUFFICES ASSUME NEW d \in Client, Early(d)
               PROVE  /\ \A s \in Server : Busy(s) => client[s] # d
                      /\ \A q \in DOMAIN queues' : \A i \in DOMAIN queues'[q].msgs :
                            queues'[q].msgs[i].from # d /\ queues'[q].msgs[i].to # d
    BY <1>4, <1>5 DEF Untouched, Early, Busy
  <2> QED
    BY <1>1, <1>2, TakenMessages, Parts DEF Untouched
<1>10. Once'
  <2> SUFFICES ASSUME NEW d \in Client
               PROVE  /\ OnePending(d)'
                      /\ (pc'[d] = "string" \/ \E s \in Server : AtNet(s, d)) => NonePending(d)'
                      /\ pc'[d] = "string" => \A s \in Server : ~AtNet(s, d)
    BY <1>5 DEF Once, AtNet
  <2>1. /\ OnePending(d) /\ QueuesType
        /\ (pc[d] = "string" \/ \E s \in Server : AtNet(s, d)) => NonePending(d)
        /\ pc[d] = "string" => \A s \in Server : ~AtNet(s, d)
    BY Parts DEF Once
  <2>2. /\ OnePending(d)' /\ (NonePending(d) => NonePending(d)')
        /\ Pending(d, m) => NonePending(d)'
    BY <1>1, <1>2, <2>1, TakenPending DEF m
  <2>3. CASE d = c /\ l = "string"
    <3>1. Pending(d, m)
      BY <1>3, <2>3 DEF Pending
    <3>2. ~NonePending(d)
      BY <1>1, <1>2, <2>1, <3>1, TakenWas DEF NonePending, m
    <3> QED
      BY <2>1, <2>2, <3>1, <3>2
  <2>4. CASE ~(d = c /\ l = "string")
    BY <1>4, <1>5, <2>1, <2>2, <2>4
  <2> QED
    BY <2>3, <2>4
<1>11. Ordered'
  <2> SUFFICES ASSUME NEW d \in Client, pc[d] = "length", d # c
               PROVE  /\ StringsSized(d)'
                      /\ \A s \in Server : pc[s] = "string" /\ client[s] = d =>
                            Sized(d, msg_q[s], Len(queues[msg_q[s]].msgs) + 1)'
    BY <1>4, <1>5 DEF Ordered
  <2>1. /\ StringsSized(d)
        /\ \A s \in Server : pc[s] = "string" /\ client[s] = d =>
              Sized(d, msg_q[s], Len(queues[msg_q[s]].msgs) + 1)
    BY Parts DEF Ordered
  <2>2. ~(m.to = d /\ m.kind = "length")
    BY <1>3
  <2>3. /\ StringsSized(d) => StringsSized(d)'
        /\ \A q \in DOMAIN queues :
              Sized(d, q, Len(queues[q].msgs) + 1) => Sized(d, q, Len(queues[q].msgs) + 1)'
    BY <1>1, <1>2, <2>2, TakenSized, Parts DEF m
  <2>4. \A s \in Server : pc[s] = "string" => msg_q[s] \in DOMAIN queues
    <3>1. \A s \in Server : pc[s] = "string" => msg_q[s] # 0 /\ msg_q[s] \in 0 .. Len(queues)
      BY Parts, Apart DEF TypeOK, Live
    <3> QED
      BY <3>1, Parts, Seqs DEF QueuesType
  <2> QED
    BY <2>1, <2>3, <2>4 DEF Sized
<1>12. TypeOK'
  <2>1. QueuesType' /\ \A q \in DOMAIN queues : queues'[q].live = queues[q].live
    BY <1>1, <1>2, TakenWas, Parts
  <2>2. \A s \in Server : pc[s] \in Serving =>
           msg_q[s] # 0 /\ msg_q[s] \in 0 .. Len(queues) /\ Live(msg_q[s])
    BY Parts, Apart DEF TypeOK, Live, Serving
  <2>3. DOMAIN queues = 1 .. Len(queues) /\ Len(queues) \in Nat
    BY Parts, Seqs DEF QueuesType
  <2>4. \A s \in Server : pc'[s] \in Serving => Live(msg_q[s])'
    BY <1>5, <2>1, <2>2, <2>3 DEF Live
  <2> QED
    BY <1>8, <2>1, <2>4, TypeAgain, Parts DEF TypeOK, File
<1>13. Paired' /\ RightReply'
  BY <1>3, Parts DEF Paired, RightReply, m
<1> QED
  BY <1>6, <1>7, <1>8, <1>9, <1>10, <1>11, <1>12, <1>13 DEF IInv

\* There is no queue, or no longer: the wait ends with nothing.
LEMMA FailsKeep ==
    ASSUME IInv, IuctlAssumption, NEW c \in Client, NEW kind, pc[c] = kind, RecvFails(c),
           read' = read \cup {<<c, kind, NULL>>}, NEW l \in {"done", "undefined"}, Goto(c, l),
           UNCHANGED <<file, client, command, learned, msg_q, server_pid>>
    PROVE  IInv'
<1>1. /\ UNCHANGED queues /\ DOMAIN msg_q' = Process /\ msg_q'[c] \in 0 .. Len(queues)
      /\ server_pid' \in [Client -> Server \cup {NULL}]
  BY Parts, Apart DEF RecvFails, Places, QueuesType, TypeOK
<1>2. RightReply'
  BY Parts DEF RightReply
<1> QED
  BY <1>1, <1>2, QuietClient DEF ClientPC

LEMMA StatusKeeps ==
    ASSUME IInv, IuctlAssumption, NEW c \in Client, ClientStatus(c)
    PROVE  IInv'
<1>1. /\ pc[c] = "status" /\ Goto(c, "done")
      /\ UNCHANGED <<file, client, command, learned, msg_q, server_pid>>
      /\ \/ Receives(c, c) /\ read' = read \cup {<<c, "status", Received(c, c).kind>>}
         \/ RecvFails(c) /\ read' = read \cup {<<c, "status", NULL>>}
  BY DEF ClientStatus, Reads, InClient
<1> QED
  BY <1>1, ReadsKeep, FailsKeep

LEMMA LengthKeeps ==
    ASSUME IInv, IuctlAssumption, NEW c \in Client, ClientLength(c)
    PROVE  IInv'
<1>1. /\ pc[c] = "length"
      /\ UNCHANGED <<file, client, command, learned, msg_q, server_pid>>
      /\ \/ Receives(c, c) /\ read' = read \cup {<<c, "length", Received(c, c).kind>>}
         \/ RecvFails(c) /\ read' = read \cup {<<c, "length", NULL>>}
      /\ Goto(c, IF Live(msg_q[c]) THEN "string" ELSE "undefined")
  BY DEF ClientLength, Reads, InClient
<1>2. CASE Receives(c, c) /\ read' = read \cup {<<c, "length", Received(c, c).kind>>}
  <2>1. Goto(c, "string")
    BY <1>1, <1>2 DEF Receives, Waiting
  <2> QED
    BY <1>1, <1>2, <2>1, ReadsKeep
<1>3. CASE RecvFails(c) /\ read' = read \cup {<<c, "length", NULL>>}
  <2>1. Goto(c, "undefined")
    BY <1>1, <1>3 DEF RecvFails
  <2> QED
    BY <1>1, <1>3, <2>1, FailsKeep
<1> QED
  BY <1>1, <1>2, <1>3

LEMMA StringKeeps ==
    ASSUME IInv, IuctlAssumption, NEW c \in Client, ClientString(c)
    PROVE  IInv'
<1>1. /\ pc[c] = "string"
      /\ UNCHANGED <<file, client, command, learned, msg_q, server_pid>>
      /\ \/ Receives(c, c) /\ read' = read \cup {<<c, "string", Received(c, c).kind>>}
         \/ RecvFails(c) /\ read' = read \cup {<<c, "string", NULL>>}
      /\ Goto(c, IF Live(msg_q[c]) THEN "done" ELSE "undefined")
  BY DEF ClientString, Reads, InClient
<1>2. CASE Receives(c, c) /\ read' = read \cup {<<c, "string", Received(c, c).kind>>}
  <2>1. Goto(c, "done")
    BY <1>1, <1>2 DEF Receives, Waiting
  <2> QED
    BY <1>1, <1>2, <2>1, ReadsKeep
<1>3. CASE RecvFails(c) /\ read' = read \cup {<<c, "string", NULL>>}
  <2>1. Goto(c, "undefined")
    BY <1>1, <1>3 DEF RecvFails
  <2> QED
    BY <1>1, <1>3, <2>1, FailsKeep
<1> QED
  BY <1>1, <1>2, <1>3
-----------------------------------------------------------------------------
(***************************************************************************)
(* A message is sent                                                       *)
(***************************************************************************)
LEMMA AddedWas ==
    ASSUME QueuesType, NEW p \in Process, NEW m, Added(p, m)
    PROVE  /\ QueuesType' /\ DOMAIN queues' = DOMAIN queues
           /\ \A q \in DOMAIN queues : queues'[q].live = queues[q].live
           /\ \A q \in DOMAIN queues : \A i \in DOMAIN queues'[q].msgs :
                 \/ i \in DOMAIN queues[q].msgs /\ queues'[q].msgs[i] = queues[q].msgs[i]
                 \/ /\ queues'[q].msgs[i] = m /\ q = msg_q[p]
                    /\ i = Len(queues[q].msgs) + 1
           /\ \A q \in DOMAIN queues : \A i \in DOMAIN queues[q].msgs :
                 i \in DOMAIN queues'[q].msgs /\ queues'[q].msgs[i] = queues[q].msgs[i]
           /\ \A q \in DOMAIN queues : \A i \in DOMAIN queues[q].msgs :
                 i < Len(queues[q].msgs) + 1
           /\ \A q \in DOMAIN queues' : \A i \in DOMAIN queues'[q].msgs :
                 i < Len(queues'[q].msgs) + 1
<1>1. QueuesType' /\ DOMAIN queues' = DOMAIN queues
  BY DEF Added
<1>2. \A q \in DOMAIN queues : \A i \in DOMAIN queues[q].msgs : i < Len(queues[q].msgs) + 1
  <2> SUFFICES ASSUME NEW q \in DOMAIN queues
               PROVE  \A i \in DOMAIN queues[q].msgs : i < Len(queues[q].msgs) + 1
    OBVIOUS
  <2>1. Len(queues[q].msgs) \in Nat /\ DOMAIN queues[q].msgs = 1 .. Len(queues[q].msgs)
    BY QueueType
  <2> QED
    BY <2>1
<1>3. \A q \in DOMAIN queues' : \A i \in DOMAIN queues'[q].msgs : i < Len(queues'[q].msgs) + 1
  <2> SUFFICES ASSUME NEW q \in DOMAIN queues'
               PROVE  \A i \in DOMAIN queues'[q].msgs : i < Len(queues'[q].msgs) + 1
    OBVIOUS
  <2>1. Len(queues'[q].msgs) \in Nat /\ DOMAIN queues'[q].msgs = 1 .. Len(queues'[q].msgs)
    BY <1>1, Seqs DEF QueuesType, Queue
  <2> QED
    BY <2>1
<1> QED
  BY <1>1, <1>2, <1>3 DEF Added

LEMMA AddedMessages ==
    ASSUME QueuesType, Addressing, NEW p \in Process, NEW m, Added(p, m), Allowed(m),
           UNCHANGED command
    PROVE  Addressing'
<1>1. \A n : Allowed(n)' = Allowed(n)
  BY DEF Allowed
<1> QED
  BY <1>1, AddedWas DEF Addressing

LEMMA AddedPending ==
    ASSUME QueuesType, NEW p \in Process, NEW m, Added(p, m), NEW c, OnePending(c)
    PROVE  /\ NonePending(c) \/ ~Pending(c, m) => OnePending(c)'
           /\ NonePending(c) /\ ~Pending(c, m) => NonePending(c)'
  BY AddedWas DEF OnePending, NonePending

LEMMA AddedSized ==
    ASSUME QueuesType, NEW p \in Process, NEW m, Added(p, m), NEW c
    PROVE  /\ /\ StringsSized(c)
              /\ \/ ~(m.to = c /\ m.kind = "string")
                 \/ Sized(c, msg_q[p], Len(queues[msg_q[p]].msgs) + 1)
              => StringsSized(c)'
           /\ \A q \in DOMAIN queues :
                 Sized(c, q, Len(queues[q].msgs) + 1) =>
                    Sized(c, q, Len(queues[q].msgs) + 1)'
<1>1. ASSUME StringsSized(c),
             \/ ~(m.to = c /\ m.kind = "string")
             \/ Sized(c, msg_q[p], Len(queues[msg_q[p]].msgs) + 1)
      PROVE  StringsSized(c)'
  <2> SUFFICES ASSUME NEW q \in DOMAIN queues, NEW j \in DOMAIN queues'[q].msgs,
                      queues'[q].msgs[j].to = c, queues'[q].msgs[j].kind = "string"
               PROVE  Sized(c, q, j)'
    BY AddedWas DEF StringsSized
  <2>1. Sized(c, q, j)
    <3>1. CASE j \in DOMAIN queues[q].msgs /\ queues'[q].msgs[j] = queues[q].msgs[j]
      BY <1>1, <3>1 DEF StringsSized
    <3>2. CASE queues'[q].msgs[j] = m /\ q = msg_q[p] /\ j = Len(queues[q].msgs) + 1
      BY <1>1, <3>2
    <3> QED
      BY <3>1, <3>2, AddedWas
  <2> QED
    BY <2>1, AddedWas DEF Sized
<1>2. ASSUME NEW q \in DOMAIN queues, Sized(c, q, Len(queues[q].msgs) + 1)
      PROVE  Sized(c, q, Len(queues[q].msgs) + 1)'
  BY <1>2, AddedWas DEF Sized
<1> QED
  BY <1>1, <1>2

\* The server's answers.
LEMMA ReplyKeeps ==
    ASSUME IInv, IuctlAssumption, NEW s \in Server, NEW now, NEW kind, NEW next,
           Reply(s, now, kind, next),
           \/ now = "status" /\ kind = "status" /\ next = "loop"
           \/ now = "net" /\ kind = "length" /\ next = "string"
           \/ now = "string" /\ kind = "string" /\ next = "loop"
    PROVE  IInv'
<1> DEFINE c == client[s]
           m == Message(c, s, kind)
<1>1. /\ pc[s] = now /\ Sends(s, m) /\ Goto(s, next)
      /\ UNCHANGED <<file, msg_q, client, server_pid, command, history>>
  BY DEF Reply, InServer, clientVars, history
<1>2. now \in {"status", "net", "string"} /\ Busy(s)
  BY <1>1 DEF Busy
<1>3. c \in Client /\ command[c] = IF now = "string" THEN "net" ELSE now
  BY <1>1, <1>2, Parts DEF Commanded
<1>4. s \in Process /\ s \notin Client /\ c \notin Server /\ c \in Process
  BY <1>3, Apart
<1>5. m \in Msg /\ m.to = c /\ m.from = s /\ m.kind = kind /\ Allowed(m)
  BY <1>3, <1>4 DEF Message, Msg, Kind, Commands, Allowed
<1>6. /\ Added(s, m)
      /\ Live(msg_q[s]) => \E i \in DOMAIN queues'[msg_q[s]].msgs :
            i = Len(queues[msg_q[s]].msgs) + 1 /\ queues'[msg_q[s]].msgs[i] = m
  BY <1>1, <1>4, <1>5, SendsAdds, Parts, Apart
<1>7. Live(msg_q[s]) /\ msg_q[s] \in DOMAIN queues
  <2>1. Live(msg_q[s]) /\ msg_q[s] \in 0 .. Len(queues)
    BY <1>1, <1>2, <1>4, Parts DEF TypeOK
  <2> QED
    BY <2>1, Parts, Seqs DEF QueuesType, Live
<1> HIDE DEF c, m
<1>8. DOMAIN pc' = Process /\ pc'[s] = next /\ \A o \in Process : o # s => pc'[o] = pc[o]
  BY <1>1, <1>4, Moved, Parts
<1>9. \A o \in Server \ {s} : pc[o] \in Over
  BY <1>1, <1>2, OthersOver DEF Over
<1>10. \A d \in Client : pc'[d] = pc[d]
  BY <1>4, <1>8, Apart
<1>11. \A o \in Server : Busy(o)' =>
          o = s /\ now = "net" /\ kind = "length" /\ next = "string" /\ pc'[o] = "string"
  <2>1. \A o \in Server : o # s => pc'[o] \in Over
    BY <1>8, <1>9, Apart
  <2> QED
    BY <1>8, <2>1 DEF Busy, Over
<1>12. Places' /\ OneServer'
  <2>1. /\ DOMAIN msg_q' = Process /\ client' \in [Server -> Client \cup {NULL}]
        /\ next \in ServerPC /\ next \notin {"write", "msgget"}
    BY <1>1, Parts DEF Places, ServerPC
  <2> QED
    BY <1>1, <1>9, <2>1, ServerMoves
<1>13. Addressing'
  BY <1>1, <1>4, <1>5, <1>6, AddedMessages, Parts
<1>14. Commanded'
  BY <1>1, <1>3, <1>10, <1>11, Parts DEF Commanded, c
<1>15. Untouched'
  <2> SUFFICES ASSUME NEW d \in Client, Early(d)
               PROVE  /\ client[s] # d
                      /\ \A q \in DOMAIN queues' : \A i \in DOMAIN queues'[q].msgs :
                            queues'[q].msgs[i].from # d /\ queues'[q].msgs[i].to # d
    BY <1>1, <1>10, <1>11 DEF Untouched, Early
  <2>1. /\ c # d
        /\ \A q \in DOMAIN queues : \A i \in DOMAIN queues[q].msgs :
              queues[q].msgs[i].from # d /\ queues[q].msgs[i].to # d
    BY <1>2, Parts DEF Untouched, c
  <2> QED
    BY <1>4, <1>5, <1>6, <2>1, AddedWas, Parts DEF c
<1>16. Once'
  <2> SUFFICES ASSUME NEW d \in Client
               PROVE  OnePending(d)' /\ (pc[d] = "string" => NonePending(d)')
    BY <1>10, <1>11 DEF Once, AtNet, Busy
  <2>1. /\ OnePending(d)
        /\ (pc[d] = "string" \/ \E o \in Server : AtNet(o, d)) => NonePending(d)
        /\ pc[d] = "string" => \A o \in Server : ~AtNet(o, d)
    BY Parts DEF Once
  <2>2. /\ NonePending(d) \/ ~Pending(d, m) => OnePending(d)'
        /\ NonePending(d) /\ ~Pending(d, m) => NonePending(d)'
    BY <1>4, <1>6, <2>1, AddedPending, Parts
  <2>3. ASSUME Pending(d, m)
        PROVE  AtNet(s, d)
    BY <1>1, <1>4, <1>5, <2>3 DEF Pending, AtNet, c
  <2> QED
    BY <2>1, <2>2, <2>3
<1>17. Ordered'
  <2> SUFFICES ASSUME NEW d \in Client, pc[d] = "length"
               PROVE  /\ StringsSized(d)'
                      /\ now = "net" /\ c = d =>
                            Sized(d, msg_q[s], Len(queues[msg_q[s]].msgs) + 1)'
    BY <1>1, <1>10, <1>11 DEF Ordered, Busy, c, Sized
  <2>1. /\ StringsSized(d)
        /\ now = "string" /\ c = d => Sized(d, msg_q[s], Len(queues[msg_q[s]].msgs) + 1)
    BY <1>1, Parts DEF Ordered, c
  <2>2. StringsSized(d)'
    BY <1>4, <1>5, <1>6, <2>1, AddedSized, Parts
  <2>3. ASSUME now = "net", c = d
        PROVE  Sized(d, msg_q[s], Len(queues[msg_q[s]].msgs) + 1)'
    BY <1>1, <1>4, <1>5, <1>6, <1>7, <2>3, AddedWas, Parts DEF Sized
  <2> QED
    BY <2>2, <2>3
<1>18. TypeOK'
  <2>1. QueuesType' /\ \A q \in DOMAIN queues : queues'[q].live = queues[q].live
    BY <1>4, <1>6, AddedWas, Parts
  <2>2. Live(msg_q[s])'
    BY <1>1, <1>7, <2>1 DEF Live
  <2>3. \A o \in Server : pc'[o] \in Serving => o = s
    BY <1>8, <1>9, Apart DEF Serving, Over
  <2> QED
    BY <1>1, <1>14, <2>1, <2>2, <2>3, TypeAgain, Parts DEF TypeOK, File
<1>19. Paired' /\ RightReply'
  BY <1>1, Parts DEF Paired, RightReply, history
<1> QED
  BY <1>12, <1>13, <1>14, <1>15, <1>16, <1>17, <1>18, <1>19 DEF IInv

\* A client's first or second message; it goes on to wait, or is done.
LEMMA ClientSends ==
    ASSUME IInv, IuctlAssumption, NEW c \in Client, NEW m \in Msg, NEW l \in ClientPC,
           Sends(c, m), Goto(c, l), Allowed(m), m.from = c, m.to \in Server \cup {c},
           m.to = c => m.kind = "address" /\ pc[c] = "address",
           m.to \in Server => pc[c] = "ask",
           l \in {"status", "length", "address", "done"},
           l = "status" => command[c] = "status",
           l = "length" => command[c] = "net" /\ pc[c] = "ask",
           l = "address" => command[c] = "addr",
           UNCHANGED <<file, client, command, history, msg_q, server_pid>>
    PROVE  IInv'
<1>1. c \in Process /\ c \notin Server
  BY Apart
<1>2. Added(c, m)
  BY <1>1, SendsAdds, Parts, Apart
<1>3. DOMAIN pc' = Process /\ pc'[c] = l /\ \A o \in Process : o # c => pc'[o] = pc[o]
  BY <1>1, Moved, Parts
<1>4. /\ \A s \in Server : pc'[s] = pc[s]
      /\ \A d \in Client : d # c => pc'[d] = pc[d]
  BY <1>1, <1>3, Apart
<1>5. Places' /\ OneServer'
  <2>1. DOMAIN msg_q' = Process /\ l \notin {"kill", "msgget", "ask"}
    BY Parts DEF Places
  <2> QED
    BY <2>1, ClientMoves
<1>6. Addressing'
  BY <1>1, <1>2, AddedMessages, Parts
<1>7. Commanded'
  <2>1. \A d \in Client : d # c =>
           /\ pc'[d] = "status" => command[d] = "status"
           /\ pc'[d] \in {"length", "string"} => command[d] = "net"
           /\ pc'[d] = "address" => command[d] = "addr"
    BY <1>4, Parts DEF Commanded
  <2>2. \A s \in Server : Busy(s)' =>
           /\ client[s] \in Client
           /\ command[client[s]] = IF pc'[s] = "string" THEN "net" ELSE pc'[s]
    BY <1>4, Parts DEF Commanded, Busy
  <2> QED
    BY <1>3, <1>4, <2>1, <2>2 DEF Commanded
<1>8. Untouched'
  <2> SUFFICES ASSUME NEW d \in Client, Early(d), d # c
               PROVE  /\ \A s \in Server : Busy(s) => client[s] # d
                      /\ \A q \in DOMAIN queues' : \A i \in DOMAIN queues'[q].msgs :
                            queues'[q].msgs[i].from # d /\ queues'[q].msgs[i].to # d
    BY <1>3, <1>4 DEF Untouched, Early, Busy
  <2>1. m.from # d /\ m.to # d
    BY Apart
  <2>2. /\ \A s \in Server : Busy(s) => client[s] # d
        /\ \A q \in DOMAIN queues : \A i \in DOMAIN queues[q].msgs :
              queues[q].msgs[i].from # d /\ queues[q].msgs[i].to # d
    BY Parts DEF Untouched
  <2> QED
    BY <1>1, <1>2, <2>1, <2>2, AddedWas, Parts
<1>9. m.to \in Server => Early(c) /\ NonePending(c) /\ StringsSized(c)
         /\ \A s \in Server : Busy(s) => client[s] # c
  <2> SUFFICES ASSUME m.to \in Server
               PROVE  Early(c) /\ NonePending(c) /\ StringsSized(c)
                         /\ \A s \in Server : Busy(s) => client[s] # c
    OBVIOUS
  <2>1. Early(c)
    BY DEF Early
  <2> QED
    BY <2>1, Parts DEF Untouched, NonePending, Pending, StringsSized
<1>10. \A d \in Client : Pending(d, m) => d = c /\ m.to \in Server
  BY Apart DEF Pending
<1>11. Once'
  <2> SUFFICES ASSUME NEW d \in Client
               PROVE  /\ OnePending(d)'
                      /\ (pc'[d] = "string" \/ \E s \in Server : AtNet(s, d)) => NonePending(d)'
                      /\ pc'[d] = "string" => \A s \in Server : ~AtNet(s, d)
    BY <1>4 DEF Once, AtNet
  <2>1. /\ OnePending(d)
        /\ (pc[d] = "string" \/ \E s \in Server : AtNet(s, d)) => NonePending(d)
        /\ pc[d] = "string" => \A s \in Server : ~AtNet(s, d)
    BY Parts DEF Once
  <2>2. /\ NonePending(d) \/ ~Pending(d, m) => OnePending(d)'
        /\ NonePending(d) /\ ~Pending(d, m) => NonePending(d)'
    BY <1>1, <1>2, <2>1, AddedPending, Parts
  <2>3. CASE Pending(d, m)
    <3>1. d = c /\ NonePending(c) /\ \A s \in Server : ~AtNet(s, c)
      BY <1>9, <1>10, <2>3 DEF AtNet, Busy
    <3> QED
      BY <1>3, <2>2, <3>1
  <2>4. CASE ~Pending(d, m)
    BY <1>3, <1>4, <2>1, <2>2, <2>4
  <2> QED
    BY <2>3, <2>4
<1>12. Ordered'
  <2> SUFFICES ASSUME NEW d \in Client, pc'[d] = "length"
               PROVE  /\ StringsSized(d)'
                      /\ \A s \in Server : pc[s] = "string" /\ client[s] = d =>
                            Sized(d, msg_q[s], Len(queues[msg_q[s]].msgs) + 1)'
    BY <1>4 DEF Ordered, Sized
  <2>1. /\ StringsSized(d)
        /\ \A s \in Server : pc[s] = "string" /\ client[s] = d =>
              Sized(d, msg_q[s], Len(queues[msg_q[s]].msgs) + 1)
    <3>1. CASE d # c
      BY <1>4, <3>1, Parts DEF Ordered
    <3>2. CASE d = c
      BY <1>3, <1>9, <3>2 DEF Busy
    <3> QED
      BY <3>1, <3>2
  <2>2. m.kind # "string" \/ m.to # d
    BY Apart
  <2>3. /\ StringsSized(d)'
        /\ \A q \in DOMAIN queues :
              Sized(d, q, Len(queues[q].msgs) + 1) => Sized(d, q, Len(queues[q].msgs) + 1)'
    BY <1>1, <1>2, <2>1, <2>2, AddedSized, Parts
  <2>4. \A s \in Server : pc[s] = "string" => msg_q[s] \in DOMAIN queues
    <3>1. \A s \in Server : pc[s] = "string" => msg_q[s] # 0 /\ msg_q[s] \in 0 .. Len(queues)
      BY Parts, Apart DEF TypeOK, Live
    <3> QED
      BY <3>1, Parts, Seqs DEF QueuesType
  <2> QED
    BY <2>1, <2>3, <2>4 DEF Sized
<1>13. TypeOK'
  <2>1. QueuesType' /\ \A q \in DOMAIN queues : queues'[q].live = queues[q].live
    BY <1>1, <1>2, AddedWas, Parts
  <2>2. \A s \in Server : pc[s] \in Serving =>
           msg_q[s] # 0 /\ msg_q[s] \in 0 .. Len(queues) /\ Live(msg_q[s])
    BY Parts, Apart DEF TypeOK, Live, Serving
  <2>3. DOMAIN queues = 1 .. Len(queues) /\ Len(queues) \in Nat
    BY Parts, Seqs DEF QueuesType
  <2>4. \A s \in Server : pc'[s] \in Serving => Live(msg_q[s])'
    BY <1>4, <2>1, <2>2, <2>3 DEF Live
  <2> QED
    BY <1>7, <2>1, <2>4, TypeAgain, Parts DEF TypeOK, File
<1>14. Paired' /\ RightReply'
  BY Parts DEF Paired, RightReply, history
<1> QED
  BY <1>5, <1>6, <1>7, <1>8, <1>11, <1>12, <1>13, <1>14 DEF IInv

LEMMA AskKeeps ==
    ASSUME IInv, IuctlAssumption, NEW c \in Client, ClientAsk(c)
    PROVE  IInv'
<1> DEFINE m == Message(server_pid[c], c, command[c])
<1>1. /\ pc[c] = "ask" /\ Sends(c, m)
      /\ UNCHANGED <<file, client, command, history, msg_q, server_pid>>
  BY DEF ClientAsk, InClient, history
<1>2. server_pid[c] \in Server /\ command[c] \in Commands
  BY <1>1, Parts DEF Places, TypeOK
<1>3. m \in Msg /\ m.to = server_pid[c] /\ m.from = c /\ Allowed(m) /\ m.to # c
  BY <1>2, Apart DEF Message, Msg, Kind, Allowed
<1>4. \E l \in {"status", "length", "address", "done"} :
         /\ Goto(c, l)
         /\ l = "status" => command[c] = "status"
         /\ l = "length" => command[c] = "net"
         /\ l = "address" => command[c] = "addr"
  BY <1>2 DEF ClientAsk, Commands
<1> HIDE DEF m
<1> QED
  BY <1>1, <1>2, <1>3, <1>4, ClientSends DEF ClientPC

LEMMA AddressKeeps ==
    ASSUME IInv, IuctlAssumption, NEW c \in Client, ClientAddress(c)
    PROVE  IInv'
<1> DEFINE m == Message(c, c, "address")
<1>1. /\ pc[c] = "address" /\ Sends(c, m) /\ Goto(c, "done")
      /\ UNCHANGED <<file, client, command, history, msg_q, server_pid>>
  BY DEF ClientAddress, InClient, history
<1>2. command[c] = "addr"
  BY <1>1, Parts DEF Commanded
<1>3. /\ m \in Msg /\ m.to = c /\ m.from = c /\ m.kind = "address" /\ Allowed(m)
      /\ m.to \notin Server
  BY <1>2, Apart DEF Message, Msg, Kind, Allowed
<1> HIDE DEF m
<1> QED
  BY <1>1, <1>3, ClientSends DEF ClientPC
-----------------------------------------------------------------------------
(***************************************************************************)
(* The invariant holds                                                     *)
(***************************************************************************)
LEMMA InitInv == IuctlAssumption /\ Init => IInv
<1> SUFFICES ASSUME IuctlAssumption, Init
             PROVE  IInv
  OBVIOUS
<1>1. /\ queues = << >> /\ DOMAIN queues = {} /\ Len(queues) = 0
      /\ file = NULL /\ read = {} /\ learned = {}
      /\ \A p \in Process : pc[p] \in {"off", "join"} /\ msg_q[p] = 0
      /\ DOMAIN pc = Process /\ DOMAIN msg_q = Process
      /\ \A s \in Server : pc[s] = "off"
      /\ \A c \in Client : pc[c] = "join"
      /\ client \in [Server -> Client \cup {NULL}]
      /\ server_pid \in [Client -> Server \cup {NULL}] /\ command \in [Client -> Commands]
  BY Apart DEF Init
<1>2. TypeOK
  BY <1>1 DEF TypeOK
<1>3. Places /\ OneServer
  BY <1>1 DEF Places, OneServer, ServerPC, ClientPC, Over
<1>4. Addressing /\ Commanded /\ Untouched
  BY <1>1 DEF Addressing, Commanded, Untouched, Busy
<1>5. Once /\ Ordered
  BY <1>1 DEF Once, OnePending, NonePending, AtNet, Ordered
<1>6. Paired /\ RightReply
  BY <1>1 DEF Paired, RightReply
<1> QED
  BY <1>2, <1>3, <1>4, <1>5, <1>6 DEF IInv

LEMMA StutterKeeps == ASSUME IInv, UNCHANGED vars PROVE IInv'
<1>1. UNCHANGED <<file, queues, pc, msg_q, client, server_pid, command, read, learned>>
  BY DEF vars, clientVars, history
<1>2. TypeOK' /\ Places' /\ OneServer'
  BY <1>1, Parts DEF TypeOK, Places, OneServer, Live
<1>3. Addressing' /\ Commanded' /\ Untouched'
  BY <1>1, Parts DEF Addressing, Allowed, Commanded, Busy, Untouched, Early
<1>4. Once' /\ Ordered'
  BY <1>1, Parts
     DEF Once, OnePending, NonePending, AtNet, Ordered, StringsSized, Sized
<1>5. Paired' /\ RightReply'
  BY <1>1, Parts DEF Paired, RightReply
<1> QED
  BY <1>2, <1>3, <1>4, <1>5 DEF IInv

LEMMA NextInv ==
    ASSUME IuctlAssumption, IInv, [Next]_vars
    PROVE  IInv'
<1>1. ASSUME NEW s \in Server, ServerStep(s) \/ ServerSignal(s)
      PROVE  IInv'
  <2>1. ServerStatus(s) \/ ServerNetLength(s) \/ ServerNetString(s) => IInv'
    BY ReplyKeeps DEF ServerStatus, ServerNetLength, ServerNetString
  <2> QED
    BY <1>1, <2>1, StartKeeps, WriteKeeps, MsggetKeeps, RequestKeeps, AddrKeeps, DestroyKeeps,
       UnlinkKeeps, SignalKeeps DEF ServerStep
<1>2. ASSUME NEW c \in Client, ClientStep(c)
      PROVE  IInv'
  BY <1>2, JoinKeeps, KillKeeps, ClientMsggetKeeps, AskKeeps, AddressKeeps, StatusKeeps,
     LengthKeeps, StringKeeps DEF ClientStep
<1>3. ASSUME NEW p \in Process, Die(p)
      PROVE  IInv'
  BY <1>3, DieKeeps
<1>4. CASE UNCHANGED vars
  BY <1>4, StutterKeeps
<1> QED
  BY <1>1, <1>2, <1>3, <1>4 DEF Next

\* The invariant holds in every reachable state.
THEOREM Invariant == Spec => []IInv
<1>1. Init => IInv
  BY IuctlAssumption, InitInv
<1>2. IInv /\ [Next]_vars => IInv'
  BY IuctlAssumption, NextInv
<1> QED
  BY <1>1, <1>2, PTL DEF Spec

\* Every variable keeps its type: a server that serves has a live queue, and the
\* one that handles a request knows whose it is.
THEOREM Types == Spec => []TypeOK
<1>1. IInv => TypeOK
  BY DEF IInv
<1> QED
  BY <1>1, Invariant, PTL

\* iuctl_server_addr: the address the server stores for a node is the one that was
\* sent with the node, whatever other clients send in between, and whoever is
\* killed, interrupted or restarted.
THEOREM AddressesPaired == Spec => []Paired
<1>1. IInv => Paired
  BY DEF IInv
<1> QED
  BY <1>1, Invariant, PTL

\* iuctl_server_status and iuctl_server_net against status_iuctl and net_iuctl: a
\* client receives what it waits for, the length before the string, or nothing.
THEOREM RepliesRight == Spec => []RightReply
<1>1. IInv => RightReply
  BY DEF IInv
<1> QED
  BY <1>1, Invariant, PTL
-----------------------------------------------------------------------------
(***************************************************************************)
(* What is left in the queues                                              *)
(***************************************************************************)
\* Of the messages in a set W there is none, or at most one.
NoneOf(W) == \A q \in DOMAIN queues : \A i \in DOMAIN queues[q].msgs : queues[q].msgs[i] \notin W
AtMostOne(W) ==
    \A q, r \in DOMAIN queues :
        \A i \in DOMAIN queues[q].msgs, j \in DOMAIN queues[r].msgs :
            queues[q].msgs[i] \in W /\ queues[r].msgs[j] \in W => q = r /\ i = j

\* The messages of a client's command: the request, all, the request and the message
\* that ends the command, and the address the client sends.
Request(c) == {m \in Msg : m.to \in Server /\ m.from = c}
About(c) == Request(c) \cup {m \in Msg : m.to = c}
Closing(c) == Request(c) \cup {m \in Msg : m.to = c /\ m.kind \in {"status", "string"}}
Own(c) == {m \in Msg : m.to = c /\ m.kind = "address"}

\* They are all in one queue, the client's and that of the server that handles them.
HomedAt(c) ==
    \A q \in DOMAIN queues : \A i \in DOMAIN queues[q].msgs :
        queues[q].msgs[i] \in About(c) => q = msg_q[c]
ServerHome(s) ==
    client[s] \in Client =>
        /\ msg_q[s] = msg_q[client[s]] /\ ~Early(client[s])
        /\ pc[s] \notin {"off", "write", "msgget"}

\* A queue that is removed is empty.
Emptied == \A q \in DOMAIN queues : \A i \in DOMAIN queues[q].msgs : queues[q].live

\* One message closes a command, and one carries the address.
Attended(c) == \E s \in Server : Busy(s) /\ client[s] = c
SingleAt(c) ==
    /\ AtMostOne(Closing(c)) /\ AtMostOne(Own(c))
    /\ Attended(c) => NoneOf(Closing(c))
    /\ pc[c] = "address" => NoneOf(Own(c))

\* What is over leaves nothing, but an address that is still to be read.
Closed(c) == ~Live(msg_q[c])
FinishedAt(c) ==
    pc[c] \in Over /\ command[c] \in {"status", "net"} =>
        Closed(c) \/ (NoneOf(About(c)) /\ ~Attended(c))
Awaited(c) == \E s \in Server : pc[s] \in {"addr", "shutdown"} /\ client[s] = c
AwaitedAt(c) ==
    pc[c] = "address" \/ ~NoneOf(Own(c)) => Closed(c) \/ Awaited(c) \/ ~NoneOf(Request(c))

TidyAt(c) == HomedAt(c) /\ SingleAt(c) /\ FinishedAt(c) /\ AwaitedAt(c)
Tidy == Emptied /\ (\A s \in Server : ServerHome(s)) /\ (\A c \in Client : TidyAt(c))

LEMMA Sets ==
    ASSUME IuctlAssumption, NEW c \in Client
    PROVE  /\ About(c) \in SUBSET Msg /\ Closing(c) \in SUBSET Msg /\ Own(c) \in SUBSET Msg
           /\ Request(c) \in SUBSET Closing(c) /\ Closing(c) \in SUBSET About(c)
           /\ Own(c) \in SUBSET About(c) /\ Request(c) \cap Own(c) = {}
  BY Apart DEF About, Closing, Own, Request

LEMMA NoneLess == ASSUME NEW V, NEW W, V \subseteq W, NoneOf(W) PROVE NoneOf(V)
  BY DEF NoneOf

LEMMA NoneOne == ASSUME NEW W, NoneOf(W) PROVE AtMostOne(W)
  BY DEF NoneOf, AtMostOne

\* The part a client has taken before it asks.
LEMMA EarlyNone ==
    ASSUME IInv, NEW c \in Client, Early(c)
    PROVE  NoneOf(About(c)) /\ ~Attended(c)
  BY Parts DEF Untouched, NoneOf, About, Request, Attended

\* A queue that was closed stays closed.
LEMMA ClosedStays ==
    ASSUME QueuesType, IuctlAssumption, NEW c \in Client, Closed(c), msg_q'[c] = msg_q[c],
           \A q \in DOMAIN queues : queues'[q].live => queues[q].live
    PROVE  Closed(c)'
<1>1. msg_q[c] # 0 => msg_q[c] \in DOMAIN queues
  BY Apart, Seqs DEF QueuesType
<1> QED
  BY <1>1 DEF Closed, Live

\* In a queue that lives the client's messages are where the client is.
LEMMA ClosedNone ==
    ASSUME IInv, IuctlAssumption, Tidy, NEW c \in Client, Closed(c)
    PROVE  NoneOf(About(c))
<1> SUFFICES ASSUME NEW q \in DOMAIN queues, NEW i \in DOMAIN queues[q].msgs,
                    queues[q].msgs[i] \in About(c)
             PROVE  FALSE
  BY DEF NoneOf
<1>1. q = msg_q[c] /\ queues[q].live
  BY DEF Tidy, TidyAt, HomedAt, Emptied
<1>2. q # 0
  BY Parts, Seqs DEF QueuesType
<1> QED
  BY <1>1, <1>2 DEF Closed, Live
-----------------------------------------------------------------------------
(***************************************************************************)
(* The messages of a set after a system call                               *)
(***************************************************************************)
OnlyOld ==
    \A q \in DOMAIN queues' : \A i \in DOMAIN queues'[q].msgs :
        /\ q \in DOMAIN queues
        /\ \E k \in DOMAIN queues[q].msgs : queues'[q].msgs[i] = queues[q].msgs[k]

LEMMA OldNone == ASSUME OnlyOld, NEW W, NoneOf(W) PROVE NoneOf(W)'
  BY DEF OnlyOld, NoneOf

LEMMA OldHomed ==
    ASSUME OnlyOld, NEW c, HomedAt(c), msg_q'[c] = msg_q[c] \/ NoneOf(About(c))
    PROVE  HomedAt(c)'
<1>1. CASE NoneOf(About(c))
  <2>1. NoneOf(About(c))'
    BY <1>1, OldNone
  <2> QED
    BY <2>1 DEF NoneOf, HomedAt, About, Request
<1>2. CASE msg_q'[c] = msg_q[c]
  BY <1>2 DEF OnlyOld, HomedAt, About, Request
<1> QED
  BY <1>1, <1>2

LEMMA TakenSets ==
    ASSUME QueuesType, NEW p \in Process, NEW type, Taken(p, type), NEW W
    PROVE  /\ AtMostOne(W) => AtMostOne(W)'
           /\ AtMostOne(W) /\ Received(p, type) \in W => NoneOf(W)'
           /\ ~NoneOf(W) /\ Received(p, type) \notin W => ~NoneOf(W)'
           /\ Received(p, type) \in W => ~NoneOf(W)
<1> DEFINE q0 == msg_q[p]
<1>1. PICK i0 \in DOMAIN queues[q0].msgs :
         /\ queues[q0].msgs[i0] = Received(p, type) /\ q0 \in DOMAIN queues
         /\ DOMAIN queues' = DOMAIN queues
         /\ \A q \in DOMAIN queues : \A i \in DOMAIN queues'[q].msgs :
               /\ i \in Nat /\ Place(q, i, q0, i0) \in DOMAIN queues[q].msgs
               /\ queues'[q].msgs[i] = queues[q].msgs[Place(q, i, q0, i0)]
         /\ \A q \in DOMAIN queues : \A k \in DOMAIN queues[q].msgs : ~(q = q0 /\ k = i0) =>
               \E i \in DOMAIN queues'[q].msgs : k = Place(q, i, q0, i0)
  BY DEF Taken
<1>2. i0 \in Nat
  BY <1>1, QueueType
<1>3. AtMostOne(W) => AtMostOne(W)'
  BY <1>1, <1>2, PlaceOrder DEF AtMostOne
<1>4. ASSUME AtMostOne(W), Received(p, type) \in W
      PROVE  NoneOf(W)'
  <2> SUFFICES ASSUME NEW q \in DOMAIN queues, NEW i \in DOMAIN queues'[q].msgs
               PROVE  queues'[q].msgs[i] \notin W
    BY <1>1 DEF NoneOf
  <2>1. ~(q = q0 /\ Place(q, i, q0, i0) = i0)
    BY <1>1, <1>2, PlaceOrder
  <2> QED
    BY <1>1, <1>4, <2>1 DEF AtMostOne
<1>5. ASSUME ~NoneOf(W), Received(p, type) \notin W
      PROVE  ~NoneOf(W)'
  <2>0. PICK q \in DOMAIN queues : \E k \in DOMAIN queues[q].msgs : queues[q].msgs[k] \in W
    BY <1>5 DEF NoneOf
  <2>1. PICK k \in DOMAIN queues[q].msgs : queues[q].msgs[k] \in W
    BY <2>0
  <2>2. ~(q = q0 /\ k = i0)
    BY <1>1, <1>5, <2>1
  <2>3. PICK i \in DOMAIN queues'[q].msgs : k = Place(q, i, q0, i0)
    BY <1>1, <2>2
  <2>4. queues'[q].msgs[i] \in W
    BY <1>1, <2>1, <2>3
  <2> QED
    BY <1>1, <2>4 DEF NoneOf
<1>6. Received(p, type) \in W => ~NoneOf(W)
  BY <1>1 DEF NoneOf
<1> QED
  BY <1>3, <1>4, <1>5, <1>6

LEMMA TakenOld ==
    ASSUME QueuesType, NEW p \in Process, NEW type, Taken(p, type)
    PROVE  /\ OnlyOld /\ (Emptied => Emptied')
           /\ \A q \in DOMAIN queues : queues'[q].live => queues[q].live
  BY TakenWas DEF OnlyOld, Emptied

LEMMA AddedSets ==
    ASSUME QueuesType, NEW p \in Process, NEW m, Added(p, m), NEW W
    PROVE  /\ NoneOf(W) /\ m \notin W => NoneOf(W)'
           /\ AtMostOne(W) /\ (NoneOf(W) \/ m \notin W) => AtMostOne(W)'
           /\ ~NoneOf(W) => ~NoneOf(W)'
  BY AddedWas DEF NoneOf, AtMostOne

LEMMA AddedHomed ==
    ASSUME QueuesType, NEW p \in Process, NEW m, Added(p, m), UNCHANGED msg_q,
           NEW c, HomedAt(c), m \in About(c) => msg_q[p] = msg_q[c]
    PROVE  HomedAt(c)'
  BY AddedWas DEF HomedAt, About, Request

LEMMA SendsEmptied ==
    ASSUME QueuesType, NEW p \in Process, NEW m, Sends(p, m), Added(p, m), Emptied
    PROVE  Emptied' /\ \A q \in DOMAIN queues : queues'[q].live => queues[q].live
<1>1. CASE ~Live(msg_q[p])
  BY <1>1 DEF Sends, Emptied
<1>2. CASE Live(msg_q[p])
  BY <1>2, AddedWas DEF Emptied, Live
<1> QED
  BY <1>1, <1>2
-----------------------------------------------------------------------------
(***************************************************************************)
(* What each step leaves in the queues                                     *)
(***************************************************************************)
\* A queue stays as it is or is emptied, and is then no longer live.
KeptOrRemoved ==
    \A q \in DOMAIN queues' :
        \/ queues'[q].msgs = << >>
        \/ q \in DOMAIN queues /\ queues'[q].msgs = queues[q].msgs

LEMMA QuietSets ==
    ASSUME KeptOrRemoved
    PROVE  OnlyOld /\ \A W : AtMostOne(W) => AtMostOne(W)'
<1>1. \A q \in DOMAIN queues' : \A i \in DOMAIN queues'[q].msgs :
         q \in DOMAIN queues /\ queues'[q].msgs = queues[q].msgs
  BY DEF KeptOrRemoved
<1>2. OnlyOld
  BY <1>1 DEF OnlyOld
<1>3. ASSUME NEW W, AtMostOne(W)
      PROVE  AtMostOne(W)'
  BY <1>1, <1>3 DEF AtMostOne
<1> QED
  BY <1>2, <1>3

\* Steps that send nothing and receive nothing.
LEMMA QuietTidy ==
    ASSUME IInv, IuctlAssumption, Tidy, KeptOrRemoved, UNCHANGED <<client, command>>,
           \A q \in DOMAIN queues : queues'[q].live => queues[q].live,
           \A q \in DOMAIN queues : queues'[q].msgs # queues[q].msgs => ~queues'[q].live,
           DOMAIN queues \subseteq DOMAIN queues', Emptied',
           \A c \in Client :
              \/ pc'[c] = pc[c]
              \/ Early(c) /\ pc'[c] \in {"kill", "msgget", "ask", "failed"}
              \/ Closed(c) /\ pc'[c] \in {"done", "undefined"},
           \A c \in Client : msg_q'[c] = msg_q[c] \/ (Early(c) /\ \A o \in Server : client[o] # c),
           \A s \in Server : client[s] \in Client =>
              msg_q'[s] = msg_q[s] /\ pc'[s] \notin {"off", "write", "msgget"},
           \A s \in Server : Busy(s)' => Busy(s),
           \A s \in Server : pc[s] \in {"addr", "shutdown"} =>
              pc'[s] \in {"addr", "shutdown"} \/ ~Live(msg_q[s])'
    PROVE  Tidy'
<1>1. OnlyOld /\ (\A W : AtMostOne(W) => AtMostOne(W)') /\ QueuesType
  BY QuietSets, Parts
<1>2. ASSUME NEW s \in Server
      PROVE  ServerHome(s)'
  <2>1. ServerHome(s)
    BY DEF Tidy
  <2>2. ASSUME client[s] \in Client
        PROVE  msg_q'[client[s]] = msg_q[client[s]] /\ ~Early(client[s])'
    BY <2>1, <2>2 DEF ServerHome, Early
  <2> QED
    BY <2>1, <2>2 DEF ServerHome
<1>3. ASSUME NEW c \in Client
      PROVE  TidyAt(c)'
  <2>1. TidyAt(c) /\ About(c) \in SUBSET Msg /\ Request(c) \subseteq Closing(c)
        /\ Closing(c) \subseteq About(c) /\ Own(c) \subseteq About(c)
    BY Sets DEF Tidy
  <2>2. Early(c) => NoneOf(About(c)) /\ NoneOf(About(c))' /\ ~Attended(c)
    BY <1>1, EarlyNone, OldNone
  <2>3. Attended(c)' => Attended(c)
    BY DEF Attended
  <2>4. HomedAt(c)'
    BY <1>1, <2>1, <2>2, OldHomed DEF TidyAt
  <2>5. Closed(c) /\ ~Early(c) => Closed(c)'
    BY <1>1, ClosedStays
  <2>6. \A W : NoneOf(W) => NoneOf(W)'
    BY <1>1, OldNone
  <2>7. pc'[c] = "address" => pc[c] = "address"
    OBVIOUS
  <2>8. SingleAt(c)'
    BY <1>1, <2>1, <2>3, <2>6, <2>7 DEF TidyAt, SingleAt
  <2>9. FinishedAt(c)'
    <3>1. CASE pc'[c] = pc[c] /\ ~Early(c)
      BY <2>1, <2>3, <2>5, <2>6, <3>1 DEF TidyAt, FinishedAt
    <3>2. CASE Early(c)
      BY <2>2, <2>3, <3>2 DEF FinishedAt
    <3>3. CASE Closed(c) /\ ~Early(c)
      BY <2>5, <3>3 DEF FinishedAt
    <3> QED
      BY <3>1, <3>2, <3>3
  <2>10. AwaitedAt(c)'
    <3> SUFFICES ASSUME (pc[c] = "address" \/ ~NoneOf(Own(c))), ~Closed(c)'
                 PROVE  Awaited(c)' \/ ~NoneOf(Request(c))'
      BY <2>6, <2>7 DEF AwaitedAt
    <3>1. ~Early(c)
      BY <2>1, <2>2, NoneLess DEF Early
    <3>2. ~Closed(c) /\ (Awaited(c) \/ ~NoneOf(Request(c)))
      BY <2>1, <2>5, <3>1 DEF TidyAt, AwaitedAt
    <3>3. msg_q'[c] = msg_q[c] /\ msg_q[c] \in DOMAIN queues /\ msg_q[c] # 0
      BY <1>1, <3>1, <3>2, Apart, Seqs DEF QueuesType, Closed, Live
    <3>4. queues'[msg_q[c]].live
      BY <3>3 DEF Closed, Live
    <3>5. CASE Awaited(c)
      <4>1. PICK s \in Server : pc[s] \in {"addr", "shutdown"} /\ client[s] = c
        BY <3>5 DEF Awaited
      <4>2. msg_q'[s] = msg_q[c]
        BY <4>1 DEF Tidy, ServerHome
      <4>3. Live(msg_q[s])'
        BY <3>3, <3>4, <4>2 DEF Live
      <4> QED
        BY <4>1, <4>3 DEF Awaited
    <3>6. CASE ~NoneOf(Request(c))
      <4>1. PICK q \in DOMAIN queues : \E i \in DOMAIN queues[q].msgs :
               queues[q].msgs[i] \in Request(c)
        BY <3>6 DEF NoneOf
      <4>2. q = msg_q[c]
        BY <2>1, <4>1 DEF TidyAt, HomedAt
      <4>3. queues'[q].msgs = queues[q].msgs
        BY <3>4, <4>2
      <4> QED
        BY <4>1, <4>3 DEF NoneOf
    <3> QED
      BY <3>2, <3>5, <3>6
  <2> QED
    BY <2>4, <2>8, <2>9, <2>10 DEF TidyAt
<1> QED
  BY <1>2, <1>3 DEF Tidy

\* A step of a server that leaves the queues alone.
LEMMA ServerTidy ==
    ASSUME IInv, IuctlAssumption, Tidy, NEW s \in Server, NEW l, Goto(s, l),
           UNCHANGED <<queues, msg_q, client, command>>,
           l \notin {"status", "net", "string", "addr"},
           client[s] \in Client => l \notin {"off", "write", "msgget"},
           pc[s] \in {"addr", "shutdown"} => l \in {"addr", "shutdown"} \/ ~Live(msg_q[s])
    PROVE  Tidy'
<1>1. s \in Process /\ s \notin Client /\ QueuesType
  BY Parts, Apart
<1>2. /\ DOMAIN pc' = Process /\ pc'[s] = l /\ \A o \in Process : o # s => pc'[o] = pc[o]
  BY <1>1, Moved, Parts
<1>3. KeptOrRemoved /\ Emptied'
  BY DEF KeptOrRemoved, Tidy, Emptied
<1>4. \A c \in Client : pc'[c] = pc[c]
  BY <1>1, <1>2, Apart
<1>5. \A o \in Server : Busy(o)' => Busy(o)
  BY <1>2, Apart DEF Busy
<1>6. \A o \in Server : client[o] \in Client => pc'[o] \notin {"off", "write", "msgget"}
  BY <1>2, Apart DEF Tidy, ServerHome
<1>7. \A o \in Server : Live(msg_q[o])' = Live(msg_q[o])
  BY DEF Live
<1>8. \A o \in Server : pc[o] \in {"addr", "shutdown"} =>
         pc'[o] \in {"addr", "shutdown"} \/ ~Live(msg_q[o])'
  BY <1>2, <1>7, Apart
<1> QED
  BY <1>3, <1>4, <1>5, <1>6, <1>8, QuietTidy

LEMMA QuietServerTidy ==
    ASSUME IInv, IuctlAssumption, Tidy, NEW s \in Server,
           ServerStart(s) \/ ServerWrite(s) \/ ServerUnlink(s) \/ ServerSignal(s)
    PROVE  Tidy'
<1>1. client[s] \in Client => pc[s] \notin {"off", "write", "msgget"}
  BY DEF Tidy, ServerHome
<1>2. CASE ServerStart(s)
  <2>1. pc[s] = "off" /\ Goto(s, "write") /\ UNCHANGED <<queues, msg_q, client, command>>
    BY <1>2 DEF ServerStart, InServer, clientVars
  <2> QED
    BY <1>1, <2>1, ServerTidy
<1>3. CASE ServerWrite(s)
  <2>1. pc[s] = "write" /\ Goto(s, "msgget") /\ UNCHANGED <<queues, msg_q, client, command>>
    BY <1>3 DEF ServerWrite, InServer, clientVars
  <2> QED
    BY <1>1, <2>1, ServerTidy
<1>4. CASE ServerUnlink(s)
  <2>1. pc[s] = "unlink" /\ Goto(s, "ended") /\ UNCHANGED <<queues, msg_q, client, command>>
    BY <1>4 DEF ServerUnlink, InServer, clientVars
  <2> QED
    BY <2>1, ServerTidy
<1>5. CASE ServerSignal(s)
  <2>1. Goto(s, "shutdown") /\ UNCHANGED <<queues, msg_q, client, command>>
    BY <1>5 DEF ServerSignal, clientVars
  <2> QED
    BY <2>1, ServerTidy
<1> QED
  BY <1>2, <1>3, <1>4, <1>5

LEMMA MsggetTidy ==
    ASSUME IInv, IuctlAssumption, Tidy, NEW s \in Server, ServerMsgget(s)
    PROVE  Tidy'
<1>1. /\ pc[s] = "msgget" /\ Goto(s, "loop") /\ UNCHANGED <<client, command>>
      /\ s \in Process /\ s \notin Client /\ QueuesType /\ client[s] \notin Client
      /\ DOMAIN msg_q = Process /\ file \in File
  BY Parts, Apart DEF ServerMsgget, InServer, clientVars, Tidy, ServerHome, Places, OneServer
<1>2. /\ DOMAIN pc' = Process /\ pc'[s] = "loop" /\ \A o \in Process : o # s => pc'[o] = pc[o]
  BY <1>1, Moved, Parts
<1>3. DOMAIN queues = 1 .. Len(queues) /\ Len(queues) \in Nat
  BY <1>1, Seqs DEF QueuesType
<1>4. /\ \A o \in Process : o # s => msg_q'[o] = msg_q[o]
      /\ DOMAIN queues \subseteq DOMAIN queues'
      /\ \A q \in DOMAIN queues : queues'[q] = queues[q]
      /\ \A q \in DOMAIN queues' : q \in DOMAIN queues \/ queues'[q].msgs = << >>
  <2>1. CASE Found # {}
    BY <1>1, <2>1 DEF ServerMsgget
  <2>2. CASE Found = {}
    <3> DEFINE new == [inode |-> file.inode, msgs |-> << >>, live |-> TRUE]
    <3>1. /\ queues' = Append(queues, new)
          /\ msg_q' = [msg_q EXCEPT ![s] = Len(queues) + 1]
      BY <2>2 DEF ServerMsgget
    <3>2. new \in Queue /\ new.msgs = << >>
      BY <1>1 DEF Queue, File
    <3> HIDE DEF new
    <3>3. /\ DOMAIN queues' = 1 .. Len(queues) + 1
          /\ \A q \in 1 .. Len(queues) : queues'[q] = queues[q]
          /\ queues'[Len(queues) + 1] = new
      BY <1>1, <3>1, <3>2, AppendOf DEF QueuesType
    <3> QED
      BY <1>1, <1>3, <3>1, <3>2, <3>3
  <2> QED
    BY <2>1, <2>2
<1>5. KeptOrRemoved /\ Emptied'
  BY <1>4 DEF KeptOrRemoved, Tidy, Emptied
<1>6. \A c \in Client : pc'[c] = pc[c] /\ msg_q'[c] = msg_q[c]
  BY <1>1, <1>2, <1>4, Apart
<1>7. \A o \in Server :
         /\ Busy(o)' => Busy(o)
         /\ client[o] \in Client =>
               msg_q'[o] = msg_q[o] /\ pc'[o] \notin {"off", "write", "msgget"}
         /\ pc[o] \in {"addr", "shutdown"} => pc'[o] \in {"addr", "shutdown"}
  BY <1>1, <1>2, <1>4, Apart DEF Busy, Tidy, ServerHome
<1> QED
  BY <1>1, <1>4, <1>5, <1>6, <1>7, QuietTidy

LEMMA DestroyTidy ==
    ASSUME IInv, IuctlAssumption, Tidy, NEW s \in Server, ServerDestroy(s)
    PROVE  Tidy'
<1> DEFINE q0 == msg_q[s]
           k == [queues[q0] EXCEPT !.live = FALSE, !.msgs = << >>]
<1>1. /\ pc[s] = "shutdown" /\ Goto(s, "unlink") /\ UNCHANGED <<msg_q, client, command>>
      /\ queues' = [queues EXCEPT ![q0].live = FALSE, ![q0].msgs = << >>]
      /\ s \in Process /\ s \notin Client /\ QueuesType
  BY Parts, Apart DEF ServerDestroy, InServer, clientVars
<1>2. q0 \in DOMAIN queues
  <2>1. q0 # 0
    BY <1>1, Parts DEF TypeOK, Live
  <2> QED
    BY <1>1, <2>1, Seqs DEF QueuesType
<1>3. queues[q0] \in Queue
  BY <1>1, <1>2, QueueType
<1>4. queues' = [queues EXCEPT ![q0] = k]
  BY <1>1, <1>2 DEF QueuesType
<1>5. k.msgs = << >> /\ k.live = FALSE
  BY <1>3 DEF Queue
<1> HIDE DEF k
<1>6. /\ DOMAIN queues' = DOMAIN queues /\ queues'[q0] = k
      /\ \A q \in DOMAIN queues : q # q0 => queues'[q] = queues[q]
  BY <1>1, <1>2, <1>4 DEF QueuesType
<1>7. /\ DOMAIN pc' = Process /\ pc'[s] = "unlink" /\ \A o \in Process : o # s => pc'[o] = pc[o]
  BY <1>1, Moved, Parts
<1>8. KeptOrRemoved /\ Emptied'
  BY <1>5, <1>6 DEF KeptOrRemoved, Tidy, Emptied
<1>9. /\ \A q \in DOMAIN queues : queues'[q].live => queues[q].live
      /\ \A q \in DOMAIN queues : queues'[q].msgs # queues[q].msgs => ~queues'[q].live
  BY <1>5, <1>6
<1>10. \A c \in Client : pc'[c] = pc[c]
  BY <1>1, <1>7, Apart
<1>11. ~Live(msg_q[s])'
  BY <1>1, <1>5, <1>6 DEF Live
<1>12. \A o \in Server :
         /\ Busy(o)' => Busy(o)
         /\ client[o] \in Client => pc'[o] \notin {"off", "write", "msgget"}
         /\ pc[o] \in {"addr", "shutdown"} =>
               pc'[o] \in {"addr", "shutdown"} \/ ~Live(msg_q[o])'
  BY <1>7, <1>11, Apart DEF Busy, Tidy, ServerHome
<1> QED
  BY <1>1, <1>6, <1>8, <1>9, <1>10, <1>12, QuietTidy

\* A step of a client that leaves the queues alone.
LEMMA ClientTidy ==
    ASSUME IInv, IuctlAssumption, Tidy, NEW c \in Client, NEW l, Goto(c, l),
           UNCHANGED <<queues, client, command>>,
           \/ Early(c) /\ l \in {"kill", "msgget", "ask", "failed"}
           \/ Closed(c) /\ l \in {"done", "undefined"},
           msg_q'[c] = msg_q[c] \/ Early(c),
           \A o \in Process : o # c => msg_q'[o] = msg_q[o]
    PROVE  Tidy'
<1>1. c \in Process /\ c \notin Server
  BY Apart
<1>2. /\ DOMAIN pc' = Process /\ pc'[c] = l /\ \A o \in Process : o # c => pc'[o] = pc[o]
  BY <1>1, Moved, Parts
<1>3. KeptOrRemoved /\ Emptied'
  BY DEF KeptOrRemoved, Tidy, Emptied
<1>4. \A o \in Server : pc'[o] = pc[o] /\ msg_q'[o] = msg_q[o]
  BY <1>1, <1>2, Apart
<1>5. \A o \in Server :
         /\ Busy(o)' => Busy(o)
         /\ client[o] \in Client => pc'[o] \notin {"off", "write", "msgget"}
         /\ pc[o] \in {"addr", "shutdown"} => pc'[o] \in {"addr", "shutdown"}
  BY <1>4 DEF Busy, Tidy, ServerHome
<1>6. Early(c) => \A o \in Server : client[o] # c
  BY DEF Tidy, ServerHome
<1>7. \A d \in Client :
         /\ \/ pc'[d] = pc[d]
            \/ Early(d) /\ pc'[d] \in {"kill", "msgget", "ask", "failed"}
            \/ Closed(d) /\ pc'[d] \in {"done", "undefined"}
         /\ msg_q'[d] = msg_q[d] \/ (Early(d) /\ \A o \in Server : client[o] # d)
  BY <1>2, <1>6, Apart
<1> QED
  BY <1>3, <1>4, <1>5, <1>7, QuietTidy

LEMMA QuietClientTidy ==
    ASSUME IInv, IuctlAssumption, Tidy, NEW c \in Client,
           ClientJoin(c) \/ ClientKill(c) \/ ClientMsgget(c)
    PROVE  Tidy'
<1>1. CASE ClientJoin(c) \/ ClientKill(c)
  <2>1. /\ Early(c) /\ UNCHANGED <<queues, client, command, msg_q>>
        /\ \E l \in {"kill", "msgget", "failed"} : Goto(c, l)
    BY <1>1 DEF ClientJoin, ClientKill, InClient, Early
  <2>2. PICK l \in {"kill", "msgget", "failed"} : Goto(c, l)
    BY <2>1
  <2> QED
    BY <2>1, <2>2, ClientTidy
<1>2. CASE ClientMsgget(c)
  <2>1. /\ Early(c) /\ UNCHANGED <<queues, client, command>>
        /\ \E l \in {"ask", "failed"} : Goto(c, l)
        /\ \A o \in Process : o # c => msg_q'[o] = msg_q[o]
    BY <1>2, Parts DEF ClientMsgget, InClient, Early, Places
  <2>2. PICK l \in {"ask", "failed"} : Goto(c, l)
    BY <2>1
  <2> QED
    BY <2>1, <2>2, ClientTidy
<1> QED
  BY <1>1, <1>2

\* Steps that take a message from a queue and leave the client's own state.
LEMMA RequestTidy ==
    ASSUME IInv, IuctlAssumption, Tidy, NEW s \in Server, ServerRequest(s)
    PROVE  Tidy'
<1> DEFINE m == Received(s, s)
<1>1. /\ pc[s] = "loop" /\ Receives(s, s) /\ client' = [client EXCEPT ![s] = m.from]
      /\ Goto(s, m.kind) /\ UNCHANGED <<msg_q, command>>
      /\ s \in Process /\ s \notin Client /\ QueuesType
  BY Parts, Apart DEF ServerRequest, InServer, clientVars
<1>2. Taken(s, s)
  BY <1>1, ReceivesTakes, Apart
<1> HIDE DEF m
<1>3. m.to = s /\ Allowed(m) /\ m \in Msg
  BY <1>1, <1>2, TakenMessages, TakenWas DEF m
<1>4. m.from \in Client /\ m.kind = command[m.from] /\ m.kind \in Commands
  BY <1>1, <1>3, Parts DEF Allowed, TypeOK
<1>5. DOMAIN pc' = Process /\ pc'[s] = m.kind /\ \A o \in Process : o # s => pc'[o] = pc[o]
  BY <1>1, Moved, Parts
<1>6. client'[s] = m.from /\ \A o \in Server : o # s => client'[o] = client[o]
  BY <1>1, Parts DEF Places
<1>7. \A o \in Server \ {s} : pc[o] \in Over
  BY <1>1, OthersOver DEF Over
<1>8. OnlyOld /\ Emptied' /\ \A q \in DOMAIN queues : queues'[q].live => queues[q].live
  BY <1>1, <1>2, TakenOld DEF Tidy
<1>9. m \in Request(m.from) /\ m \in About(m.from) /\ ~Early(m.from) /\ msg_q[s] = msg_q[m.from]
  <2>1. m \in Request(m.from) /\ m \in About(m.from)
    BY <1>3, <1>4 DEF Request, About
  <2>2. msg_q[s] = msg_q[m.from]
    BY <1>1, <1>2, <1>4, <2>1, TakenWas DEF Tidy, TidyAt, HomedAt, m
  <2>3. ~NoneOf(About(m.from))
    BY <1>1, <1>2, <2>1, TakenSets DEF m
  <2> QED
    BY <1>4, <2>1, <2>2, <2>3, EarlyNone
<1>10. \A c \in Client : pc'[c] = pc[c]
  BY <1>1, <1>5, Apart
<1>11. ASSUME NEW o \in Server
       PROVE  ServerHome(o)'
  <2>1. CASE o = s
    <3>1. m.kind \notin {"off", "write", "msgget"}
      BY <1>4 DEF Commands
    <3> QED
      BY <1>1, <1>4, <1>5, <1>6, <1>9, <1>10, <2>1, <3>1 DEF ServerHome, Early
  <2>2. CASE o # s
    <3>1. ServerHome(o) /\ client'[o] = client[o] /\ pc'[o] = pc[o]
      BY <1>5, <1>6, <2>2, Apart DEF Tidy
    <3> QED
      BY <1>1, <1>10, <3>1 DEF ServerHome, Early
  <2> QED
    BY <2>1, <2>2
<1>12. ASSUME NEW c \in Client
       PROVE  TidyAt(c)'
  <2>1. TidyAt(c) /\ About(c) \in SUBSET Msg /\ Request(c) \subseteq Closing(c)
        /\ Closing(c) \subseteq About(c) /\ Own(c) \subseteq About(c)
    BY Sets DEF Tidy
  <2>2. \A W : /\ NoneOf(W) => NoneOf(W)'
               /\ AtMostOne(W) => AtMostOne(W)'
               /\ AtMostOne(W) /\ m \in W => NoneOf(W)'
               /\ ~NoneOf(W) /\ m \notin W => ~NoneOf(W)'
               /\ m \in W => ~NoneOf(W)
    BY <1>1, <1>2, <1>8, OldNone, TakenSets DEF m
  <2>3. HomedAt(c)'
    BY <1>1, <1>8, <2>1, OldHomed DEF TidyAt
  <2>4. Closed(c) => Closed(c)'
    BY <1>1, <1>8, ClosedStays
  <2>5. Attended(c)' => c = m.from
    BY <1>5, <1>6, <1>7, Apart DEF Attended, Busy, Over
  <2>6. c = m.from => m \in Closing(c) /\ m \in About(c) /\ m \in Request(c)
    BY <1>9, <2>1
  <2>7. SingleAt(c)'
    BY <1>10, <2>1, <2>2, <2>5, <2>6 DEF TidyAt, SingleAt
  <2>8. FinishedAt(c)'
    BY <1>1, <1>10, <2>1, <2>2, <2>4, <2>5, <2>6 DEF TidyAt, FinishedAt
  <2>9. AwaitedAt(c)'
    <3>1. CASE c = m.from
      <4>1. pc[c] = "address" \/ ~NoneOf(Own(c)) => command[c] = "addr"
        <5>1. pc[c] = "address" => command[c] = "addr"
          BY Parts DEF Commanded
        <5>2. ASSUME NEW n \in Own(c), Allowed(n)
              PROVE  command[c] = "addr"
          BY <5>2, Apart, Parts DEF Own, Allowed, TypeOK, Commands
        <5>3. ~NoneOf(Own(c)) => \E n \in Own(c) : Allowed(n)
          BY Parts DEF NoneOf, Addressing
        <5> QED
          BY <5>1, <5>2, <5>3
      <4>2. command[c] = "addr" => Awaited(c)'
        BY <1>4, <1>5, <1>6, <3>1 DEF Awaited
      <4> QED
        BY <1>10, <2>2, <4>1, <4>2 DEF AwaitedAt
    <3>2. CASE c # m.from
      <4>1. m \notin Request(c)
        BY <3>2 DEF Request
      <4>2. Awaited(c) => Awaited(c)'
        BY <1>1, <1>7 DEF Awaited, Over
      <4> QED
        BY <1>10, <2>1, <2>2, <2>4, <4>1, <4>2 DEF TidyAt, AwaitedAt
    <3> QED
      BY <3>1, <3>2
  <2> QED
    BY <2>3, <2>7, <2>8, <2>9 DEF TidyAt
<1> QED
  BY <1>8, <1>11, <1>12 DEF Tidy

\* The address is read: there was one.
LEMMA AddrTidy ==
    ASSUME IInv, IuctlAssumption, Tidy, NEW s \in Server, ServerAddr(s)
    PROVE  Tidy'
<1> DEFINE c0 == client[s]
           m == Received(s, c0)
<1>1. /\ pc[s] = "addr" /\ Receives(s, c0) /\ Goto(s, "loop")
      /\ UNCHANGED <<msg_q, client, command>>
      /\ s \in Process /\ s \notin Client /\ QueuesType
  BY Parts, Apart DEF ServerAddr, InServer, clientVars, AddrType
<1>2. c0 \in Client /\ command[c0] = "addr"
  BY <1>1, Parts DEF Commanded, Busy
<1>3. Taken(s, c0)
  BY <1>1, ReceivesTakes, Apart
<1> HIDE DEF m
<1>4. m.to = c0 /\ Allowed(m) /\ m \in Msg
  BY <1>1, <1>3, TakenMessages, TakenWas DEF m
<1>5. m \in Own(c0)
  BY <1>2, <1>4, Apart DEF Allowed, Own
<1>6. DOMAIN pc' = Process /\ pc'[s] = "loop" /\ \A o \in Process : o # s => pc'[o] = pc[o]
  BY <1>1, Moved, Parts
<1>7. \A o \in Server \ {s} : pc[o] \in Over
  BY <1>1, OthersOver DEF Over
<1>8. OnlyOld /\ Emptied' /\ \A q \in DOMAIN queues : queues'[q].live => queues[q].live
  BY <1>1, <1>3, TakenOld DEF Tidy
<1>9. \A c \in Client : pc'[c] = pc[c]
  BY <1>1, <1>6, Apart
<1>10. ASSUME NEW o \in Server
       PROVE  ServerHome(o)'
  BY <1>1, <1>6, <1>9, Apart DEF Tidy, ServerHome, Early
<1>11. ASSUME NEW c \in Client
       PROVE  TidyAt(c)'
  <2>1. TidyAt(c) /\ About(c) \in SUBSET Msg /\ Request(c) \subseteq Closing(c)
        /\ Closing(c) \subseteq About(c) /\ Own(c) \subseteq About(c)
    BY Sets DEF Tidy
  <2>2. \A W : /\ NoneOf(W) => NoneOf(W)'
               /\ AtMostOne(W) => AtMostOne(W)'
               /\ AtMostOne(W) /\ m \in W => NoneOf(W)'
               /\ ~NoneOf(W) /\ m \notin W => ~NoneOf(W)'
               /\ m \in W => ~NoneOf(W)
    BY <1>1, <1>3, <1>8, OldNone, TakenSets DEF m
  <2>3. HomedAt(c)'
    BY <1>1, <1>8, <2>1, OldHomed DEF TidyAt
  <2>4. Closed(c) => Closed(c)'
    BY <1>1, <1>8, ClosedStays
  <2>5. Attended(c)' => Attended(c)
    BY <1>1, <1>6, Apart DEF Attended, Busy
  <2>6. SingleAt(c)'
    BY <1>9, <2>1, <2>2, <2>5 DEF TidyAt, SingleAt
  <2>7. FinishedAt(c)'
    BY <1>1, <1>9, <2>1, <2>2, <2>4, <2>5 DEF TidyAt, FinishedAt
  <2>8. AwaitedAt(c)'
    <3>1. CASE c = c0
      BY <1>5, <1>9, <2>1, <2>2, <3>1 DEF TidyAt, SingleAt, AwaitedAt
    <3>2. CASE c # c0
      <4>1. m \notin Request(c)
        BY <1>2, <1>4, Apart DEF Request
      <4>2. Awaited(c) => Awaited(c)'
        BY <1>1, <1>7, <3>2 DEF Awaited, Over
      <4> QED
        BY <1>9, <2>1, <2>2, <2>4, <4>1, <4>2 DEF TidyAt, AwaitedAt
    <3> QED
      BY <3>1, <3>2
  <2> QED
    BY <2>3, <2>6, <2>7, <2>8 DEF TidyAt
<1> QED
  BY <1>8, <1>10, <1>11 DEF Tidy

\* A client that reads what it waits for: the last message of its command, or the length.
LEMMA ReadsTidy ==
    ASSUME IInv, IuctlAssumption, Tidy, NEW c0 \in Client,
           pc[c0] \in {"status", "length", "string"}, Receives(c0, c0),
           NEW l, Goto(c0, l),
           IF pc[c0] = "length" THEN l = "string" ELSE l = "done",
           UNCHANGED <<client, command, msg_q>>
    PROVE  Tidy'
<1> DEFINE m == Received(c0, c0)
<1>1. c0 \in Process /\ c0 \notin Server /\ QueuesType
  BY Parts, Apart
<1>2. Taken(c0, c0)
  BY <1>1, ReceivesTakes, Apart
<1> HIDE DEF m
<1>3. m.to = c0 /\ m.kind = pc[c0] /\ m \in Msg
  BY <1>1, <1>2, ReadsRight, TakenWas DEF m
<1>4. DOMAIN pc' = Process /\ pc'[c0] = l /\ \A o \in Process : o # c0 => pc'[o] = pc[o]
  BY <1>1, Moved, Parts
<1>5. OnlyOld /\ Emptied' /\ \A q \in DOMAIN queues : queues'[q].live => queues[q].live
  BY <1>1, <1>2, TakenOld DEF Tidy
<1>6. \A o \in Server : pc'[o] = pc[o]
  BY <1>1, <1>4, Apart
<1>7. \A c \in Client : pc'[c] # pc[c] => c = c0
  BY <1>4, Apart
<1>8. \A c \in Client : Early(c)' => Early(c)
  BY <1>4, <1>7 DEF Early
<1>9. \A o \in Server : ServerHome(o)'
  BY <1>6, <1>8 DEF Tidy, ServerHome
<1>10. command[c0] \in {"status", "net"}
  BY Parts DEF Commanded
<1>11. ASSUME NEW c \in Client
       PROVE  TidyAt(c)'
  <2>1. TidyAt(c) /\ About(c) \in SUBSET Msg /\ Request(c) \subseteq Closing(c)
        /\ Closing(c) \subseteq About(c) /\ Own(c) \subseteq About(c)
    BY Sets DEF Tidy
  <2>2. \A W : /\ NoneOf(W) => NoneOf(W)'
               /\ AtMostOne(W) => AtMostOne(W)'
               /\ AtMostOne(W) /\ m \in W => NoneOf(W)'
               /\ ~NoneOf(W) /\ m \notin W => ~NoneOf(W)'
               /\ m \in W => ~NoneOf(W)
    BY <1>1, <1>2, <1>5, OldNone, TakenSets DEF m
  <2>3. HomedAt(c)'
    BY <1>5, <2>1, OldHomed DEF TidyAt
  <2>4. Closed(c) => Closed(c)'
    BY <1>1, <1>5, ClosedStays
  <2>5. (Attended(c)' <=> Attended(c)) /\ (Awaited(c)' <=> Awaited(c))
    BY <1>6 DEF Attended, Awaited, Busy
  <2>6. pc'[c] = "address" => pc[c] = "address"
    BY <1>4, <1>7
  <2>7. SingleAt(c)'
    BY <2>1, <2>2, <2>5, <2>6 DEF TidyAt, SingleAt
  <2>8. FinishedAt(c)'
    <3>1. CASE c # c0
      BY <1>7, <2>1, <2>2, <2>4, <2>5, <3>1 DEF TidyAt, FinishedAt
    <3>2. CASE c = c0 /\ pc[c0] = "length"
      BY <1>4, <3>2 DEF FinishedAt, Over
    <3>3. CASE c = c0 /\ pc[c0] # "length"
      <4>1. m \in Closing(c)
        BY <1>3, <3>3 DEF Closing
      <4>2. NoneOf(Closing(c))' /\ ~Attended(c)
        BY <2>1, <2>2, <4>1 DEF TidyAt, SingleAt
      <4>3. pc[c0] = "string" => NonePending(c0)
        BY Parts DEF Once
      <4>4. ASSUME NEW q \in DOMAIN queues', NEW i \in DOMAIN queues'[q].msgs,
                   queues'[q].msgs[i] \in About(c)
            PROVE  queues'[q].msgs[i] \in Closing(c)
        <5> DEFINE n == queues'[q].msgs[i]
        <5>1. q \in DOMAIN queues /\ \E k \in DOMAIN queues[q].msgs : n = queues[q].msgs[k]
          BY <1>5, <4>4 DEF OnlyOld
        <5>2. Allowed(n) /\ (pc[c0] = "string" => ~Pending(c0, n))
          BY <4>3, <5>1, Parts DEF Addressing, NonePending
        <5> HIDE DEF n
        <5>3. n \in Msg /\ ((n.to \in Server /\ n.from = c0) \/ n.to = c0)
          BY <3>3, <4>4 DEF About, Request, n
        <5>4. CASE n.to \in Server
          BY <1>1, <3>3, <5>3, <5>4 DEF Closing, Request, n
        <5>5. CASE n.to \notin Server
          <6>1. n.to = c0 /\ n.kind \in {"status", "length", "string"}
            BY <1>10, <5>2, <5>3, <5>5 DEF Allowed
          <6>2. n.kind # "length"
            <7>1. CASE pc[c0] = "string"
              BY <5>2, <6>1, <7>1 DEF Pending
            <7>2. CASE pc[c0] = "status"
              BY <5>2, <5>5, <6>1, <7>2, Parts DEF Allowed, Commanded
            <7> QED
              BY <3>3, <7>1, <7>2
          <6> QED
            BY <3>3, <5>3, <6>1, <6>2 DEF Closing, n
        <5> QED
          BY <5>4, <5>5
      <4>5. NoneOf(About(c))'
        BY <4>2, <4>4 DEF NoneOf, About, Closing, Request
      <4> QED
        BY <2>5, <4>2, <4>5 DEF FinishedAt
    <3> QED
      BY <3>1, <3>2, <3>3
  <2>9. AwaitedAt(c)'
    <3>1. m \notin Request(c)
      BY <1>1, <1>3 DEF Request
    <3> QED
      BY <2>1, <2>2, <2>4, <2>5, <2>6, <3>1 DEF TidyAt, AwaitedAt
  <2> QED
    BY <2>3, <2>7, <2>8, <2>9 DEF TidyAt
<1> QED
  BY <1>5, <1>9, <1>11 DEF Tidy

\* A message is sent that is not about a client.
LEMMA OthersTidy ==
    ASSUME IInv, IuctlAssumption, Tidy, NEW p \in Process, NEW m, Sends(p, m), Added(p, m),
           NEW c \in Client, m \notin About(c), pc'[c] = pc[c], UNCHANGED <<command, msg_q>>,
           Attended(c)' => Attended(c), Awaited(c) => Awaited(c)'
    PROVE  TidyAt(c)'
<1>1. TidyAt(c) /\ About(c) \in SUBSET Msg /\ Request(c) \subseteq Closing(c)
      /\ Closing(c) \subseteq About(c) /\ Own(c) \subseteq About(c) /\ QueuesType
  BY Sets, Parts DEF Tidy
<1>2. \A W : /\ NoneOf(W) /\ m \notin W => NoneOf(W)'
             /\ AtMostOne(W) /\ m \notin W => AtMostOne(W)'
             /\ ~NoneOf(W) => ~NoneOf(W)'
  BY <1>1, AddedSets
<1>3. HomedAt(c)'
  BY <1>1, AddedHomed DEF TidyAt
<1>4. Closed(c) => Closed(c)'
  BY <1>1, SendsEmptied, ClosedStays DEF Tidy
<1>5. SingleAt(c)'
  BY <1>1, <1>2 DEF TidyAt, SingleAt
<1>6. FinishedAt(c)'
  BY <1>1, <1>2, <1>4 DEF TidyAt, FinishedAt
<1>7. AwaitedAt(c)'
  BY <1>1, <1>2, <1>4 DEF TidyAt, AwaitedAt
<1> QED
  BY <1>3, <1>5, <1>6, <1>7 DEF TidyAt

\* The server is done with a client when it sends the last message.
LEMMA ReplyTidy ==
    ASSUME IInv, IuctlAssumption, Tidy, NEW s \in Server, NEW now, NEW kind, NEW next,
           Reply(s, now, kind, next),
           \/ now = "status" /\ kind = "status" /\ next = "loop"
           \/ now = "net" /\ kind = "length" /\ next = "string"
           \/ now = "string" /\ kind = "string" /\ next = "loop"
    PROVE  Tidy'
<1> DEFINE c == client[s]
           m == Message(c, s, kind)
<1>1. pc[s] = now /\ Sends(s, m) /\ Goto(s, next) /\ UNCHANGED <<msg_q, client, command>>
  BY DEF Reply, InServer, clientVars
<1>2. now \in {"status", "net", "string"} /\ Busy(s)
  BY <1>1 DEF Busy
<1>3. c \in Client /\ QueuesType
  BY <1>1, <1>2, Parts DEF Commanded
<1>4. s \in Process /\ s \notin Client /\ c \notin Server /\ c \in Process
  BY <1>3, Apart
<1>5. m \in Msg /\ m.to = c /\ m.from = s /\ m.kind = kind
  BY <1>3, <1>4 DEF Message, Msg, Kind, Commands
<1>6. Added(s, m)
  BY <1>1, <1>3, <1>4, <1>5, SendsAdds, Apart
<1>7. Emptied' /\ \A q \in DOMAIN queues : queues'[q].live => queues[q].live
  BY <1>1, <1>3, <1>4, <1>6, SendsEmptied DEF Tidy
<1> HIDE DEF m
<1>8. DOMAIN pc' = Process /\ pc'[s] = next /\ \A o \in Process : o # s => pc'[o] = pc[o]
  BY <1>1, <1>4, Moved, Parts
<1>9. \A o \in Server \ {s} : pc[o] \in Over
  BY <1>1, <1>2, OthersOver DEF Over
<1>10. \A d \in Client : pc'[d] = pc[d]
  BY <1>4, <1>8, Apart
<1>11. \A d \in Client : /\ Attended(d)' => d = c /\ kind = "length"
                         /\ Awaited(d) => Awaited(d)'
  <2>1. \A o \in Server : o # s => pc'[o] \in Over
    BY <1>8, <1>9, Apart
  <2>2. \A o \in Server : Busy(o)' => o = s /\ kind = "length"
    BY <1>8, <2>1 DEF Busy, Over
  <2>3. \A o \in Server : pc[o] \notin {"addr", "shutdown"}
    BY <1>1, <1>2, <1>9 DEF Over
  <2> QED
    BY <1>1, <2>2, <2>3 DEF Attended, Awaited
<1>12. \A o \in Server : ServerHome(o)'
  <2>1. \A o \in Server : pc'[o] = pc[o] \/ pc'[o] \in {"loop", "string"}
    BY <1>8, Apart
  <2> QED
    BY <1>1, <1>10, <2>1 DEF Tidy, ServerHome, Early
<1>13. ASSUME NEW d \in Client
       PROVE  TidyAt(d)'
  <2>1. CASE d # c
    <3>1. m \notin About(d)
      BY <1>3, <1>4, <1>5, <2>1 DEF About, Request
    <3>2. Attended(d)' => Attended(d)
      BY <1>11, <2>1
    <3> QED
      BY <1>1, <1>4, <1>6, <1>10, <1>11, <3>1, <3>2, OthersTidy
  <2>2. CASE d = c
    <3>1. TidyAt(d) /\ Attended(d) /\ NoneOf(Closing(d))
      BY <1>2, <2>2 DEF Tidy, TidyAt, SingleAt, Attended
    <3>2. \A W : /\ NoneOf(W) /\ m \notin W => NoneOf(W)'
                 /\ AtMostOne(W) /\ (NoneOf(W) \/ m \notin W) => AtMostOne(W)'
                 /\ ~NoneOf(W) => ~NoneOf(W)'
      BY <1>3, <1>4, <1>6, AddedSets
    <3>3. HomedAt(d)'
      <4>1. msg_q[s] = msg_q[d]
        BY <1>3, <2>2 DEF Tidy, ServerHome
      <4> QED
        BY <1>1, <1>3, <1>4, <1>6, <3>1, <4>1, AddedHomed DEF TidyAt
    <3>4. Closed(d) => Closed(d)'
      BY <1>1, <1>3, <1>7, ClosedStays
    <3>5. /\ m \notin Own(d) /\ m \notin Request(d)
          /\ kind = "length" => m \notin Closing(d)
      BY <1>4, <1>5, <2>2 DEF Own, Request, Closing
    <3>6. SingleAt(d)'
      <4>1. AtMostOne(Closing(d))' /\ AtMostOne(Own(d))'
        BY <3>1, <3>2, <3>5 DEF TidyAt, SingleAt
      <4>2. Attended(d)' => NoneOf(Closing(d))'
        BY <1>11, <3>1, <3>2, <3>5
      <4>3. pc'[d] = "address" => NoneOf(Own(d))'
        BY <1>10, <3>1, <3>2, <3>5 DEF TidyAt, SingleAt
      <4> QED
        BY <4>1, <4>2, <4>3 DEF SingleAt
    <3>7. FinishedAt(d)'
      BY <1>1, <1>10, <3>1, <3>4 DEF TidyAt, FinishedAt
    <3>8. AwaitedAt(d)'
      BY <1>10, <1>11, <3>1, <3>2, <3>4, <3>5 DEF TidyAt, AwaitedAt
    <3> QED
      BY <3>3, <3>6, <3>7, <3>8 DEF TidyAt
  <2> QED
    BY <2>1, <2>2
<1> QED
  BY <1>7, <1>12, <1>13 DEF Tidy

\* A client sends a message of its own.
LEMMA SentTidy ==
    ASSUME IInv, IuctlAssumption, Tidy, NEW c \in Client, NEW m \in Msg, Sends(c, m),
           NEW l, Goto(c, l), l \notin {"join", "kill", "msgget", "ask"},
           UNCHANGED <<client, command, msg_q>>,
           m \in Request(c) \/ m \in Own(c), FinishedAt(c)',
           Added(c, m) /\ Emptied' => SingleAt(c)' /\ AwaitedAt(c)'
    PROVE  Tidy'
<1>1. c \in Process /\ c \notin Server /\ QueuesType
  BY Parts, Apart
<1>2. Added(c, m)
  BY <1>1, SendsAdds, Apart
<1>3. Emptied'
  BY <1>1, <1>2, SendsEmptied DEF Tidy
<1>4. DOMAIN pc' = Process /\ pc'[c] = l /\ \A o \in Process : o # c => pc'[o] = pc[o]
  BY <1>1, Moved, Parts
<1>5. \A o \in Server : pc'[o] = pc[o]
  BY <1>1, <1>4, Apart
<1>6. \A d \in Client : (Attended(d)' <=> Attended(d)) /\ (Awaited(d)' <=> Awaited(d))
  BY <1>5 DEF Attended, Awaited, Busy
<1>7. \A d \in Client : Early(d)' => Early(d)
  BY <1>4, Apart DEF Early
<1>8. \A o \in Server : ServerHome(o)'
  BY <1>5, <1>7 DEF Tidy, ServerHome
<1>9. ASSUME NEW d \in Client
      PROVE  TidyAt(d)'
  <2>1. CASE d # c
    <3>1. m \notin About(d)
      BY <1>1, <2>1, Apart DEF About, Request, Own
    <3>2. pc'[d] = pc[d]
      BY <1>4, <2>1, Apart
    <3> QED
      BY <1>1, <1>2, <1>6, <3>1, <3>2, OthersTidy
  <2>2. CASE d = c
    <3>1. HomedAt(c)'
      BY <1>1, <1>2, AddedHomed DEF Tidy, TidyAt
    <3> QED
      BY <1>2, <1>3, <2>2, <3>1 DEF TidyAt
  <2> QED
    BY <2>1, <2>2
<1> QED
  BY <1>3, <1>8, <1>9 DEF Tidy

LEMMA AskTidy ==
    ASSUME IInv, IuctlAssumption, Tidy, NEW c \in Client, ClientAsk(c)
    PROVE  Tidy'
<1> DEFINE m == Message(server_pid[c], c, command[c])
           l == CASE command[c] = "status"   -> "status"
                  [] command[c] = "net"      -> "length"
                  [] command[c] = "addr"     -> "address"
                  [] command[c] = "shutdown" -> "done"
<1>1. pc[c] = "ask" /\ Sends(c, m) /\ Goto(c, l) /\ UNCHANGED <<client, command, msg_q>>
  BY DEF ClientAsk, InClient
<1>2. c \in Process /\ c \notin Server /\ server_pid[c] \in Server /\ command[c] \in Commands
  BY <1>1, Parts, Apart DEF Places, TypeOK
<1>3. m \in Msg /\ m \in Request(c) /\ m \notin Own(c)
  BY <1>2, Apart DEF Message, Msg, Kind, Request, Own
<1>4. /\ l \in {"status", "length", "address", "done"}
      /\ l = "done" => command[c] = "shutdown"
  BY <1>2 DEF Commands
<1> HIDE DEF m, l
<1>5. pc'[c] = l
  BY <1>1, <1>2, Moved, Parts
<1>6. NoneOf(About(c)) /\ ~Attended(c) /\ Own(c) \subseteq About(c) /\ Closing(c) \subseteq About(c)
  BY <1>1, EarlyNone, Sets DEF Early
<1>7. FinishedAt(c)'
  BY <1>1, <1>4, <1>5 DEF FinishedAt, Over
<1>8. ASSUME Added(c, m)
      PROVE  SingleAt(c)' /\ AwaitedAt(c)'
  <2>1. NoneOf(Own(c)) /\ NoneOf(Closing(c))
    BY <1>6, NoneLess
  <2>2. AtMostOne(Closing(c))' /\ NoneOf(Own(c))'
    BY <1>2, <1>3, <1>8, <2>1, NoneOne, AddedSets, Parts
  <2>3. AtMostOne(Own(c))'
    BY <2>2 DEF NoneOf, AtMostOne
  <2>4. ~Attended(c)'
    <3>1. \A o \in Server : pc'[o] = pc[o]
      BY <1>1, <1>2, Moved, Parts, Apart
    <3> QED
      BY <1>1, <1>6, <3>1 DEF Attended, Busy
  <2>5. SingleAt(c)'
    BY <2>2, <2>3, <2>4 DEF SingleAt
  <2>6. Closed(c)' \/ ~NoneOf(Request(c))'
    <3>1. CASE Live(msg_q[c])
      <4>1. \E i \in DOMAIN queues'[msg_q[c]].msgs : queues'[msg_q[c]].msgs[i] = m
        BY <1>1, <1>2, <1>3, <3>1, SendsAdds, Parts, Apart
      <4>2. msg_q[c] \in DOMAIN queues'
        <5>1. msg_q[c] \in 0 .. Len(queues) /\ msg_q[c] # 0 /\ queues \in Seq(Queue)
          BY <1>2, <3>1, Parts DEF QueuesType, Live
        <5>2. msg_q[c] \in DOMAIN queues
          BY <5>1, Seqs
        <5> QED
          BY <1>8, <5>2 DEF Added
      <4> QED
        BY <1>3, <4>1, <4>2 DEF NoneOf
    <3>2. CASE ~Live(msg_q[c])
      BY <1>1, <3>2 DEF Sends, Closed, Live
    <3> QED
      BY <3>1, <3>2
  <2> QED
    BY <2>5, <2>6 DEF AwaitedAt
<1> QED
  BY <1>1, <1>3, <1>4, <1>7, <1>8, SentTidy

LEMMA AddressTidy ==
    ASSUME IInv, IuctlAssumption, Tidy, NEW c \in Client, ClientAddress(c)
    PROVE  Tidy'
<1> DEFINE m == Message(c, c, "address")
<1>1. /\ pc[c] = "address" /\ Sends(c, m) /\ Goto(c, "done")
      /\ UNCHANGED <<client, command, msg_q>>
  BY DEF ClientAddress, InClient
<1>2. c \in Process /\ c \notin Server /\ command[c] = "addr" /\ QueuesType
  BY <1>1, Parts, Apart DEF Commanded
<1>3. m \in Msg /\ m \in Own(c) /\ m \notin Closing(c)
  BY <1>2 DEF Message, Msg, Kind, Request, Closing, Own
<1> HIDE DEF m
<1>4. pc'[c] = "done" /\ \A o \in Server : pc'[o] = pc[o]
  BY <1>1, <1>2, Moved, Parts, Apart
<1>5. FinishedAt(c)'
  BY <1>1, <1>2 DEF FinishedAt
<1>6. TidyAt(c) /\ NoneOf(Own(c))
  BY <1>1 DEF Tidy, TidyAt, SingleAt
<1>7. ASSUME Added(c, m)
      PROVE  SingleAt(c)' /\ AwaitedAt(c)'
  <2>1. (Attended(c)' <=> Attended(c)) /\ (Awaited(c)' <=> Awaited(c))
    BY <1>1, <1>4 DEF Attended, Awaited, Busy
  <2>2. \A W : /\ NoneOf(W) /\ m \notin W => NoneOf(W)'
               /\ AtMostOne(W) /\ (NoneOf(W) \/ m \notin W) => AtMostOne(W)'
               /\ ~NoneOf(W) => ~NoneOf(W)'
    BY <1>2, <1>7, AddedSets
  <2>3. SingleAt(c)'
    BY <1>3, <1>4, <1>6, <2>1, <2>2 DEF TidyAt, SingleAt
  <2>4. Closed(c) => Closed(c)'
    BY <1>1, <1>2, <1>7, SendsEmptied, ClosedStays DEF Tidy
  <2> QED
    BY <1>1, <1>6, <2>1, <2>2, <2>3, <2>4 DEF TidyAt, AwaitedAt
<1> QED
  BY <1>1, <1>3, <1>5, <1>7, SentTidy

LEMMA ReadTidy ==
    ASSUME IInv, IuctlAssumption, Tidy, NEW c \in Client,
           ClientStatus(c) \/ ClientLength(c) \/ ClientString(c)
    PROVE  Tidy'
<1>1. PICK kind \in {"status", "length", "string"} :
         /\ Reads(c, kind)
         /\ \/ kind = "status" /\ Goto(c, "done")
            \/ kind = "length" /\ Goto(c, IF Live(msg_q[c]) THEN "string" ELSE "undefined")
            \/ kind = "string" /\ Goto(c, IF Live(msg_q[c]) THEN "done" ELSE "undefined")
  BY DEF ClientStatus, ClientLength, ClientString
<1>2. pc[c] = kind /\ UNCHANGED <<client, command, msg_q>>
  BY <1>1 DEF Reads, InClient
<1>3. CASE Receives(c, c)
  <2>1. Live(msg_q[c])
    BY <1>3 DEF Receives, Waiting
  <2>2. CASE kind = "length"
    BY <1>1, <1>2, <1>3, <2>1, <2>2, ReadsTidy
  <2>3. CASE kind # "length"
    BY <1>1, <1>2, <1>3, <2>1, <2>3, ReadsTidy
  <2> QED
    BY <2>2, <2>3
<1>4. CASE RecvFails(c)
  <2>1. Closed(c) /\ UNCHANGED queues
    BY <1>4 DEF RecvFails, Closed
  <2>2. PICK l \in {"done", "undefined"} : Goto(c, l)
    BY <1>1, <2>1 DEF Closed
  <2> QED
    BY <1>2, <2>1, <2>2, ClientTidy
<1> QED
  BY <1>1, <1>3, <1>4 DEF Reads

LEMMA InitTidy == IuctlAssumption /\ Init => Tidy
<1> SUFFICES ASSUME IuctlAssumption, Init PROVE Tidy
  OBVIOUS
<1>1. DOMAIN queues = {} /\ \A W : NoneOf(W) /\ AtMostOne(W)
  BY DEF Init, NoneOf, AtMostOne
<1>2. \A s \in Server : client[s] = NULL /\ pc[s] = "off"
  BY DEF Init, Process
<1>3. \A c \in Client : pc[c] = "join"
  BY Apart DEF Init
<1>4. Emptied
  BY <1>1 DEF Emptied
<1>5. \A s \in Server : ServerHome(s)
  BY <1>2 DEF ServerHome, IuctlAssumption
<1>6. \A c \in Client : TidyAt(c)
  BY <1>1, <1>3 DEF TidyAt, HomedAt, SingleAt, FinishedAt, AwaitedAt, Over
<1> QED
  BY <1>4, <1>5, <1>6 DEF Tidy

\* A step is one process's, which is not dead.
Steps(p) == pc[p] # "dead" /\ \E l : Goto(p, l)

LEMMA StepOf ==
    ASSUME Next
    PROVE  \E p \in Process : Steps(p)
<1>1. ASSUME NEW s \in Server, ServerStep(s) \/ ServerSignal(s)
      PROVE  Steps(s)
  <2>1. ServerStart(s) => Steps(s)
    BY DEF ServerStart, Steps
  <2>2. ServerWrite(s) \/ ServerMsgget(s) \/ ServerRequest(s) => Steps(s)
    BY DEF ServerWrite, ServerMsgget, ServerRequest, Steps
  <2>3. ServerStatus(s) \/ ServerNetLength(s) \/ ServerNetString(s) => Steps(s)
    BY DEF ServerStatus, ServerNetLength, ServerNetString, Reply, Steps
  <2>4. ServerAddr(s) \/ ServerDestroy(s) \/ ServerUnlink(s) \/ ServerSignal(s) => Steps(s)
    BY DEF ServerAddr, ServerDestroy, ServerUnlink, ServerSignal, Steps
  <2> QED
    BY <1>1, <2>1, <2>2, <2>3, <2>4 DEF ServerStep
<1>2. ASSUME NEW c \in Client, ClientStep(c)
      PROVE  Steps(c)
  <2>1. ClientJoin(c) \/ ClientKill(c) \/ ClientMsgget(c) => Steps(c)
    BY DEF ClientJoin, ClientKill, ClientMsgget, Steps
  <2>2. ClientAsk(c) \/ ClientAddress(c) => Steps(c)
    BY DEF ClientAsk, ClientAddress, Steps
  <2>3. ClientStatus(c) \/ ClientLength(c) \/ ClientString(c) => Steps(c)
    BY DEF ClientStatus, ClientLength, ClientString, Reads, Steps
  <2> QED
    BY <1>2, <2>1, <2>2, <2>3 DEF ClientStep
<1>3. ASSUME NEW p \in Process, Die(p)
      PROVE  Steps(p)
  BY <1>3 DEF Die, Over, Steps
<1> QED
  BY <1>1, <1>2, <1>3 DEF Next, Process

LEMMA UnharmedBefore ==
    ASSUME IInv, [Next]_vars, Unharmed'
    PROVE  Unharmed
<1>1. CASE UNCHANGED vars
  BY <1>1 DEF vars, Unharmed
<1>2. CASE Next
  <2>1. PICK o \in Process : Steps(o)
    BY <1>2, StepOf
  <2>2. \A p \in Process : p # o => pc'[p] = pc[p]
    BY <2>1, Moved DEF IInv, Steps
  <2> QED
    BY <2>1, <2>2 DEF Unharmed, Steps
<1> QED
  BY <1>1, <1>2

LEMMA NextTidy ==
    ASSUME IuctlAssumption, Unharmed', IInv, Tidy, [Next]_vars
    PROVE  Tidy'
<1>1. ASSUME NEW s \in Server, ServerStep(s) \/ ServerSignal(s)
      PROVE  Tidy'
  <2>1. ServerStatus(s) \/ ServerNetLength(s) \/ ServerNetString(s) => Tidy'
    BY ReplyTidy DEF ServerStatus, ServerNetLength, ServerNetString
  <2> QED
    BY <1>1, <2>1, QuietServerTidy, MsggetTidy, RequestTidy, AddrTidy, DestroyTidy DEF ServerStep
<1>2. ASSUME NEW c \in Client, ClientStep(c)
      PROVE  Tidy'
  BY <1>2, QuietClientTidy, AskTidy, AddressTidy, ReadTidy DEF ClientStep
<1>3. ASSUME NEW p \in Process, Die(p)
      PROVE  FALSE
  <2>1. pc'[p] = "dead"
    BY <1>3, Moved DEF Die, IInv
  <2> QED
    BY <2>1 DEF Unharmed
<1>4. CASE UNCHANGED vars
  <2>1. UNCHANGED <<queues, pc, msg_q, client, command>>
    BY <1>4 DEF vars, clientVars
  <2> QED
    BY <2>1 DEF Tidy, TidyAt, ServerHome, Emptied, HomedAt, SingleAt, FinishedAt, AwaitedAt,
       NoneOf, AtMostOne, Attended, Awaited, Closed, Live, Busy, Early
<1> QED
  BY <1>1, <1>2, <1>3, <1>4 DEF Next

LEMMA TidyNoLeftovers == ASSUME IuctlAssumption, IInv, Tidy PROVE NoLeftovers
<1> SUFFICES ASSUME NEW q \in DOMAIN queues, NEW i \in DOMAIN queues[q].msgs,
                    queues[q].msgs[i].to \in Client, pc[queues[q].msgs[i].to] \in Over
             PROVE  /\ queues[q].msgs[i].kind = "address"
                    /\ \/ \E s \in Server : /\ pc[s] \in {"addr", "shutdown"}
                                            /\ client[s] = queues[q].msgs[i].to
                       \/ \E r \in Range(queues[q].msgs) :
                             r.from = queues[q].msgs[i].to /\ r.kind = "addr"
  BY DEF NoLeftovers, Range
<1> DEFINE m == queues[q].msgs[i]
           c == m.to
<1>1. m \in Msg /\ Allowed(m) /\ QueuesType
  BY Parts, QueueType DEF Addressing
<1>2. c \in Client /\ c \notin Server /\ TidyAt(c)
  BY Apart DEF Tidy
<1>3. m \in About(c) /\ queues[q].live /\ q = msg_q[c]
  BY <1>1, <1>2 DEF About, Tidy, Emptied, TidyAt, HomedAt
<1>4. ~Closed(c) /\ ~NoneOf(About(c))
  <2>1. q # 0
    BY <1>1, Seqs DEF QueuesType
  <2> QED
    BY <1>3, <2>1 DEF Closed, Live, NoneOf
<1>5. command[c] \notin {"status", "net"}
  BY <1>2, <1>4 DEF TidyAt, FinishedAt
<1>6. m.kind = "address" /\ command[c] = "addr"
  BY <1>1, <1>2, <1>5 DEF Allowed
<1>7. ~NoneOf(Own(c))
  BY <1>1, <1>6 DEF NoneOf, Own
<1>8. Awaited(c) \/ ~NoneOf(Request(c))
  BY <1>2, <1>4, <1>7 DEF TidyAt, AwaitedAt
<1>9. ASSUME ~NoneOf(Request(c))
      PROVE  \E r \in Range(queues[q].msgs) : r.from = c /\ r.kind = "addr"
  <2>1. PICK p \in DOMAIN queues : \E j \in DOMAIN queues[p].msgs : queues[p].msgs[j] \in Request(c)
    BY <1>9 DEF NoneOf
  <2>2. PICK j \in DOMAIN queues[p].msgs : queues[p].msgs[j] \in Request(c)
    BY <2>1
  <2>3. p = q
    BY <1>2, <1>3, <2>2 DEF TidyAt, HomedAt, About
  <2>4. Allowed(queues[p].msgs[j])
    BY Parts DEF Addressing
  <2>5. queues[p].msgs[j].from = c /\ queues[p].msgs[j].kind = "addr"
    BY <1>6, <2>2, <2>4, Apart DEF Allowed, Request
  <2> QED
    BY <2>3, <2>5 DEF Range
<1> QED
  BY <1>6, <1>8, <1>9 DEF Awaited

TidyUnharmed == Unharmed => Tidy

\* Nothing is left in the queue for a client that is over, but the address that the
\* server is still to read, as long as nobody is killed: restarts and signals included.
THEOREM NothingLeftOver == Spec => []NoLeftovers
<1>1. Init => TidyUnharmed
  BY IuctlAssumption, InitTidy DEF TidyUnharmed
<1>2. IInv /\ TidyUnharmed /\ [Next]_vars => TidyUnharmed'
  BY IuctlAssumption, NextTidy, UnharmedBefore DEF TidyUnharmed
<1>3. IInv /\ TidyUnharmed => NoLeftovers
  <2>1. ~Unharmed => NoLeftovers
    BY DEF NoLeftovers
  <2> QED
    BY <2>1, IuctlAssumption, TidyNoLeftovers DEF TidyUnharmed
<1> QED
  BY <1>1, <1>2, <1>3, Invariant, PTL DEF Spec
=============================================================================
