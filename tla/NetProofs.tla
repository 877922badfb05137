------------------------------ MODULE NetProofs ------------------------------
(***************************************************************************)
(* For any peers, descriptors, calls and streams: the tables of net.cpp    *)
(* lead to the right peer's socket, what is sent to a peer leaves in the   *)
(* order of the calls, and a connection that is not suspended is polled.   *)
(***************************************************************************)
EXTENDS Net, SequenceTheorems, FiniteSetTheorems, WellFoundedInduction, TLAPS

-----------------------------------------------------------------------------
(***************************************************************************)
(* The inductive invariant                                                 *)
(***************************************************************************)
\* accept_connection waits for the identity of a peer on a socket no table names yet.
Accepting == wait # NULL /\ wait.by = "accept"
Unlisted ==
    Accepting => /\ sock[wait.fd] # NULL /\ sock[wait.fd].peer \in Peer
                 /\ nids[wait.fd] \notin Peer
                 /\ \A n \in Peer : connections[n] # wait.fd

\* A wait has an end, a connection that is to be accepted a descriptor, and a call to
\* send_msg or send_stream a queue once connect_to has returned.
Places ==
    /\ wait # NULL => pc \in {"wait", "send"} \cup Ended
    /\ backlog # << >> => FreeFds # {}
    /\ pc \in {"connect", "identify", "put"} => calls \in Call
    /\ pc \in {"identify", "put"} => send_qs[dest.to] # NULL

\* The calls in a queue are in the order they were made, and a call is in one queue;
\* one that is still to be queued is later than all of them.
Increasing(q) == \A i, j \in DOMAIN q : i < j => q[i] < q[j]
Sorted == \A n \in Peer : send_qs[n] # NULL => Increasing(send_qs[n])
Apart ==
    \A m, n \in Peer : m # n /\ send_qs[m] # NULL /\ send_qs[n] # NULL =>
        \A i \in DOMAIN send_qs[m], j \in DOMAIN send_qs[n] : send_qs[m][i] # send_qs[n][j]
Unqueued ==
    pc \in {"connect", "identify", "put"} =>
        /\ stream[calls] = NULL
        /\ \A n \in Peer : send_qs[n] # NULL => \A i \in DOMAIN send_qs[n] : send_qs[n][i] < calls

\* What was sent last to a peer is not after what is still to be sent.
PassedAt(n) == send_qs[n] # NULL => \A i \in Unfinished(send_qs[n]) : wire[n] <= send_qs[n][i]
Passed == \A n \in Peer : PassedAt(n)

\* The round of send_readies: its peers are different and each has a message ready.
ReadyAt(n) == send_qs[n] # NULL /\ Ready(send_qs[n])
Round ==
    pc = "send" =>
        /\ \A i, j \in DOMAIN keys : keys[i] = keys[j] => i = j
        /\ \A n \in Range(keys) : ReadyAt(n)

IInv == TypeOK /\ Addressed /\ Unlisted /\ Places /\ Sorted /\ Apart /\ Unqueued /\ Passed /\ Round

\* No peer is listed at two descriptors.
OneEach == \A f, g \in FD : nids[f] \in Peer /\ nids[g] = nids[f] => f = g

\* What connections does not lead to cannot be suspended.
Elsewhere ==
    \A fd \in FD : nids[fd] \in Peer /\ connections[nids[fd]] # fd => fd \in Range(pollfds)

\* nids names the peer of every socket that has still something to receive, but for the
\* one that is being accepted, and nothing else: unless msg_source has made up an entry.
Heeded(fd) == sock[fd].eof /\ sock[fd].in = 0
MadeUp(fd) == "msg_source" \in Uses /\ nids[fd] = Nobody
Sourced ==
    /\ \A fd \in FD : sock[fd] = NULL => nids[fd] = NULL \/ MadeUp(fd)
    /\ \A fd \in FD : sock[fd] # NULL =>
          \/ nids[fd] = sock[fd].peer
          \/ MadeUp(fd)
          \/ Heeded(fd)
          \/ Accepting /\ wait.fd = fd
    /\ Accepting => nids[wait.fd] = NULL \/ MadeUp(wait.fd)

\* shutdown_server ends the process when it closes what a made up entry names.
SourcedOrEnded == pc = "exit" \/ Sourced
-----------------------------------------------------------------------------
(***************************************************************************)
(* Numbers, sets and sequences                                             *)
(***************************************************************************)
\* A set of numbers that is not empty has a least one, and Lowest is it.
LEMMA LowestOf ==
    ASSUME NEW S \in SUBSET Nat, S # {}
    PROVE  Lowest(S) \in S /\ \A y \in S : Lowest(S) <= y
<1>1. PICK x \in S : \A y \in S : ~ (<<y, x>> \in OpToRel(<, Nat))
  BY WFMin, NatLessThanWellFounded
<1>2. \A y \in S : y \in Nat /\ x \in Nat
  OBVIOUS
<1>3. \A y \in S : ~ (y < x)
  BY <1>1, <1>2, Zenon DEF OpToRel
<1>4. \A y \in S : x <= y
  BY <1>2, <1>3
<1> QED
  BY <1>4 DEF Lowest

LEMMA LowestIs ==
    ASSUME NEW S \in SUBSET Nat, NEW i \in S, \A j \in S : i <= j
    PROVE  Lowest(S) = i
<1>1. Lowest(S) \in S /\ Lowest(S) <= i /\ i <= Lowest(S)
  BY LowestOf
<1>2. Lowest(S) \in Nat /\ i \in Nat
  BY <1>1
<1> QED
  BY <1>1, <1>2

LEMMA Seqs ==
    ASSUME NEW S, NEW s \in Seq(S)
    PROVE  Len(s) \in Nat /\ DOMAIN s = 1 .. Len(s) /\ \A i \in DOMAIN s : s[i] \in S
  OBVIOUS

LEMMA AppendOf ==
    ASSUME NEW S, NEW s \in Seq(S), NEW e \in S
    PROVE  /\ Append(s, e) \in Seq(S) /\ Len(Append(s, e)) = Len(s) + 1
           /\ DOMAIN Append(s, e) = 1 .. Len(s) + 1
           /\ \A i \in 1 .. Len(s) : Append(s, e)[i] = s[i]
           /\ Append(s, e)[Len(s) + 1] = e
  OBVIOUS

LEMMA RangeAppend ==
    ASSUME NEW S, NEW s \in Seq(S), NEW e \in S
    PROVE  Range(Append(s, e)) = Range(s) \cup {e}
<1> DEFINE t == Append(s, e)
<1>1. /\ DOMAIN t = 1 .. Len(s) + 1 /\ DOMAIN s = 1 .. Len(s) /\ Len(s) \in Nat
      /\ \A i \in 1 .. Len(s) : t[i] = s[i]
      /\ t[Len(s) + 1] = e
  BY AppendOf
<1> HIDE DEF t
<1>2. \A i \in DOMAIN t : i \in 1 .. Len(s) \/ i = Len(s) + 1
  BY <1>1
<1>3. Range(t) \subseteq Range(s) \cup {e}
  BY <1>1, <1>2 DEF Range
<1>4. Range(s) \subseteq Range(t)
  BY <1>1 DEF Range
<1>5. e \in Range(t)
  BY <1>1 DEF Range
<1> QED
  BY <1>3, <1>4, <1>5 DEF t

\* The rest of a sequence from a place on, which may be the place after the last.
LEMMA FromOf ==
    ASSUME NEW S, NEW s \in Seq(S), NEW i \in 1 .. Len(s) + 1
    PROVE  /\ From(s, i) \in Seq(S) /\ Len(From(s, i)) = Len(s) - i + 1
           /\ DOMAIN From(s, i) = 1 .. Len(s) - i + 1
           /\ \A j \in 1 .. Len(s) - i + 1 : i + j - 1 \in 1 .. Len(s) /\ From(s, i)[j] = s[i + j - 1]
<1>1. Len(s) \in Nat /\ \A j \in i .. Len(s) : s[j] \in S
  OBVIOUS
<1>2. /\ SubSeq(s, i, Len(s)) \in Seq(S)
      /\ Len(SubSeq(s, i, Len(s))) = IF i <= Len(s) THEN Len(s) - i + 1 ELSE 0
      /\ \A j \in 1 .. Len(s) - i + 1 : SubSeq(s, i, Len(s))[j] = s[i + j - 1]
  BY <1>1, SubSeqProperties
<1>3. \A j \in 1 .. Len(s) - i + 1 : i + j - 1 \in 1 .. Len(s)
  BY <1>1
<1> DEFINE t == SubSeq(s, i, Len(s))
<1> HIDE DEF t
<1>4. t \in Seq(S) /\ Len(t) = Len(s) - i + 1
  BY <1>1, <1>2 DEF t
<1>5. DOMAIN t = 1 .. Len(s) - i + 1
  BY <1>4
<1> QED
  BY <1>2, <1>3, <1>4, <1>5 DEF From, t

\* The places picked from a sequence are the entries of the result, and no others.
LEMMA PickedOf ==
    ASSUME NEW S, NEW s \in Seq(S), NEW kept \in SUBSET DOMAIN s
    PROVE  /\ Picked(s, kept) \in Seq(S)
           /\ Range(Picked(s, kept)) = {s[i] : i \in kept}
<1> DEFINE rank == [i \in kept |-> Cardinality({j \in kept : j <= i})]
           n == Cardinality(kept)
<1>1. /\ IsFiniteSet(kept) /\ n \in Nat /\ kept \subseteq Nat
  <2>1. DOMAIN s = 1 .. Len(s) /\ Len(s) \in Nat
    OBVIOUS
  <2>2. IsFiniteSet(DOMAIN s)
    BY <2>1, FS_Interval
  <2> QED
    BY <2>1, <2>2, FS_Subset, FS_CardinalityType
<1>2. ASSUME NEW i \in kept
      PROVE  /\ IsFiniteSet({j \in kept : j <= i}) /\ rank[i] \in 1 .. n
  <2> DEFINE T == {j \in kept : j <= i}
  <2>1. T \in SUBSET kept /\ i \in T
    BY <1>1
  <2>2. IsFiniteSet(T) /\ Cardinality(T) <= n /\ Cardinality(T) \in Nat
    BY <1>1, <2>1, FS_Subset, FS_CardinalityType
  <2>3. Cardinality(T) # 0
    BY <2>1, <2>2, FS_EmptySet
  <2> QED
    BY <1>1, <2>2, <2>3
<1>3. ASSUME NEW i \in kept, NEW j \in kept, i < j
      PROVE  rank[i] # rank[j]
  <2> DEFINE T == {k \in kept : k <= i}
             U == {k \in kept : k <= j}
  <2>1. T \in SUBSET U /\ j \in U /\ j \notin T
    BY <1>1, <1>3
  <2>2. IsFiniteSet(U)
    BY <1>2
  <2>3. Cardinality(T) # Cardinality(U)
    BY <2>1, <2>2, FS_Subset
  <2> QED
    BY <2>3
<1>4. rank \in Injection(kept, 1 .. n)
  <2>1. rank \in [kept -> 1 .. n]
    BY <1>2
  <2>2. ASSUME NEW i \in kept, NEW j \in kept, rank[i] = rank[j]
        PROVE  i = j
    <3>1. i \in Nat /\ j \in Nat /\ ~(i < j) /\ ~(j < i)
      BY <1>1, <1>3, <2>2
    <3> QED
      BY <3>1
  <2> HIDE DEF rank
  <2> QED
    BY <2>1, <2>2 DEF Injection, IsInjective
<1>5. rank \in Surjection(kept, 1 .. n)
  <2>1. IsFiniteSet(1 .. n) /\ Cardinality(1 .. n) = n
    BY <1>1, FS_Interval
  <2> QED
    BY <1>1, <1>4, <2>1, FS_Injection
<1>6. \A k \in 1 .. n : \E i \in kept : rank[i] = k
  BY <1>5 DEF Surjection
<1>7. \A i, j \in kept : rank[i] = rank[j] => i = j
  BY <1>4 DEF Injection, IsInjective
<1> DEFINE at(k) == CHOOSE i \in kept : Cardinality({j \in kept : j <= i}) = k
           t == Picked(s, kept)
<1>8. ASSUME NEW k \in 1 .. n
      PROVE  at(k) \in kept /\ rank[at(k)] = k
  <2>1. \E i \in kept : Cardinality({j \in kept : j <= i}) = k
    BY <1>6
  <2> HIDE DEF n
  <2>2. at(k) \in kept /\ Cardinality({j \in kept : j <= at(k)}) = k
    BY <2>1, Zenon
  <2> HIDE DEF at
  <2> QED
    BY <2>2
<1>9. t = [k \in 1 .. n |-> s[at(k)]]
  BY Zenon DEF Picked
<1>10. \A i \in kept : rank[i] \in 1 .. n
  BY <1>2
<1> HIDE DEF rank, n, at, t
<1>11. \A i \in kept : at(rank[i]) = i
  BY <1>7, <1>8, <1>10
<1>12. \A i \in kept : s[i] \in S
  OBVIOUS
<1>13. t \in Seq(S)
  BY <1>1, <1>8, <1>9, <1>12
<1>14. DOMAIN t = 1 .. n /\ \A k \in 1 .. n : t[k] = s[at(k)]
  BY <1>9
<1>15. Range(t) = {s[i] : i \in kept}
  BY <1>8, <1>10, <1>11, <1>14 DEF Range
<1> QED
  BY <1>13, <1>15 DEF t
-----------------------------------------------------------------------------
(***************************************************************************)
(* The operators of the model                                              *)
(***************************************************************************)
Entry == {server_fd} \cup FD \cup {-fd : fd \in FD}

LEMMA Constants ==
    ASSUME NetAssumption
    PROVE  /\ FD \subseteq Nat /\ Call \subseteq Nat /\ Entry \subseteq Int
           /\ \A fd \in FD : fd > server_fd /\ fd # server_fd /\ -fd \notin FD /\ -fd < 0
           /\ \A e \in Entry : e > 0 => e = server_fd \/ e \in FD
           /\ NULL \notin Peer /\ NULL \notin FD /\ NULL # Nobody /\ Nobody \notin Peer
           /\ MaxFd \in Nat /\ MaxCalls \in Nat /\ MaxIn \in Nat \ {0} /\ MaxPuts \in Nat
           /\ IsFiniteSet(FD) /\ IsFiniteSet(Peer)
<1>1. IsFiniteSet(FD)
  BY FS_Interval DEF NetAssumption, FD
<1> QED
  BY <1>1 DEF NetAssumption, FD, Call, Entry, server_fd, Nobody

LEMMA SetOf ==
    ASSUME NEW A, NEW B, NEW f \in [A -> B], NEW i \in A, NEW x \in B
    PROVE  /\ Set(f, i, x) \in [A -> B] /\ Set(f, i, x)[i] = x
           /\ \A j \in A : j # i => Set(f, i, x)[j] = f[j]
  BY DEF Set

\* The kernel gives a descriptor that is not in use.
LEMMA NewFdOf ==
    ASSUME NetAssumption, FreeFds # {}
    PROVE  NewFd \in FD /\ sock[NewFd] = NULL
<1>1. FreeFds \in SUBSET Nat
  BY Constants DEF FreeFds
<1>2. NewFd = Lowest(FreeFds)
  BY DEF NewFd, Lowest
<1>3. NewFd \in FreeFds
  BY <1>1, <1>2, LowestOf
<1> QED
  BY <1>3 DEF FreeFds

LEMMA FdLeftOf ==
    ASSUME NetAssumption, TypeOK, FdLeft
    PROVE  /\ FreeFds # {} /\ IsFiniteSet(FreeFds)
           /\ backlog # << >> => \A fd \in FreeFds : FreeFds \ {fd} # {}
<1>1. IsFiniteSet(FreeFds)
  <2>1. FreeFds \in SUBSET FD
    BY DEF FreeFds
  <2> QED
    BY <2>1, Constants, FS_Subset
<1>2. Cardinality(FreeFds) \in Nat /\ Cardinality(FreeFds) > Len(backlog)
  BY <1>1, FS_CardinalityType DEF FdLeft
<1>3. backlog \in {<< >>} \cup {<<n>> : n \in Peer}
  BY DEF TypeOK
<1>4. Len(backlog) \in Nat /\ (backlog # << >> => Len(backlog) = 1)
  BY <1>3
<1>5. FreeFds # {}
  BY <1>1, <1>2, <1>4, FS_EmptySet
<1>6. ASSUME backlog # << >>, NEW fd \in FreeFds, FreeFds \ {fd} = {}
      PROVE  FALSE
  <2>1. FreeFds = {fd}
    BY <1>6
  <2>2. Cardinality(FreeFds) = 1
    BY <2>1, FS_Singleton
  <2> QED
    BY <1>2, <1>4, <1>6, <2>2
<1> QED
  BY <1>1, <1>5, <1>6

\* The message taken changes the count of its socket and nothing else.
LEMMA TakenOf ==
    ASSUME NetAssumption, TypeOK, NEW fd \in FD, sock[fd] # NULL, Received(fd) = "message"
    PROVE  /\ Taken(fd) \in [FD -> Socket \cup {NULL}]
           /\ \A g \in FD : Taken(fd)[g] = NULL <=> sock[g] = NULL
           /\ \A g \in FD : g # fd => Taken(fd)[g] = sock[g]
           /\ Taken(fd)[fd].peer = sock[fd].peer /\ Taken(fd)[fd].eof = sock[fd].eof
           /\ sock[fd].in > 0
<1>1. sock \in [FD -> Socket \cup {NULL}] /\ sock[fd] \in Socket
  BY DEF TypeOK
<1>2. sock[fd].in > 0 /\ sock[fd].in \in 0 .. MaxIn /\ MaxIn \in Nat
  BY <1>1, Constants DEF Received, Socket
<1>3. [sock[fd] EXCEPT !.in = @ - 1] \in Socket
  BY <1>1, <1>2 DEF Socket
<1>4. NULL \notin Socket
  BY DEF NetAssumption
<1>5. Taken(fd) = [sock EXCEPT ![fd] = [sock[fd] EXCEPT !.in = @ - 1]]
  BY DEF Taken
<1>6. /\ [sock[fd] EXCEPT !.in = @ - 1].peer = sock[fd].peer
      /\ [sock[fd] EXCEPT !.in = @ - 1].eof = sock[fd].eof
  BY <1>1 DEF Socket
<1> QED
  BY <1>1, <1>2, <1>3, <1>4, <1>5, <1>6

LEMMA ModOf ==
    ASSUME NEW a \in Int, NEW n \in Nat \ {0}
    PROVE  a % n \in Nat /\ a % n < n
  OBVIOUS

\* The entry next_msg_now looks at is one of the entries.
LEMMA ChosenOf ==
    ASSUME NetAssumption, TypeOK, pollfds # << >>
    PROVE  Chosen \in DOMAIN pollfds /\ Chosen \in Nat \ {0} /\ pollfds[Chosen] \in Entry
<1>1. /\ pollfds \in Seq(Entry) /\ start \in Nat
      /\ DOMAIN pollfds = 1 .. Len(pollfds) /\ Len(pollfds) \in Nat \ {0}
  BY DEF TypeOK, Entry
<1>2. Hits \subseteq DOMAIN pollfds
  BY DEF Hits
<1>3. CASE Hits = {}
  <2>1. Chosen = 1 + (start % Len(pollfds))
    BY <1>3 DEF Chosen
  <2>2. start % Len(pollfds) \in Nat /\ start % Len(pollfds) < Len(pollfds)
    BY <1>1, ModOf
  <2> QED
    BY <1>1, <2>1, <2>2
<1>4. CASE Hits # {}
  <2> DEFINE D == {Distance(i) : i \in Hits}
  <2>1. \A i \in Hits : Distance(i) \in Nat
    BY <1>1, <1>2, ModOf DEF Distance
  <2>2. D \in SUBSET Nat /\ D # {}
    BY <1>4, <2>1
  <2>3. PICK i \in Hits : Distance(i) = Lowest(D)
    BY <2>2, LowestOf
  <2>4. \A j \in Hits : Distance(i) <= Distance(j)
    <3>1. \A y \in D : Lowest(D) <= y
      BY <2>2, LowestOf
    <3> QED
      BY <2>3, <3>1
  <2>5. Chosen \in Hits
    BY <1>4, <2>4, Zenon DEF Chosen
  <2> QED
    BY <1>1, <1>2, <2>5
<1> QED
  BY <1>3, <1>4

LEMMA PolledOf ==
    ASSUME NetAssumption, TypeOK, Polled
    PROVE  /\ start' + 1 \in DOMAIN pollfds /\ start' \in Nat /\ Found \in Entry
           /\ pc = "poll" /\ backlog' = backlog /\ history' = history
<1>1. pollfds # << >>
  BY DEF Polled
<1>2. start' = Chosen - 1
  BY DEF Polled
<1>3. Chosen \in DOMAIN pollfds /\ Chosen \in Nat \ {0} /\ pollfds[Chosen] \in Entry
  BY <1>1, ChosenOf
<1>4. start' + 1 = Chosen /\ start' \in Nat
  BY <1>2, <1>3
<1> QED
  BY <1>3, <1>4 DEF Polled, Main, Found

\* There is something to receive on open descriptors only.
LEMMA InOf ==
    ASSUME NetAssumption, NEW fd \in Entry, fd # server_fd, "IN" \in Revents(fd)
    PROVE  fd \in FD /\ sock[fd] # NULL
<1>1. fd > 0
  <2>1. fd \in Int /\ (fd > 0 \/ fd < 0)
    BY Constants DEF Entry, server_fd
  <2>2. fd < 0 => Revents(fd) = {}
    BY DEF Revents
  <2> QED
    BY <2>1, <2>2
<1>2. fd \in FD
  BY <1>1, Constants
<1>3. sock[fd] # NULL
  BY <1>1, <1>2, Constants DEF Revents
<1> QED
  BY <1>2, <1>3

\* The first message of a queue, past the streams that are finished.
LEMMA UnfinishedOf ==
    ASSUME NetAssumption, TypeOK, NEW n \in Peer, send_qs[n] # NULL,
           Unfinished(send_qs[n]) # {}
    PROVE  LET at == Lowest(Unfinished(send_qs[n])) IN
           /\ at \in DOMAIN send_qs[n] /\ at \in 1 .. Len(send_qs[n])
           /\ Foremost(send_qs[n]) = send_qs[n][at]
           /\ Foremost(send_qs[n]) \in 1 .. calls /\ Foremost(send_qs[n]) \in Call
           /\ ~Finished(Foremost(send_qs[n]))
           /\ \A j \in Unfinished(send_qs[n]) : at <= j
<1> DEFINE q == send_qs[n]
           at == Lowest(Unfinished(q))
<1>1. q \in Seq(1 .. calls) /\ calls \in 0 .. MaxCalls /\ MaxCalls \in Nat
  BY Constants DEF TypeOK
<1>2. DOMAIN q = 1 .. Len(q) /\ Len(q) \in Nat /\ \A i \in DOMAIN q : q[i] \in 1 .. calls
  BY <1>1
<1>3. Unfinished(q) \in SUBSET Nat
  BY <1>2 DEF Unfinished
<1>4. at \in Unfinished(q) /\ \A j \in Unfinished(q) : at <= j
  BY <1>3, LowestOf
<1>5. at \in DOMAIN q /\ ~Finished(q[at])
  BY <1>4 DEF Unfinished
<1>6. Foremost(q) = q[at]
  BY DEF Foremost
<1>7. \A c \in 1 .. calls : c \in Call
  BY <1>1 DEF Call
<1> HIDE DEF at, q
<1>8. /\ at \in DOMAIN q /\ at \in 1 .. Len(q) /\ Foremost(q) = q[at]
      /\ Foremost(q) \in 1 .. calls /\ Foremost(q) \in Call /\ ~Finished(Foremost(q))
      /\ \A j \in Unfinished(q) : at <= j
  BY <1>2, <1>4, <1>5, <1>6, <1>7
<1> QED
  BY <1>8 DEF at, q

\* concat's get: the queue loses what is in front of the message, and the message itself
\* when it is not one of a stream; else the stream is one shorter.
LEMMA GotOf ==
    ASSUME NetAssumption, TypeOK, NEW n \in Peer, send_qs[n] # NULL, Ready(send_qs[n]),
           GotFrom(n)
    PROVE  LET q == send_qs[n]
               at == Lowest(Unfinished(q))
               c == Got(n)
           IN  /\ at \in DOMAIN q /\ c = q[at] /\ c \in 1 .. calls /\ c \in Call /\ ~Finished(c)
               /\ \A j \in Unfinished(q) : at <= j
               /\ send_qs' \in [Peer -> Seq(1 .. calls) \cup {NULL}]
               /\ send_qs'[n] \in Seq(1 .. calls) /\ send_qs'[n] # NULL
               /\ \A m \in Peer : m # n => send_qs'[m] = send_qs[m]
               /\ \E k \in Nat :
                     /\ k = IF stream[c] = NULL THEN at ELSE at - 1
                     /\ \A j \in DOMAIN send_qs'[n] :
                           j \in Nat /\ j + k \in DOMAIN q /\ send_qs'[n][j] = q[j + k]
               /\ \A d \in Call : d # c => stream'[d] = stream[d]
               /\ stream[c] = NULL => stream'[c] = NULL
               /\ stream[c] # NULL =>
                     /\ stream[c].len > 0
                     /\ stream'[c] = [stream[c] EXCEPT !.len = @ - 1]
                     /\ stream'[c].len = stream[c].len - 1 /\ stream'[c].puts = stream[c].puts
                     /\ stream'[c].open = stream[c].open
                     /\ stream'[c] # NULL
               /\ stream' \in [Call -> Stream \cup {NULL}]
<1> DEFINE q == send_qs[n]
           at == Lowest(Unfinished(q))
           c == Got(n)
           k == IF stream[c] = NULL THEN at ELSE at - 1
           r == From(q, k + 1)
<1>1. Unfinished(q) # {} /\ (stream[c] = NULL \/ stream[c].len > 0) /\ c = Foremost(q)
  BY DEF Ready, Got
<1>2. /\ at \in DOMAIN q /\ at \in 1 .. Len(q) /\ c = q[at] /\ c \in 1 .. calls /\ c \in Call
      /\ ~Finished(c)
      /\ \A j \in Unfinished(q) : at <= j
  BY <1>1, UnfinishedOf
<1>3. /\ send_qs \in [Peer -> Seq(1 .. calls) \cup {NULL}] /\ q \in Seq(1 .. calls)
      /\ stream \in [Call -> Stream \cup {NULL}] /\ NULL \notin Stream /\ Len(q) \in Nat
      /\ DOMAIN q = 1 .. Len(q) /\ calls \in 0 .. MaxCalls
  <2>1. /\ send_qs \in [Peer -> Seq(1 .. calls) \cup {NULL}] /\ q \in Seq(1 .. calls)
        /\ stream \in [Call -> Stream \cup {NULL}] /\ NULL \notin Stream
        /\ calls \in 0 .. MaxCalls
    BY DEF TypeOK, NetAssumption
  <2> QED
    BY <2>1
<1>4. /\ stream[c] = NULL => send_qs' = Set(send_qs, n, From(q, at + 1)) /\ stream' = stream
      /\ stream[c] # NULL => /\ send_qs' = Set(send_qs, n, From(q, at))
                             /\ stream' = [stream EXCEPT ![c].len = @ - 1]
  BY DEF GotFrom
<1>5. k \in Nat /\ k + 1 \in 1 .. Len(q) + 1
  BY <1>2, <1>3
<1>6. send_qs' = Set(send_qs, n, r)
  BY <1>2, <1>3, <1>4
<1>7. /\ r \in Seq(1 .. calls) /\ DOMAIN r = 1 .. Len(q) - (k + 1) + 1
      /\ \A j \in 1 .. Len(q) - (k + 1) + 1 :
            (k + 1) + j - 1 \in 1 .. Len(q) /\ r[j] = q[(k + 1) + j - 1]
  <2>1. \A p \in Seq(1 .. calls) : \A i \in 1 .. Len(p) + 1 :
          /\ From(p, i) \in Seq(1 .. calls) /\ DOMAIN From(p, i) = 1 .. Len(p) - i + 1
          /\ \A j \in 1 .. Len(p) - i + 1 :
                i + j - 1 \in 1 .. Len(p) /\ From(p, i)[j] = p[i + j - 1]
    BY FromOf
  <2> HIDE DEF k, q
  <2> QED
    BY <1>3, <1>5, <2>1
<1>8. r # NULL
  <2> HIDE DEF r
  <2>1. \A i \in 1 .. calls : i \in Call
    BY <1>3, Constants DEF Call
  <2>2. 1 .. calls \subseteq Call
    BY <2>1
  <2>3. r \in Seq(Call)
    BY <1>7, <2>2, SeqMonotonic
  <2> QED
    BY <2>3 DEF NetAssumption
<1>9. \A j \in DOMAIN r : j \in Nat /\ j + k \in DOMAIN q /\ r[j] = q[j + k]
  <2> HIDE DEF r, k, q
  <2>1. \A j \in DOMAIN r : (k + 1) + j - 1 = j + k /\ j \in Nat
    BY <1>3, <1>5, <1>7
  <2> QED
    BY <1>3, <1>7, <2>1
<1>10. ASSUME stream[c] # NULL
       PROVE  /\ stream[c].len > 0 /\ stream[c] \in Stream
              /\ [stream[c] EXCEPT !.len = @ - 1] \in Stream
              /\ [stream[c] EXCEPT !.len = @ - 1].len = stream[c].len - 1
              /\ [stream[c] EXCEPT !.len = @ - 1].puts = stream[c].puts
              /\ [stream[c] EXCEPT !.len = @ - 1].open = stream[c].open
  <2>1. stream[c] \in Stream /\ stream[c].len > 0
    BY <1>1, <1>2, <1>3, <1>10
  <2>2. stream[c].len - 1 \in 0 .. MaxPuts
    BY <2>1, Constants DEF Stream
  <2> QED
    BY <2>1, <2>2 DEF Stream
<1>11. stream[c] # NULL =>
          stream' = [stream EXCEPT ![c] = [stream[c] EXCEPT !.len = @ - 1]]
  BY <1>4
<1> HIDE DEF c, r
<1>12. send_qs' \in [Peer -> Seq(1 .. calls) \cup {NULL}] /\ send_qs'[n] = r
       /\ \A m \in Peer : m # n => send_qs'[m] = send_qs[m]
  BY <1>3, <1>6, <1>7 DEF Set
<1>13. /\ \A d \in Call : d # c => stream'[d] = stream[d]
       /\ stream[c] = NULL => stream'[c] = NULL
       /\ stream[c] # NULL =>
             /\ stream[c].len > 0
             /\ stream'[c] = [stream[c] EXCEPT !.len = @ - 1]
             /\ stream'[c].len = stream[c].len - 1 /\ stream'[c].puts = stream[c].puts
             /\ stream'[c].open = stream[c].open
             /\ stream'[c] # NULL
       /\ stream' \in [Call -> Stream \cup {NULL}]
  <2>1. CASE stream[c] = NULL
    BY <1>3, <1>4, <2>1
  <2>2. CASE stream[c] # NULL
    <3>1. stream' = [stream EXCEPT ![c] = [stream[c] EXCEPT !.len = @ - 1]]
      BY <1>11, <2>2
    <3>2. /\ stream'[c] = [stream[c] EXCEPT !.len = @ - 1]
          /\ \A d \in Call : d # c => stream'[d] = stream[d]
      BY <1>2, <1>3, <3>1
    <3>3. stream'[c] \in Stream /\ stream'[c] # NULL
      BY <1>3, <1>10, <2>2, <3>2
    <3>4. stream' \in [Call -> Stream \cup {NULL}]
      BY <1>3, <1>10, <2>2, <3>1
    <3> QED
      BY <1>10, <2>2, <3>2, <3>3, <3>4
  <2> QED
    BY <2>1, <2>2
<1>14. \E l \in Nat :
          /\ l = IF stream[c] = NULL THEN at ELSE at - 1
          /\ \A j \in DOMAIN send_qs'[n] :
                j \in Nat /\ j + l \in DOMAIN q /\ send_qs'[n][j] = q[j + l]
  <2>1. k = IF stream[c] = NULL THEN at ELSE at - 1
    OBVIOUS
  <2> HIDE DEF k
  <2> QED
    BY <1>5, <1>9, <1>12, <2>1
<1> HIDE DEF k
<1>15. /\ at \in DOMAIN q /\ c = q[at] /\ c \in 1 .. calls /\ c \in Call /\ ~Finished(c)
       /\ \A j \in Unfinished(q) : at <= j
       /\ send_qs'[n] \in Seq(1 .. calls) /\ send_qs'[n] # NULL
  BY <1>2, <1>7, <1>8, <1>12
<1> HIDE DEF at, q
<1> QED
  BY <1>12, <1>13, <1>14, <1>15 DEF c, at, q

\* delete of a queue changes the mark of its streams and nothing else.
LEMMA FreedOf ==
    ASSUME NetAssumption, TypeOK, NEW q
    PROVE  /\ Freed(q) \in [Call -> Stream \cup {NULL}]
           /\ \A c \in Call : Freed(q)[c] = NULL <=> stream[c] = NULL
           /\ \A c \in Call : stream[c] # NULL =>
                 /\ Freed(q)[c].len = stream[c].len /\ Freed(q)[c].puts = stream[c].puts
                 /\ Freed(q)[c].open = stream[c].open
<1>1. stream \in [Call -> Stream \cup {NULL}] /\ NULL \notin Stream
  BY DEF TypeOK, NetAssumption
<1>2. ASSUME NEW s \in Stream
      PROVE  /\ [s EXCEPT !.freed = TRUE] \in Stream
             /\ [s EXCEPT !.freed = TRUE].len = s.len /\ [s EXCEPT !.freed = TRUE].puts = s.puts
             /\ [s EXCEPT !.freed = TRUE].open = s.open
  BY DEF Stream
<1>3. ASSUME NEW c \in Call
      PROVE  Freed(q)[c] = IF stream[c] # NULL /\ c \in Range(q)
                           THEN [stream[c] EXCEPT !.freed = TRUE] ELSE stream[c]
  BY DEF Freed
<1>4. ASSUME NEW c \in Call
      PROVE  /\ Freed(q)[c] \in Stream \cup {NULL}
             /\ Freed(q)[c] = NULL <=> stream[c] = NULL
             /\ stream[c] # NULL =>
                 /\ Freed(q)[c].len = stream[c].len /\ Freed(q)[c].puts = stream[c].puts
                 /\ Freed(q)[c].open = stream[c].open
  <2>1. CASE stream[c] # NULL /\ c \in Range(q)
    <3>1. stream[c] \in Stream /\ Freed(q)[c] = [stream[c] EXCEPT !.freed = TRUE]
      BY <1>1, <1>3, <2>1
    <3> QED
      BY <1>1, <1>2, <2>1, <3>1
  <2>2. CASE ~(stream[c] # NULL /\ c \in Range(q))
    <3>1. Freed(q)[c] = stream[c]
      BY <1>3, <2>2
    <3> QED
      BY <1>1, <3>1
  <2> QED
    BY <2>1, <2>2
<1>5. Freed(q) = [c \in Call |-> Freed(q)[c]]
  BY DEF Freed
<1> QED
  BY <1>4, <1>5

\* accept_connection and connect_to: map::insert keeps what is there, the entry is
\* appended, and the peer's queue is a new one.
LEMMA RegisterOf ==
    ASSUME NetAssumption, TypeOK, NEW fd \in FD, NEW n \in Peer, Register(fd, n)
    PROVE  /\ nids' \in [FD -> Peer \cup {Nobody, NULL}]
           /\ connections' \in [Peer -> FD \cup {NULL}]
           /\ \A g \in FD : g # fd => nids'[g] = nids[g]
           /\ nids'[fd] = IF nids[fd] = NULL THEN n ELSE nids[fd]
           /\ \A m \in Peer : m # n => connections'[m] = connections[m]
           /\ connections'[n] = IF connections[n] = NULL THEN fd ELSE connections[n]
           /\ pollfds' \in Seq(Entry) /\ Range(pollfds') = Range(pollfds) \cup {fd}
           /\ send_qs' \in [Peer -> Seq(1 .. calls) \cup {NULL}]
           /\ send_qs'[n] = << >> /\ send_qs'[n] # NULL
           /\ \A m \in Peer : m # n => send_qs'[m] = send_qs[m]
           /\ stream' \in [Call -> Stream \cup {NULL}]
           /\ \A c \in Call : stream'[c] = NULL <=> stream[c] = NULL
           /\ \A c \in Call : stream[c] # NULL =>
                 /\ stream'[c].len = stream[c].len /\ stream'[c].puts = stream[c].puts
                 /\ stream'[c].open = stream[c].open
<1>1. /\ nids \in [FD -> Peer \cup {Nobody, NULL}] /\ connections \in [Peer -> FD \cup {NULL}]
      /\ pollfds \in Seq(Entry) /\ send_qs \in [Peer -> Seq(1 .. calls) \cup {NULL}]
      /\ stream \in [Call -> Stream \cup {NULL}]
  BY DEF TypeOK, Entry
<1>2. /\ nids' = IF nids[fd] = NULL THEN [nids EXCEPT ![fd] = n] ELSE nids
      /\ connections' = IF connections[n] = NULL THEN [connections EXCEPT ![n] = fd]
                                                 ELSE connections
      /\ pollfds' = Append(pollfds, fd)
      /\ send_qs' = [send_qs EXCEPT ![n] = << >>]
      /\ stream' = IF send_qs[n] = NULL THEN stream ELSE Freed(send_qs[n])
  BY DEF Register, Insert, Set
<1>3. fd \in Entry
  BY DEF Entry
<1>4. pollfds' \in Seq(Entry) /\ Range(pollfds') = Range(pollfds) \cup {fd}
  BY <1>1, <1>2, <1>3, AppendOf, RangeAppend
<1>5. << >> \in Seq(1 .. calls) /\ << >> # NULL
  <2>1. << >> \in Seq(Call) /\ << >> \in Seq(1 .. calls)
    OBVIOUS
  <2>2. NULL \notin Seq(Call)
    BY DEF NetAssumption
  <2> QED
    BY <2>1, <2>2
<1>6. /\ nids' \in [FD -> Peer \cup {Nobody, NULL}]
      /\ \A g \in FD : g # fd => nids'[g] = nids[g]
      /\ nids'[fd] = IF nids[fd] = NULL THEN n ELSE nids[fd]
  BY <1>1, <1>2
<1>7. /\ connections' \in [Peer -> FD \cup {NULL}]
      /\ \A m \in Peer : m # n => connections'[m] = connections[m]
      /\ connections'[n] = IF connections[n] = NULL THEN fd ELSE connections[n]
  BY <1>1, <1>2
<1>8. /\ send_qs' \in [Peer -> Seq(1 .. calls) \cup {NULL}]
      /\ send_qs'[n] = << >> /\ send_qs'[n] # NULL
      /\ \A m \in Peer : m # n => send_qs'[m] = send_qs[m]
  BY <1>1, <1>2, <1>5
<1>9. stream' \in {stream, Freed(send_qs[n])}
  BY <1>2
<1>10. /\ stream' \in [Call -> Stream \cup {NULL}]
       /\ \A c \in Call : stream'[c] = NULL <=> stream[c] = NULL
       /\ \A c \in Call : stream[c] # NULL =>
             /\ stream'[c].len = stream[c].len /\ stream'[c].puts = stream[c].puts
             /\ stream'[c].open = stream[c].open
  BY <1>1, <1>9, FreedOf
<1> QED
  BY <1>4, <1>6, <1>7, <1>8, <1>10

\* The tables forget a connection.
LEMMA ForgetOf ==
    ASSUME NetAssumption, TypeOK, NEW fd \in FD, NEW n \in Peer \cup {Nobody}, Forget(fd, n)
    PROVE  /\ nids' \in [FD -> Peer \cup {Nobody, NULL}]
           /\ connections' \in [Peer -> FD \cup {NULL}]
           /\ \A g \in FD : g # fd => nids'[g] = nids[g]
           /\ nids'[fd] = NULL
           /\ \A m \in Peer : m # n => connections'[m] = connections[m]
           /\ n \in Peer => connections'[n] = NULL
<1>1. /\ nids \in [FD -> Peer \cup {Nobody, NULL}] /\ connections \in [Peer -> FD \cup {NULL}]
  BY DEF TypeOK
<1>2. /\ nids' = [nids EXCEPT ![fd] = NULL]
      /\ connections' = IF n = Nobody THEN connections ELSE [connections EXCEPT ![n] = NULL]
  BY DEF Forget, Set
<1> QED
  BY <1>1, <1>2, Constants

LEMMA HangupOf ==
    ASSUME NetAssumption, TypeOK, NEW fd \in FD, Hangup(fd)
    PROVE  /\ nids' \in [FD -> Peer \cup {Nobody, NULL}]
           /\ connections' \in [Peer -> FD \cup {NULL}]
           /\ \A g \in FD : g # fd => nids'[g] = nids[g]
           /\ nids'[fd] = NULL
           /\ \A m \in Peer : m # nids[fd] => connections'[m] = connections[m]
           /\ nids[fd] \in Peer => connections'[nids[fd]] = NULL
<1>1. /\ nids \in [FD -> Peer \cup {Nobody, NULL}] /\ connections \in [Peer -> FD \cup {NULL}]
  BY DEF TypeOK
<1>2. CASE nids[fd] = NULL
  BY <1>1, <1>2, Constants DEF Hangup
<1>3. CASE nids[fd] # NULL
  <2>1. Forget(fd, nids[fd]) /\ nids[fd] \in Peer \cup {Nobody}
    BY <1>1, <1>3 DEF Hangup
  <2> QED
    BY <2>1, ForgetOf
<1> QED
  BY <1>2, <1>3

\* send_msg_now: either it fails, and the connection it tried is closed and forgotten,
\* or the connections stay as they are.
LEMMA SendNowOf ==
    ASSUME NetAssumption, TypeOK, NEW n \in Peer, NEW c \in (1 .. calls) \cup {NULL}, NEW next,
           SendNow(n, c, next)
    PROVE  /\ pc' \in {next, "undefined", "killed"}
           /\ \/ /\ connections[n] \in FD /\ sock' = Set(sock, connections[n], NULL)
                 /\ Forget(connections[n], n)
              \/ UNCHANGED <<sock, nids, connections>>
           /\ sock' \in [FD -> Socket \cup {NULL}]
           /\ nids' \in [FD -> Peer \cup {Nobody, NULL}]
           /\ connections' \in [Peer -> FD \cup {NULL}]
           /\ wire' \in [Peer -> 0 .. calls]
           /\ \A m \in Peer : m # n => wire'[m] = wire[m]
           /\ wire'[n] = wire[n] \/ (c # NULL /\ wire'[n] = c)
<1>1. /\ nids \in [FD -> Peer \cup {Nobody, NULL}] /\ connections \in [Peer -> FD \cup {NULL}]
      /\ sock \in [FD -> Socket \cup {NULL}] /\ wire \in [Peer -> 0 .. calls]
      /\ calls \in Nat
  BY DEF TypeOK
<1>2. \/ /\ UNCHANGED <<sock, nids, connections, wire>> /\ pc' \in {"undefined", "killed"}
      \/ /\ connections[n] # NULL /\ sock' = Set(sock, connections[n], NULL)
         /\ Forget(connections[n], n) /\ UNCHANGED wire /\ pc' = next
      \/ /\ UNCHANGED <<sock, nids, connections>> /\ pc' = next
         /\ wire' = IF c = NULL THEN wire ELSE Set(wire, n, c)
  BY DEF SendNow
<1>3. CASE UNCHANGED <<sock, nids, connections, wire>> /\ pc' \in {"undefined", "killed"}
  BY <1>1, <1>3
<1>4. CASE /\ connections[n] # NULL /\ sock' = Set(sock, connections[n], NULL)
           /\ Forget(connections[n], n) /\ UNCHANGED wire /\ pc' = next
  <2>1. connections[n] \in FD
    BY <1>1, <1>4
  <2>2. sock' \in [FD -> Socket \cup {NULL}]
    BY <1>1, <1>4, <2>1 DEF Set
  <2> QED
    BY <1>1, <1>4, <2>1, <2>2, ForgetOf
<1>5. CASE /\ UNCHANGED <<sock, nids, connections>> /\ pc' = next
           /\ wire' = IF c = NULL THEN wire ELSE Set(wire, n, c)
  <2>1. c # NULL => c \in 0 .. calls
    BY <1>1
  <2> QED
    BY <1>1, <1>5, <2>1 DEF Set
<1> QED
  BY <1>2, <1>3, <1>4, <1>5

\* net_idle: prunePollFds keeps the entries that are polled, and the round of
\* send_readies begins with every peer that has a message ready, once.
LEMMA IdlingOf ==
    ASSUME NetAssumption, TypeOK, Idling
    PROVE  /\ pollfds' \in Seq(Entry) /\ Range(pollfds') = {e \in Range(pollfds) : e > 0}
           /\ keys' \in Seq(Peer)
           /\ \A i, j \in DOMAIN keys' : keys'[i] = keys'[j] => i = j
           /\ \A i \in DOMAIN keys' : keys'[i] \in ReadyPeers
           /\ pc' = IF keys' # << >> THEN "send" ELSE Back
<1> DEFINE kept == {i \in DOMAIN pollfds : pollfds[i] > 0}
<1>1. pollfds \in Seq(Entry)
  BY DEF TypeOK, Entry
<1>2. /\ pollfds' = Picked(pollfds, kept) /\ keys' \in SetToSeqs(ReadyPeers)
      /\ pc' = IF keys' # << >> THEN "send" ELSE Back
  BY DEF Idling, Pruned
<1>3. /\ Picked(pollfds, kept) \in Seq(Entry)
      /\ Range(Picked(pollfds, kept)) = {pollfds[i] : i \in kept}
  BY <1>1, PickedOf
<1>4. {pollfds[i] : i \in kept} = {e \in Range(pollfds) : e > 0}
  BY DEF Range
<1>5. IsFiniteSet(ReadyPeers) /\ Cardinality(ReadyPeers) \in Nat
  <2>1. ReadyPeers \in SUBSET Peer
    BY DEF ReadyPeers
  <2> QED
    BY <2>1, Constants, FS_Subset, FS_CardinalityType
<1>6. /\ keys' \in [1 .. Cardinality(ReadyPeers) -> ReadyPeers]
      /\ \A i, j \in 1 .. Cardinality(ReadyPeers) : i # j => keys'[i] # keys'[j]
  BY <1>2 DEF SetToSeqs
<1>7. ReadyPeers \subseteq Peer
  BY DEF ReadyPeers
<1>8. keys' \in Seq(Peer)
  BY <1>5, <1>6, <1>7
<1> QED
  BY <1>2, <1>3, <1>4, <1>6, <1>8
-----------------------------------------------------------------------------
(***************************************************************************)
(* The types                                                               *)
(***************************************************************************)
KernelTypes == sock \in [FD -> Socket \cup {NULL}] /\ backlog \in {<< >>} \cup {<<n>> : n \in Peer}
TableTypes ==
    /\ pollfds \in Seq(Entry)
    /\ nids \in [FD -> Peer \cup {Nobody, NULL}]
    /\ connections \in [Peer -> FD \cup {NULL}]
QueueTypes ==
    /\ send_qs \in [Peer -> Seq(1 .. calls) \cup {NULL}]
    /\ stream \in [Call -> Stream \cup {NULL}]
    /\ \A c \in Call : stream[c] # NULL => c <= calls /\ stream[c].len <= stream[c].puts
    /\ calls \in 0 .. MaxCalls /\ wire \in [Peer -> 0 .. calls]
Doing == {"idle", "poll", "accept", "wait", "send", "connect", "identify", "put", "down"} \cup Ended
ControlTypes ==
    /\ addresses \in [Peer -> {"none", "listening", "ephemeral"}]
    /\ start \in Nat /\ last_fd \in FD \cup {NULL}
    /\ pc \in Doing
    /\ wait \in Waited \cup {NULL} /\ (pc = "wait" => wait # NULL)
    /\ keys \in Seq(Peer) /\ (pc = "send" => keys # << >>)
    /\ dest \in Destination \cup {NULL}
    /\ pc \in {"connect", "identify", "put"} => dest # NULL
    /\ suspended \subseteq Peer

LEMMA TypeParts == TypeOK <=> KernelTypes /\ TableTypes /\ QueueTypes /\ ControlTypes
  BY DEF TypeOK, KernelTypes, TableTypes, QueueTypes, ControlTypes, Entry, Doing

Connects == {"connect", "identify", "put"}
LEMMA Values ==
    ASSUME NetAssumption
    PROVE  /\ \A fd \in FD : [fd |-> fd, by |-> "app"] \in Waited
                             /\ [fd |-> fd, by |-> "accept"] \in Waited
           /\ \A n \in Peer, use \in {"send_msg", "send_stream"} :
                 [to |-> n, use |-> use] \in Destination
           /\ \A n \in Peer : Fresh(n) \in Socket
           /\ Unconnected \in Socket /\ NewStream \in Stream
           /\ NULL \notin Waited /\ NULL \notin Destination /\ NULL \notin Socket
           /\ NULL \notin Stream
           /\ \A w \in Waited : w.fd \in FD
           /\ \A d \in Destination : d.to \in Peer
           /\ \A s \in Socket : s.peer \in Peer \cup {NULL} /\ s.in \in Nat
           /\ \A s \in Stream : s.len \in Nat /\ s.puts \in Nat
  BY Constants DEF NetAssumption, Waited, Destination, Functions, Socket, Stream, Fresh, Unconnected,
                   NewStream

LEMMA PollingTypes ==
    ASSUME NetAssumption, IInv, Polling
    PROVE  TypeOK'
<1>1. KernelTypes /\ TableTypes /\ QueueTypes /\ ControlTypes /\ TypeOK
  BY TypeParts DEF IInv
<1>2. CASE NextMsgNow
  <2>1. KernelTypes' /\ TableTypes' /\ QueueTypes' /\ ControlTypes'
    BY <1>1, <1>2 DEF NextMsgNow, Main, tables, queues, history, KernelTypes, TableTypes,
          QueueTypes, ControlTypes, Doing
  <2> QED
    BY <2>1, TypeParts, PTL
<1>3. CASE PollNothing
  <2>1. KernelTypes' /\ TableTypes' /\ QueueTypes' /\ ControlTypes'
    BY <1>1, <1>3 DEF PollNothing, Main, tables, queues, history, KernelTypes, TableTypes,
          QueueTypes, ControlTypes, Doing
  <2> QED
    BY <2>1, TypeParts, PTL
<1>4. CASE PollAccept
  <2>1. start' \in Nat /\ backlog' = backlog /\ history' = history
    BY <1>1, <1>4, PolledOf DEF PollAccept
  <2>2. KernelTypes' /\ TableTypes' /\ QueueTypes' /\ ControlTypes'
    BY <1>1, <1>4, <2>1 DEF PollAccept, tables, queues, history, control, KernelTypes,
          TableTypes, QueueTypes, ControlTypes, Doing
  <2> QED
    BY <2>2, TypeParts, PTL
<1>5. CASE PollAgain
  <2>1. start' \in Nat /\ backlog' = backlog /\ history' = history
    BY <1>1, <1>5, PolledOf DEF PollAgain
  <2>2. KernelTypes' /\ TableTypes' /\ QueueTypes' /\ ControlTypes'
    BY <1>1, <1>5, <2>1 DEF PollAgain, tables, queues, history, control, KernelTypes,
          TableTypes, QueueTypes, ControlTypes, Doing
  <2> QED
    BY <2>2, TypeParts, PTL
<1>6. CASE PollRecv
  <2> DEFINE fd == Found
  <2>1. /\ start' \in Nat /\ backlog' = backlog /\ history' = history
        /\ start' + 1 \in DOMAIN pollfds /\ fd \in Entry
    BY <1>1, <1>6, PolledOf DEF PollRecv
  <2>2. fd \in FD /\ sock[fd] # NULL
    BY <1>6, <2>1, InOf DEF PollRecv
  <2>3. CASE Received(fd) = "message" /\ sock' = Taken(fd) /\ last_fd' = fd /\ pc' = "idle"
             /\ UNCHANGED tables
    <3>1. KernelTypes'
      BY <1>1, <2>1, <2>2, <2>3, TakenOf DEF KernelTypes
    <3>2. TableTypes' /\ QueueTypes' /\ ControlTypes'
      BY <1>1, <1>6, <2>1, <2>2, <2>3 DEF PollRecv, tables, queues, history, TableTypes,
            QueueTypes, ControlTypes, Doing
    <3> QED
      BY <3>1, <3>2, TypeParts, PTL
  <2>4. CASE Received(fd) = "end" /\ Hangup(fd) /\ pollfds' = Set(pollfds, start' + 1, HungUp(fd))
             /\ UNCHANGED <<sock, last_fd, pc>>
    <3>1. pollfds' \in Seq(Entry)
      <4>1. HungUp(fd) \in Entry
        BY <2>2 DEF HungUp, Entry
      <4>2. PICK k \in DOMAIN pollfds : k = start' + 1
        BY <2>1
      <4>3. pollfds' = [pollfds EXCEPT ![k] = HungUp(fd)]
        BY <2>4, <4>2 DEF Set
      <4> QED
        BY <1>1, <4>1, <4>3 DEF TableTypes
    <3>2. TableTypes'
      BY <1>1, <2>2, <2>4, <3>1, HangupOf DEF TableTypes
    <3>3. KernelTypes' /\ QueueTypes' /\ ControlTypes'
      BY <1>1, <1>6, <2>1, <2>4 DEF PollRecv, queues, history, KernelTypes, QueueTypes,
            ControlTypes, Doing
    <3> QED
      BY <3>2, <3>3, TypeParts, PTL
  <2>5. CASE pc' = "exit" /\ UNCHANGED <<sock, tables, last_fd>>
    <3>1. KernelTypes' /\ TableTypes' /\ QueueTypes' /\ ControlTypes'
      BY <1>1, <1>6, <2>1, <2>5 DEF PollRecv, tables, queues, history, KernelTypes, TableTypes,
            QueueTypes, ControlTypes, Doing, Ended
    <3> QED
      BY <3>1, TypeParts, PTL
  <2> QED
    BY <1>6, <2>3, <2>4, <2>5 DEF PollRecv
<1>7. CASE Accept
  <2>1. backlog # << >> /\ FreeFds # {} /\ backlog \in {<<n>> : n \in Peer}
    BY <1>1, <1>7 DEF Accept, IInv, Places, KernelTypes
  <2>2. Head(backlog) \in Peer /\ Tail(backlog) = << >>
    <3>1. PICK n \in Peer : backlog = <<n>>
      BY <2>1
    <3> QED
      BY <3>1
  <2>3. NewFd \in FD
    BY <2>1, NewFdOf
  <2>4. KernelTypes'
    <3>1. Fresh(Head(backlog)) \in Socket
      BY <2>2, Values
    <3> QED
      BY <1>1, <1>7, <2>2, <2>3, <3>1 DEF Accept, Set, KernelTypes
  <2>5. wait' \in Waited /\ wait' # NULL
    BY <1>7, <2>3, Values DEF Accept
  <2>6. TableTypes' /\ QueueTypes' /\ ControlTypes'
    BY <1>1, <1>7, <2>5 DEF Accept, tables, queues, history, TableTypes, QueueTypes, ControlTypes,
          Doing
  <2> QED
    BY <2>4, <2>6, TypeParts, PTL
<1> QED
  BY <1>2, <1>3, <1>4, <1>5, <1>6, <1>7 DEF Polling

LEMMA ServingTypes ==
    ASSUME NetAssumption, IInv, Serving
    PROVE  TypeOK'
<1>1. KernelTypes /\ TableTypes /\ QueueTypes /\ ControlTypes /\ TypeOK
  BY TypeParts DEF IInv
<1>2. CASE WaitIdle \/ NetIdle
  <2>1. Idling
    BY <1>2 DEF WaitIdle, NetIdle
  <2>2. TableTypes'
    BY <1>1, <2>1, IdlingOf DEF Idling, TableTypes
  <2>3. /\ keys' \in Seq(Peer) /\ pc' \in {"send", "idle", "wait"}
        /\ pc' = "send" => keys' # << >>
        /\ pc' = "wait" => wait' # NULL
    BY <1>1, <2>1, IdlingOf DEF Idling, Back
  <2>4. KernelTypes' /\ QueueTypes' /\ ControlTypes'
    BY <1>1, <2>1, <2>3 DEF Idling, Main, queues, history, KernelTypes, QueueTypes, ControlTypes,
          Doing
  <2> QED
    BY <2>2, <2>4, TypeParts, PTL
<1>3. CASE Identified
  <2> DEFINE fd == wait.fd
  <2>1. wait # NULL /\ wait.by = "accept" /\ fd \in FD
    BY <1>1, <1>3, Values DEF Identified, Waiting, ControlTypes
  <2>2. sock[fd] # NULL /\ sock[fd].peer \in Peer
    BY <2>1 DEF IInv, Unlisted, Accepting
  <2>3. Received(fd) = "message" /\ sock' = Taken(fd) /\ Register(fd, sock[fd].peer)
    BY <1>3 DEF Identified
  <2>4. KernelTypes'
    BY <1>1, <1>3, <2>1, <2>2, <2>3, TakenOf DEF Identified, Waiting, Main, KernelTypes
  <2>5. /\ nids' \in [FD -> Peer \cup {Nobody, NULL}]
        /\ connections' \in [Peer -> FD \cup {NULL}]
        /\ pollfds' \in Seq(Entry)
        /\ send_qs' \in [Peer -> Seq(1 .. calls) \cup {NULL}]
        /\ stream' \in [Call -> Stream \cup {NULL}]
        /\ \A c \in Call : stream'[c] = NULL <=> stream[c] = NULL
        /\ \A c \in Call : stream[c] # NULL =>
              /\ stream'[c].len = stream[c].len /\ stream'[c].puts = stream[c].puts
              /\ stream'[c].open = stream[c].open
    BY <1>1, <2>1, <2>2, <2>3, RegisterOf
  <2>6. TableTypes'
    BY <2>5 DEF TableTypes
  <2>7. calls' = calls /\ wire' = wire /\ suspended' = suspended
    BY <1>3 DEF Identified, Waiting, Main, history
  <2>8. QueueTypes'
    BY <1>1, <2>5, <2>7 DEF QueueTypes
  <2>9. ControlTypes'
    BY <1>1, <1>3, <2>2, <2>7 DEF Identified, Set, ControlTypes, Doing
  <2> QED
    BY <2>4, <2>6, <2>8, <2>9, TypeParts, PTL
<1>4. CASE Unidentified
  <2> DEFINE fd == wait.fd
  <2>1. wait # NULL /\ wait.by = "accept" /\ fd \in FD
    BY <1>1, <1>4, Values DEF Unidentified, Waiting, ControlTypes
  <2>2. KernelTypes'
    BY <1>1, <1>4, <2>1 DEF Unidentified, Waiting, Main, Set, KernelTypes
  <2>3. TableTypes'
    BY <1>1, <1>4, <2>1, HangupOf DEF Unidentified, TableTypes
  <2>4. QueueTypes' /\ ControlTypes'
    BY <1>1, <1>4 DEF Unidentified, Waiting, Main, queues, history, QueueTypes, ControlTypes, Doing
  <2> QED
    BY <2>2, <2>3, <2>4, TypeParts, PTL
<1>5. CASE WaitError
  <2>1. KernelTypes' /\ TableTypes' /\ QueueTypes' /\ ControlTypes'
    BY <1>1, <1>5 DEF WaitError, Waiting, Main, tables, queues, history, KernelTypes, TableTypes,
          QueueTypes, ControlTypes, Doing, Ended
  <2> QED
    BY <2>1, TypeParts, PTL
<1>6. ASSUME NEW n \in Peer, SendReady(n)
      PROVE  TypeOK'
  <2>1. /\ keys \in Seq(Peer) /\ keys # << >> /\ n = keys[1] /\ 1 \in DOMAIN keys
        /\ Tail(keys) \in Seq(Peer)
    BY <1>1, <1>6 DEF SendReady, ControlTypes
  <2>2. send_qs[n] # NULL /\ Ready(send_qs[n])
    BY <1>6, <2>1 DEF SendReady, IInv, Round, ReadyAt, Range
  <2>3. GotFrom(n)
    BY <1>6 DEF SendReady
  <2> DEFINE c == Got(n)
  <2>4. /\ c \in 1 .. calls /\ c \in Call
        /\ send_qs' \in [Peer -> Seq(1 .. calls) \cup {NULL}]
        /\ \A d \in Call : d # c => stream'[d] = stream[d]
        /\ stream[c] = NULL => stream'[c] = NULL
        /\ stream[c] # NULL =>
              stream'[c].len = stream[c].len - 1 /\ stream'[c].puts = stream[c].puts
        /\ stream' \in [Call -> Stream \cup {NULL}]
    BY <1>1, <2>2, <2>3, GotOf
  <2>5. PICK next : next = IF keys' # << >> THEN "send" ELSE Back
    OBVIOUS
  <2>6. SendNow(n, c, next)
    BY <1>6, <2>5 DEF SendReady
  <2>7. /\ sock' \in [FD -> Socket \cup {NULL}]
        /\ nids' \in [FD -> Peer \cup {Nobody, NULL}]
        /\ connections' \in [Peer -> FD \cup {NULL}]
        /\ wire' \in [Peer -> 0 .. calls]
        /\ pc' \in {next, "undefined", "killed"}
    BY <1>1, <2>4, <2>6, SendNowOf
  <2>8. /\ UNCHANGED <<backlog, pollfds, addresses, start, last_fd, wait, dest, calls, suspended>>
    BY <1>6 DEF SendReady
  <2>9. KernelTypes' /\ TableTypes'
    BY <1>1, <2>7, <2>8 DEF KernelTypes, TableTypes
  <2>10. QueueTypes'
    <3>1. ASSUME NEW d \in Call, stream'[d] # NULL
          PROVE  d <= calls /\ stream'[d].len <= stream'[d].puts
      <4>1. CASE d = c
        <5>1. stream[c] # NULL /\ stream[c] \in Stream
          BY <1>1, <2>4, <3>1, <4>1 DEF QueueTypes
        <5>2. stream[c].len \in Nat /\ stream[c].puts \in Nat /\ stream[c].len <= stream[c].puts
              /\ c <= calls
          BY <1>1, <2>4, <5>1, Values DEF QueueTypes
        <5> QED
          BY <2>4, <4>1, <5>1, <5>2
      <4>2. CASE d # c
        BY <1>1, <2>4, <3>1, <4>2 DEF QueueTypes
      <4> QED
        BY <4>1, <4>2
    <3> HIDE DEF c
    <3> QED
      BY <1>1, <2>4, <2>7, <2>8, <3>1 DEF QueueTypes
  <2>11. keys' \in Seq(Peer)
    <3>1. keys' \in {Append(Tail(keys), n), Tail(keys)}
      BY <1>6 DEF SendReady
    <3> QED
      BY <2>1, <3>1
  <2>12. pc' \in Doing /\ (pc' = "send" => keys' # << >>) /\ (pc' = "wait" => wait # NULL)
         /\ pc' \notin Connects
    BY <2>5, <2>7 DEF Back, Doing, Ended, Connects
  <2>13. ControlTypes'
    BY <1>1, <2>8, <2>11, <2>12 DEF ControlTypes, Connects
  <2> QED
    BY <2>9, <2>10, <2>13, TypeParts, PTL
<1> QED
  BY <1>2, <1>3, <1>4, <1>5, <1>6 DEF Serving

LEMMA SendingTypes ==
    ASSUME NetAssumption, IInv, Sending
    PROVE  TypeOK'
<1>1. KernelTypes /\ TableTypes /\ QueueTypes /\ ControlTypes /\ TypeOK
  BY TypeParts DEF IInv
<1>2. ASSUME NEW n \in Peer, NEW use \in {"send_msg", "send_stream"}, Send(n, use)
      PROVE  TypeOK'
  <2>1. /\ calls \in 0 .. MaxCalls /\ calls < MaxCalls /\ calls' = calls + 1
        /\ MaxCalls \in Nat /\ calls' \in 0 .. MaxCalls /\ 1 .. calls \subseteq 1 .. calls'
        /\ 0 .. calls \subseteq 0 .. calls'
    BY <1>1, <1>2, Constants DEF Send, QueueTypes
  <2>2. UNCHANGED <<send_qs, stream, wire>>
    BY <1>2 DEF Send, queues
  <2>3. \A q \in Seq(1 .. calls) : q \in Seq(1 .. calls')
    BY <2>1, SeqMonotonic
  <2>4. send_qs' \in [Peer -> Seq(1 .. calls') \cup {NULL}]
    BY <1>1, <2>2, <2>3 DEF QueueTypes
  <2>5. wire' \in [Peer -> 0 .. calls']
    BY <1>1, <2>1, <2>2 DEF QueueTypes
  <2>6. \A c \in Call : stream'[c] # NULL => c <= calls' /\ stream'[c].len <= stream'[c].puts
    BY <1>1, <2>1, <2>2, Constants DEF QueueTypes
  <2>7. QueueTypes'
    BY <1>1, <2>1, <2>2, <2>4, <2>5, <2>6 DEF QueueTypes
  <2>8. dest' \in Destination /\ dest' # NULL
    BY <1>2, Values DEF Send
  <2>9. KernelTypes' /\ TableTypes' /\ ControlTypes'
    BY <1>1, <1>2, <2>8 DEF Send, kernel, tables, KernelTypes, TableTypes, ControlTypes, Doing
  <2> QED
    BY <2>7, <2>9, TypeParts, PTL
<1>3. CASE ConnectFails
  <2>1. FreeFds # {}
    BY <1>1, <1>3, FdLeftOf DEF ConnectFails
  <2>2. NewFd \in FD /\ Unconnected \in Socket
    BY <2>1, NewFdOf, Values
  <2>3. KernelTypes'
    BY <1>1, <1>3, <2>2 DEF ConnectFails, Main, Set, KernelTypes
  <2>4. TableTypes' /\ QueueTypes' /\ ControlTypes'
    BY <1>1, <1>3 DEF ConnectFails, Main, tables, queues, history, TableTypes, QueueTypes,
          ControlTypes, Doing, Ended
  <2> QED
    BY <2>3, <2>4, TypeParts, PTL
<1>4. CASE ConnectTo
  <2>1. FreeFds # {} /\ dest.to \in Peer
    BY <1>1, <1>4, FdLeftOf, Values DEF ConnectTo, ControlTypes
  <2>2. NewFd \in FD /\ Fresh(dest.to) \in Socket
    BY <2>1, NewFdOf, Values
  <2>3. KernelTypes'
    BY <1>1, <1>4, <2>2 DEF ConnectTo, Main, Set, KernelTypes
  <2>4. Register(NewFd, dest.to)
    BY <1>4 DEF ConnectTo
  <2>5. /\ nids' \in [FD -> Peer \cup {Nobody, NULL}]
        /\ connections' \in [Peer -> FD \cup {NULL}]
        /\ pollfds' \in Seq(Entry)
        /\ send_qs' \in [Peer -> Seq(1 .. calls) \cup {NULL}]
        /\ stream' \in [Call -> Stream \cup {NULL}]
        /\ \A c \in Call : stream'[c] = NULL <=> stream[c] = NULL
        /\ \A c \in Call : stream[c] # NULL =>
              /\ stream'[c].len = stream[c].len /\ stream'[c].puts = stream[c].puts
              /\ stream'[c].open = stream[c].open
    BY <1>1, <2>1, <2>2, <2>4, RegisterOf
  <2>6. TableTypes'
    BY <2>5 DEF TableTypes
  <2>7. calls' = calls /\ wire' = wire /\ suspended' = suspended
    BY <1>4 DEF ConnectTo, Main, history
  <2>8. QueueTypes'
    BY <1>1, <2>5, <2>7 DEF QueueTypes
  <2>9. ControlTypes'
    BY <1>1, <1>4, <2>7 DEF ConnectTo, ControlTypes, Doing
  <2> QED
    BY <2>3, <2>6, <2>8, <2>9, TypeParts, PTL
<1>5. CASE SendIdentity
  <2>1. dest # NULL /\ dest.to \in Peer
    BY <1>1, <1>5, Values DEF SendIdentity, ControlTypes
  <2>2. /\ sock' \in [FD -> Socket \cup {NULL}]
        /\ nids' \in [FD -> Peer \cup {Nobody, NULL}]
        /\ connections' \in [Peer -> FD \cup {NULL}]
        /\ wire' \in [Peer -> 0 .. calls]
        /\ pc' \in {"put", "undefined", "killed"}
    BY <1>1, <1>5, <2>1, SendNowOf DEF SendIdentity
  <2>3. KernelTypes' /\ TableTypes' /\ QueueTypes' /\ ControlTypes'
    BY <1>1, <1>5, <2>1, <2>2 DEF SendIdentity, queues, KernelTypes, TableTypes, QueueTypes,
          ControlTypes, Doing, Ended
  <2> QED
    BY <2>3, TypeParts, PTL
<1>6. CASE SendDirect
  <2>1. dest # NULL /\ dest.to \in Peer /\ calls \in Call /\ calls \in 1 .. calls
    BY <1>1, <1>6, Values DEF SendDirect, Put, ControlTypes, IInv, Places, Call
  <2>2. /\ sock' \in [FD -> Socket \cup {NULL}]
        /\ nids' \in [FD -> Peer \cup {Nobody, NULL}]
        /\ connections' \in [Peer -> FD \cup {NULL}]
        /\ wire' \in [Peer -> 0 .. calls]
        /\ pc' \in {"idle", "undefined", "killed"}
    BY <1>1, <1>6, <2>1, SendNowOf DEF SendDirect
  <2>3. KernelTypes' /\ TableTypes' /\ QueueTypes' /\ ControlTypes'
    BY <1>1, <1>6, <2>1, <2>2 DEF SendDirect, Put, queues, KernelTypes, TableTypes, QueueTypes,
          ControlTypes, Doing, Ended
  <2> QED
    BY <2>3, TypeParts, PTL
<1>7. CASE SendLater \/ SendStream
  <2>1. /\ dest # NULL /\ dest.to \in Peer /\ calls \in Call /\ calls \in 1 .. calls
        /\ send_qs[dest.to] # NULL
    BY <1>1, <1>7, Values DEF SendLater, SendStream, Put, ControlTypes, IInv, Places, Call
  <2>2. send_qs' \in [Peer -> Seq(1 .. calls) \cup {NULL}]
    <3>1. send_qs[dest.to] \in Seq(1 .. calls)
      BY <1>1, <2>1 DEF QueueTypes
    <3>2. Append(send_qs[dest.to], calls) \in Seq(1 .. calls)
      BY <2>1, <3>1, AppendOf
    <3>3. send_qs' = [send_qs EXCEPT ![dest.to] = Append(send_qs[dest.to], calls)]
      BY <1>7 DEF SendLater, SendStream, Enqueue
    <3> QED
      BY <1>1, <3>2, <3>3 DEF QueueTypes
  <2>3. /\ stream' \in [Call -> Stream \cup {NULL}]
        /\ \A c \in Call : stream'[c] # NULL => c <= calls /\ stream'[c].len <= stream'[c].puts
    <3>1. CASE stream' = stream
      BY <1>1, <3>1 DEF QueueTypes
    <3>2. CASE stream' = Set(stream, calls, NewStream)
      <4>1. NewStream \in Stream /\ NewStream.len <= NewStream.puts /\ calls <= calls
        BY <2>1, Values, Constants DEF NewStream
      <4> HIDE DEF NewStream
      <4> QED
        BY <1>1, <2>1, <3>2, <4>1 DEF QueueTypes, Set
    <3> QED
      BY <1>7, <3>1, <3>2 DEF SendLater, SendStream
  <2>4. calls' = calls /\ wire' = wire
    BY <1>7 DEF SendLater, SendStream, Main, history
  <2>5. QueueTypes'
    BY <1>1, <2>2, <2>3, <2>4 DEF QueueTypes
  <2>6. KernelTypes' /\ TableTypes' /\ ControlTypes'
    BY <1>1, <1>7 DEF SendLater, SendStream, Put, Enqueue, Main, tables, history, KernelTypes,
          TableTypes, ControlTypes, Doing
  <2> QED
    BY <2>5, <2>6, TypeParts, PTL
<1> QED
  BY <1>2, <1>3, <1>4, <1>5, <1>6, <1>7 DEF Sending

LEMMA ApplicationTypes ==
    ASSUME NetAssumption, IInv, Application
    PROVE  TypeOK'
<1>1. KernelTypes /\ TableTypes /\ QueueTypes /\ ControlTypes /\ TypeOK
  BY TypeParts DEF IInv
<1>2. CASE Sending
  BY <1>2, SendingTypes
<1>3. CASE NextMsgSame
  <2>1. wait' \in Waited /\ wait' # NULL
    BY <1>1, <1>3, Values DEF NextMsgSame, WaitOn, ControlTypes
  <2>2. KernelTypes' /\ TableTypes' /\ QueueTypes' /\ ControlTypes'
    BY <1>1, <1>3, <2>1 DEF NextMsgSame, WaitOn, Main, tables, queues, history, KernelTypes,
          TableTypes, QueueTypes, ControlTypes, Doing
  <2> QED
    BY <2>2, TypeParts, PTL
<1>4. CASE WaitReturns
  <2> DEFINE fd == wait.fd
  <2>1. wait # NULL /\ fd \in FD /\ "IN" \in Revents(fd)
    BY <1>1, <1>4, Values DEF WaitReturns, Waiting, ControlTypes
  <2>2. sock[fd] # NULL
    BY <2>1, InOf, Constants DEF Entry
  <2>3. KernelTypes' /\ TableTypes'
    <3>1. CASE /\ Received(fd) = "message" /\ sock' = Taken(fd)
               /\ UNCHANGED <<nids, connections>>
      BY <1>1, <1>4, <2>1, <2>2, <3>1, TakenOf DEF WaitReturns, Waiting, Main, KernelTypes,
            TableTypes
    <3>2. CASE Hangup(fd) /\ UNCHANGED sock
      BY <1>1, <1>4, <2>1, <3>2, HangupOf DEF WaitReturns, Waiting, Main, KernelTypes, TableTypes
    <3> QED
      BY <1>4, <3>1, <3>2 DEF WaitReturns
  <2>4. QueueTypes' /\ ControlTypes'
    BY <1>1, <1>4 DEF WaitReturns, Waiting, Main, queues, history, QueueTypes, ControlTypes, Doing
  <2> QED
    BY <2>3, <2>4, TypeParts, PTL
<1>5. CASE MsgSource
  <2>1. last_fd \in FD
    BY <1>1, <1>5 DEF MsgSource, ControlTypes
  <2>2. TableTypes'
    BY <1>1, <1>5, <2>1 DEF MsgSource, Set, TableTypes
  <2>3. KernelTypes' /\ QueueTypes' /\ ControlTypes'
    BY <1>1, <1>5 DEF MsgSource, Main, queues, history, control, KernelTypes, QueueTypes,
          ControlTypes
  <2> QED
    BY <2>2, <2>3, TypeParts, PTL
<1>6. ASSUME NEW n \in Peer, NextMsgFrom(n)
      PROVE  TypeOK'
  <2>1. /\ wait' \in Waited \cup {NULL} /\ pc' \in {"undefined", "wait"}
        /\ pc' = "wait" => wait' # NULL
    <3>1. CASE connections[n] = NULL
      <4>1. pc' = "undefined" /\ wait' = wait
        BY <1>6, <3>1 DEF NextMsgFrom
      <4> QED
        BY <1>1, <4>1 DEF ControlTypes
    <3>2. CASE connections[n] # NULL
      <4>1. connections[n] \in FD /\ wait' = [fd |-> connections[n], by |-> "app"] /\ pc' = "wait"
        BY <1>1, <1>6, <3>2 DEF NextMsgFrom, WaitOn, TableTypes
      <4>2. wait' \in Waited /\ NULL \notin Waited
        BY <4>1, Values
      <4> QED
        BY <4>1, <4>2
    <3> QED
      BY <3>1, <3>2
  <2>2. KernelTypes' /\ TableTypes' /\ QueueTypes' /\ ControlTypes'
    BY <1>1, <1>6, <2>1 DEF NextMsgFrom, Main, tables, queues, history, KernelTypes,
          TableTypes, QueueTypes, ControlTypes, Doing, Ended
  <2> QED
    BY <2>2, TypeParts, PTL
<1>7. ASSUME NEW n \in Peer, NetSuspend(n)
      PROVE  TypeOK'
  <2>1. pollfds' \in Seq(Entry)
    <3> DEFINE is == Where(connections[n])
    <3>1. connections[n] \in FD /\ -connections[n] \in Entry /\ pollfds \in Seq(Entry)
      BY <1>1, <1>7 DEF NetSuspend, TableTypes, Entry
    <3>2. is # {} => Lowest(is) \in DOMAIN pollfds
      <4>1. DOMAIN pollfds \subseteq Nat
        BY <3>1
      <4>2. is \in SUBSET Nat /\ is \subseteq DOMAIN pollfds
        BY <4>1 DEF Where
      <4> QED
        BY <4>2, LowestOf
    <3>3. is # {} => Set(pollfds, Lowest(is), -connections[n]) \in Seq(Entry)
      BY <3>1, <3>2 DEF Set
    <3> QED
      BY <1>7, <3>1, <3>3 DEF NetSuspend
  <2>2. KernelTypes' /\ TableTypes' /\ QueueTypes' /\ ControlTypes'
    BY <1>1, <1>7, <2>1 DEF NetSuspend, kernel, queues, control, KernelTypes, TableTypes,
          QueueTypes, ControlTypes
  <2> QED
    BY <2>2, TypeParts, PTL
<1>8. ASSUME NEW n \in Peer, NetResume(n)
      PROVE  TypeOK'
  <2>1. pollfds' \in Seq(Entry)
    <3>1. connections[n] # NULL => connections[n] \in Entry
      BY <1>1 DEF TableTypes, Entry
    <3> QED
      BY <1>1, <1>8, <3>1, AppendOf DEF NetResume, TableTypes
  <2>2. KernelTypes' /\ TableTypes' /\ QueueTypes' /\ ControlTypes'
    BY <1>1, <1>8, <2>1 DEF NetResume, kernel, queues, control, KernelTypes, TableTypes,
          QueueTypes, ControlTypes
  <2> QED
    BY <2>2, TypeParts, PTL
<1>9. ASSUME NEW n \in Peer, SetNodeAddr(n)
      PROVE  TypeOK'
  <2>1. KernelTypes' /\ TableTypes' /\ QueueTypes' /\ ControlTypes'
    BY <1>1, <1>9 DEF SetNodeAddr, Set, Main, tables, queues, control, history, KernelTypes,
          TableTypes, QueueTypes, ControlTypes
  <2> QED
    BY <2>1, TypeParts, PTL
<1>10. CASE ShutdownServer
  <2>1. sock' \in [FD -> Socket \cup {NULL}] /\ pc' \in {"down", "exit"}
    BY <1>1, <1>10 DEF ShutdownServer, NoTables, KernelTypes
  <2>2. KernelTypes'
    BY <1>10, <2>1 DEF ShutdownServer, NoTables, KernelTypes
  <2>3. TableTypes'
    BY <1>10 DEF ShutdownServer, NoTables, TableTypes
  <2>4. /\ stream' \in [Call -> Stream \cup {NULL}]
        /\ \A c \in Call : stream'[c] # NULL => c <= calls /\ stream'[c].len <= stream'[c].puts
    <3>1. stream' = [c \in Call |-> IF stream[c] = NULL THEN NULL
                                    ELSE [stream[c] EXCEPT !.freed = TRUE]]
      BY <1>10 DEF ShutdownServer, NoTables
    <3>2. ASSUME NEW s \in Stream
          PROVE  /\ [s EXCEPT !.freed = TRUE] \in Stream
                 /\ [s EXCEPT !.freed = TRUE].len = s.len
                 /\ [s EXCEPT !.freed = TRUE].puts = s.puts
      BY DEF Stream
    <3>3. ASSUME NEW c \in Call
          PROVE  /\ stream'[c] \in Stream \cup {NULL}
                 /\ stream'[c] # NULL => c <= calls /\ stream'[c].len <= stream'[c].puts
      <4>1. CASE stream[c] = NULL
        BY <3>1, <4>1
      <4>2. CASE stream[c] # NULL
        <5>1. stream[c] \in Stream /\ c <= calls /\ stream[c].len <= stream[c].puts
          BY <1>1, <4>2 DEF QueueTypes
        <5>2. stream'[c] = [stream[c] EXCEPT !.freed = TRUE]
          BY <3>1, <4>2
        <5> QED
          BY <3>2, <5>1, <5>2
      <4> QED
        BY <4>1, <4>2
    <3>4. stream' = [c \in Call |-> stream'[c]]
      BY <3>1
    <3> QED
      BY <3>3, <3>4
  <2>5. QueueTypes'
    BY <1>1, <1>10, <2>4 DEF ShutdownServer, NoTables, history, QueueTypes
  <2>6. ControlTypes'
    BY <1>1, <1>10, <2>1 DEF ShutdownServer, NoTables, history, ControlTypes, Doing, Ended
  <2> QED
    BY <2>2, <2>3, <2>5, <2>6, TypeParts, PTL
<1>11. CASE InitServer
  <2>1. server_fd \in Entry
    BY DEF Entry
  <2>2. pollfds' \in Seq(Entry)
    BY <1>1, <1>11, <2>1, AppendOf DEF InitServer, TableTypes
  <2>3. KernelTypes' /\ TableTypes' /\ QueueTypes' /\ ControlTypes'
    BY <1>1, <1>11, <2>2 DEF InitServer, Main, queues, history, KernelTypes, TableTypes,
          QueueTypes, ControlTypes, Doing
  <2> QED
    BY <2>3, TypeParts, PTL
<1> QED
  BY <1>2, <1>3, <1>4, <1>5, <1>6, <1>7, <1>8, <1>9, <1>10, <1>11 DEF Application

\* A stream while it is in its queue: its writer puts in it or closes it.  What is deleted
\* is not written any more.
LEMMA StreamWriteOf ==
    ASSUME NetAssumption, TypeOK, NEW c \in Call, StreamPut(c) \/ StreamClose(c)
    PROVE  /\ stream[c] # NULL /\ stream[c].open /\ stream[c] \in Stream
           /\ UNCHANGED <<kernel, tables, send_qs, addresses, start, last_fd, wait, dest, keys,
                          history>>
           /\ \A d \in Call : d # c => stream'[d] = stream[d]
           /\ stream' \in [Call -> Stream \cup {NULL}] /\ stream'[c] # NULL
           /\ stream'[c].len <= stream'[c].puts
           /\ \/ pc' = "undefined" /\ stream' = stream
              \/ pc' = pc /\ stream'[c].len > 0 /\ stream'[c].open
              \/ pc' = pc /\ stream'[c].len = stream[c].len
<1>1. stream \in [Call -> Stream \cup {NULL}] /\ NULL \notin Stream
  BY DEF TypeOK, NetAssumption
<1>2. /\ stream[c] # NULL /\ stream[c].open /\ stream[c] \in Stream
      /\ stream[c].len <= stream[c].puts
      /\ UNCHANGED <<kernel, tables, send_qs, addresses, start, last_fd, wait, dest, keys, history>>
  <2>1. /\ stream[c] # NULL /\ stream[c].open
        /\ UNCHANGED <<kernel, tables, send_qs, addresses, start, last_fd, wait, dest, keys,
                       history>>
    BY DEF StreamPut, StreamClose, StreamWrite
  <2> QED
    BY <1>1, <2>1 DEF TypeOK
<1>3. \/ pc' = "undefined" /\ stream' = stream
      \/ /\ pc' = pc /\ stream[c].puts < MaxPuts
         /\ stream' = Set(stream, c, [stream[c] EXCEPT !.len = @ + 1, !.puts = @ + 1])
      \/ pc' = pc /\ stream' = Set(stream, c, [stream[c] EXCEPT !.open = FALSE])
  BY DEF StreamPut, StreamClose, StreamWrite
<1>4. CASE pc' = "undefined" /\ stream' = stream
  BY <1>1, <1>2, <1>4
<1>5. CASE /\ pc' = pc /\ stream[c].puts < MaxPuts
           /\ stream' = Set(stream, c, [stream[c] EXCEPT !.len = @ + 1, !.puts = @ + 1])
  <2> DEFINE s == [stream[c] EXCEPT !.len = @ + 1, !.puts = @ + 1]
  <2>1. s \in Stream /\ s.len > 0 /\ s.open /\ s.len <= s.puts
    <3>1. stream[c].len + 1 \in 0 .. MaxPuts /\ stream[c].puts + 1 \in 0 .. MaxPuts
          /\ stream[c].len + 1 > 0 /\ stream[c].len + 1 <= stream[c].puts + 1
      BY <1>2, <1>5, Constants DEF Stream
    <3>2. s = [stream[c] EXCEPT !.len = stream[c].len + 1, !.puts = stream[c].puts + 1]
      OBVIOUS
    <3> HIDE DEF s
    <3> QED
      BY <1>2, <3>1, <3>2 DEF Stream
  <2> HIDE DEF s
  <2>2. stream' = Set(stream, c, s) /\ pc' = pc
    BY <1>5 DEF s
  <2> QED
    BY <1>1, <1>2, <2>1, <2>2 DEF Set
<1>6. CASE pc' = pc /\ stream' = Set(stream, c, [stream[c] EXCEPT !.open = FALSE])
  <2> DEFINE s == [stream[c] EXCEPT !.open = FALSE]
  <2>1. s \in Stream /\ s.len = stream[c].len /\ s.len <= s.puts
    BY <1>2 DEF Stream
  <2> HIDE DEF s
  <2>2. stream' = Set(stream, c, s) /\ pc' = pc
    BY <1>6 DEF s
  <2> QED
    BY <1>1, <1>2, <2>1, <2>2 DEF Set
<1> QED
  BY <1>3, <1>4, <1>5, <1>6

\* What peers do to a socket leaves it open and theirs.
PeerActs(fd) == PeerSends(fd) \/ PeerCloses(fd) \/ PeerResets(fd)

LEMMA PeerActsOf ==
    ASSUME NetAssumption, TypeOK, NEW fd \in FD, PeerActs(fd)
    PROVE  /\ sock' \in [FD -> Socket \cup {NULL}]
           /\ sock[fd] # NULL /\ sock'[fd] # NULL /\ sock'[fd].peer = sock[fd].peer
           /\ \A g \in FD : g # fd => sock'[g] = sock[g]
           /\ \A g \in FD : sock'[g] = NULL <=> sock[g] = NULL
           /\ sock[fd].eof => sock'[fd].eof /\ sock'[fd].in = sock[fd].in
           /\ backlog' = backlog
           /\ UNCHANGED <<tables, queues, addresses, start, last_fd, control, history>>
<1>1. sock \in [FD -> Socket \cup {NULL}] /\ NULL \notin Socket
  BY DEF TypeOK, NetAssumption
<1>2. /\ sock[fd] # NULL /\ sock[fd] \in Socket /\ backlog' = backlog
      /\ UNCHANGED <<tables, queues, addresses, start, last_fd, control, history>>
  BY <1>1 DEF PeerActs, PeerSends, PeerCloses, PeerResets, Connected, Env
<1>3. \/ /\ ~sock[fd].eof /\ sock[fd].in < MaxIn
         /\ sock' = [sock EXCEPT ![fd] = [sock[fd] EXCEPT !.in = @ + 1]]
      \/ ~sock[fd].eof /\ sock' = [sock EXCEPT ![fd] = [sock[fd] EXCEPT !.eof = TRUE]]
      \/ sock' = [sock EXCEPT ![fd] = [sock[fd] EXCEPT !.gone = TRUE]]
  BY DEF PeerActs, PeerSends, PeerCloses, PeerResets
<1>4. PICK s \in Socket : /\ sock' = [sock EXCEPT ![fd] = s] /\ s.peer = sock[fd].peer
                          /\ sock[fd].eof => s.eof /\ s.in = sock[fd].in
  <2>1. CASE /\ ~sock[fd].eof /\ sock[fd].in < MaxIn
             /\ sock' = [sock EXCEPT ![fd] = [sock[fd] EXCEPT !.in = @ + 1]]
    <3> DEFINE s == [sock[fd] EXCEPT !.in = @ + 1]
    <3>1. sock[fd].in + 1 \in 0 .. MaxIn
      BY <1>2, <2>1, Constants DEF Socket
    <3>2. s \in Socket /\ s.peer = sock[fd].peer
      BY <1>2, <3>1 DEF Socket
    <3> HIDE DEF s
    <3>3. sock' = [sock EXCEPT ![fd] = s]
      BY <2>1 DEF s
    <3> QED
      BY <2>1, <3>2, <3>3
  <2>2. CASE ~sock[fd].eof /\ sock' = [sock EXCEPT ![fd] = [sock[fd] EXCEPT !.eof = TRUE]]
    BY <1>2, <2>2 DEF Socket
  <2>3. CASE sock' = [sock EXCEPT ![fd] = [sock[fd] EXCEPT !.gone = TRUE]]
    <3> DEFINE s == [sock[fd] EXCEPT !.gone = TRUE]
    <3>1. s \in Socket /\ s.peer = sock[fd].peer /\ s.eof = sock[fd].eof /\ s.in = sock[fd].in
      BY <1>2 DEF Socket
    <3> HIDE DEF s
    <3>2. sock' = [sock EXCEPT ![fd] = s]
      BY <2>3 DEF s
    <3> QED
      BY <3>1, <3>2
  <2> QED
    BY <1>3, <2>1, <2>2, <2>3
<1> QED
  BY <1>1, <1>2, <1>4

LEMMA OthersTypes ==
    ASSUME NetAssumption, IInv, Others
    PROVE  TypeOK'
<1>1. KernelTypes /\ TableTypes /\ QueueTypes /\ ControlTypes /\ TypeOK
  BY TypeParts DEF IInv
<1>2. ASSUME NEW n \in Peer, PeerConnects(n)
      PROVE  TypeOK'
  <2>1. KernelTypes' /\ TableTypes' /\ QueueTypes' /\ ControlTypes'
    BY <1>1, <1>2 DEF PeerConnects, Env, tables, queues, control, history, KernelTypes,
          TableTypes, QueueTypes, ControlTypes
  <2> QED
    BY <2>1, TypeParts, PTL
<1>3. ASSUME NEW fd \in FD, PeerActs(fd)
      PROVE  TypeOK'
  <2>1. /\ sock' \in [FD -> Socket \cup {NULL}] /\ backlog' = backlog
        /\ UNCHANGED <<tables, queues, addresses, start, last_fd, control, history>>
    BY <1>1, <1>3, PeerActsOf
  <2>2. KernelTypes' /\ TableTypes' /\ QueueTypes' /\ ControlTypes'
    BY <1>1, <2>1 DEF tables, queues, control, history, KernelTypes, TableTypes, QueueTypes,
          ControlTypes
  <2> QED
    BY <2>2, TypeParts, PTL
<1>4. ASSUME NEW c \in Call, StreamPut(c) \/ StreamClose(c)
      PROVE  TypeOK'
  <2>1. /\ UNCHANGED <<kernel, tables, send_qs, addresses, start, last_fd, wait, dest, keys,
                       history>>
        /\ stream[c] # NULL
        /\ \A d \in Call : d # c => stream'[d] = stream[d]
        /\ stream' \in [Call -> Stream \cup {NULL}]
        /\ stream'[c].len <= stream'[c].puts
        /\ pc' \in {pc, "undefined"}
    BY <1>1, <1>4, StreamWriteOf
  <2>2. QueueTypes'
    <3>1. UNCHANGED <<send_qs, calls, wire>>
      BY <2>1 DEF history
    <3>2. \A d \in Call : stream'[d] # NULL => d <= calls /\ stream'[d].len <= stream'[d].puts
      BY <1>1, <2>1 DEF QueueTypes
    <3> QED
      BY <1>1, <2>1, <3>1, <3>2 DEF QueueTypes
  <2>3. KernelTypes' /\ TableTypes' /\ ControlTypes'
    BY <1>1, <2>1 DEF kernel, tables, history, KernelTypes, TableTypes, ControlTypes, Doing, Ended
  <2> QED
    BY <2>2, <2>3, TypeParts, PTL
<1> QED
  BY <1>2, <1>3, <1>4 DEF Others, PeerActs

LEMMA TypesKept ==
    ASSUME NetAssumption, IInv, [Next]_vars
    PROVE  TypeOK'
<1>1. CASE UNCHANGED vars
  BY <1>1 DEF IInv, TypeOK, vars, kernel, tables, queues, control, history
<1> QED
  BY <1>1, PollingTypes, ServingTypes, ApplicationTypes, OthersTypes DEF Next
-----------------------------------------------------------------------------
(***************************************************************************)
(* The tables                                                              *)
(***************************************************************************)
\* A step after which the tables name nothing they did not name, and nothing whose
\* socket is another.
NothingNew ==
    /\ \A n \in Peer : connections'[n] # NULL =>
          connections'[n] = connections[n] /\ (send_qs[n] # NULL => send_qs'[n] # NULL)
    /\ \A fd \in FD : nids'[fd] \in Peer => nids'[fd] = nids[fd]
    /\ Accepting' => wait' = wait
    /\ \A fd \in FD :
          \/ sock[fd] = NULL
          \/ sock'[fd] # NULL /\ sock'[fd].peer = sock[fd].peer
          \/ /\ nids'[fd] \notin Peer /\ ~(Accepting' /\ wait'.fd = fd)
             /\ \A n \in Peer : connections'[n] # fd

LEMMA NothingNewKeeps ==
    ASSUME NetAssumption, TypeOK, TypeOK', Addressed, Unlisted, NothingNew
    PROVE  Addressed' /\ Unlisted'
<1>1. /\ connections \in [Peer -> FD \cup {NULL}] /\ connections' \in [Peer -> FD \cup {NULL}]
      /\ wait' \in Waited \cup {NULL} /\ NULL \notin FD
  BY Constants DEF TypeOK
<1>2. ASSUME NEW n \in Peer, connections'[n] # NULL
      PROVE  /\ sock'[connections'[n]] # NULL /\ sock'[connections'[n]].peer = n
             /\ send_qs'[n] # NULL
  <2>1. /\ connections'[n] = connections[n] /\ connections[n] \in FD
        /\ (send_qs[n] # NULL => send_qs'[n] # NULL)
    BY <1>1, <1>2 DEF NothingNew
  <2>2. sock[connections[n]] # NULL /\ sock[connections[n]].peer = n /\ send_qs[n] # NULL
    BY <1>2, <2>1 DEF Addressed
  <2> QED
    BY <2>1, <2>2 DEF NothingNew
<1>3. ASSUME NEW fd \in FD, nids'[fd] \in Peer
      PROVE  sock'[fd] # NULL /\ sock'[fd].peer = nids'[fd]
  <2>1. nids[fd] = nids'[fd] /\ sock[fd] # NULL /\ sock[fd].peer = nids[fd]
    BY <1>3 DEF NothingNew, Addressed
  <2> QED
    BY <1>3, <2>1 DEF NothingNew
<1>4. ASSUME Accepting'
      PROVE  /\ sock'[wait'.fd] # NULL /\ sock'[wait'.fd].peer \in Peer
             /\ nids'[wait'.fd] \notin Peer
             /\ \A n \in Peer : connections'[n] # wait'.fd
  <2>1. wait' = wait /\ Accepting /\ wait.fd \in FD
    BY <1>1, <1>4, Values DEF NothingNew, Accepting
  <2>2. /\ sock[wait.fd] # NULL /\ sock[wait.fd].peer \in Peer /\ nids[wait.fd] \notin Peer
        /\ \A n \in Peer : connections[n] # wait.fd
    BY <2>1 DEF Unlisted
  <2>3. sock'[wait.fd] # NULL /\ sock'[wait.fd].peer = sock[wait.fd].peer
    BY <1>4, <2>1, <2>2 DEF NothingNew
  <2>4. nids'[wait.fd] \notin Peer
    BY <2>1, <2>2 DEF NothingNew
  <2>5. \A n \in Peer : connections'[n] # wait.fd
    BY <1>1, <2>1, <2>2 DEF NothingNew
  <2> QED
    BY <2>1, <2>2, <2>3, <2>4, <2>5
<1>5. Addressed'
  BY <1>2, <1>3 DEF Addressed
<1>6. Unlisted'
  BY <1>4 DEF Unlisted
<1> QED
  BY <1>5, <1>6

\* Steps that leave the sockets and the tables alone.
LEMMA QuietNew ==
    ASSUME UNCHANGED <<sock, nids, connections, wait>>,
           \A n \in Peer : send_qs[n] # NULL => send_qs'[n] # NULL
    PROVE  NothingNew
  BY DEF NothingNew, Accepting

\* A connection that fails is closed, and forgotten by both tables.
LEMMA SendNowNew ==
    ASSUME NetAssumption, TypeOK, Addressed, Unlisted, NEW n \in Peer,
           NEW c \in (1 .. calls) \cup {NULL}, NEW next, SendNow(n, c, next), wait' = wait,
           \A m \in Peer : send_qs[m] # NULL => send_qs'[m] # NULL
    PROVE  NothingNew
<1>1. \/ /\ connections[n] \in FD /\ sock' = Set(sock, connections[n], NULL)
         /\ Forget(connections[n], n)
      \/ UNCHANGED <<sock, nids, connections>>
  BY SendNowOf
<1>2. CASE UNCHANGED <<sock, nids, connections>>
  BY <1>2, QuietNew
<1>3. CASE /\ connections[n] \in FD /\ sock' = Set(sock, connections[n], NULL)
           /\ Forget(connections[n], n)
  <2> DEFINE fd == connections[n]
  <2>1. /\ nids'[fd] = NULL /\ \A g \in FD : g # fd => nids'[g] = nids[g]
        /\ connections'[n] = NULL /\ \A m \in Peer : m # n => connections'[m] = connections[m]
    BY <1>3, ForgetOf
  <2>2. /\ connections \in [Peer -> FD \cup {NULL}] /\ sock \in [FD -> Socket \cup {NULL}]
        /\ NULL \notin FD /\ NULL \notin Peer
    BY Constants DEF TypeOK
  <2>3. \A g \in FD : g # fd => sock'[g] = sock[g]
    BY <1>3, <2>2 DEF Set
  <2>4. \A m \in Peer : m # n => connections[m] # fd
    BY <1>3, <2>2 DEF Addressed
  <2>5. Accepting => wait.fd # fd
    BY DEF Unlisted
  <2>6. Accepting' => Accepting /\ wait'.fd = wait.fd
    BY DEF Accepting
  <2>7. \A m \in Peer : connections'[m] # fd
    BY <1>3, <2>1, <2>2, <2>4
  <2> QED
    BY <2>1, <2>2, <2>3, <2>5, <2>6, <2>7 DEF NothingNew
<1> QED
  BY <1>1, <1>2, <1>3

LEMMA HangupNew ==
    ASSUME NetAssumption, TypeOK, NEW fd \in FD, Hangup(fd), sock' = sock, wait' \in {wait, NULL},
           \A m \in Peer : send_qs[m] # NULL => send_qs'[m] # NULL
    PROVE  NothingNew
<1>1. /\ nids'[fd] = NULL /\ \A g \in FD : g # fd => nids'[g] = nids[g]
      /\ \A m \in Peer : connections'[m] = connections[m] \/ connections'[m] = NULL
      /\ NULL \notin Peer
  BY HangupOf, Constants
<1>2. Accepting' => wait' = wait
  BY DEF Accepting
<1> QED
  BY <1>1, <1>2 DEF NothingNew

\* A descriptor that is not in use is not in the tables.
LEMMA FreeUnnamed ==
    ASSUME NetAssumption, TypeOK, Addressed, Unlisted, NEW fd \in FD, sock[fd] = NULL
    PROVE  /\ nids[fd] \notin Peer /\ (\A n \in Peer : connections[n] # fd)
           /\ ~(Accepting /\ wait.fd = fd)
  BY Constants DEF Addressed, Unlisted

LEMMA RegisterNamed ==
    ASSUME NetAssumption, TypeOK, TypeOK', Addressed, NEW fd \in FD, NEW n \in Peer,
           Register(fd, n), nids[fd] \notin Peer, \A m \in Peer : connections[m] # fd,
           sock'[fd] # NULL, sock'[fd].peer = n,
           \A g \in FD : g # fd => sock'[g] = sock[g]
    PROVE  Addressed'
<1>1. /\ \A g \in FD : g # fd => nids'[g] = nids[g]
      /\ nids'[fd] = IF nids[fd] = NULL THEN n ELSE nids[fd]
      /\ \A m \in Peer : m # n => connections'[m] = connections[m]
      /\ connections'[n] = IF connections[n] = NULL THEN fd ELSE connections[n]
      /\ send_qs'[n] # NULL
      /\ \A m \in Peer : m # n => send_qs'[m] = send_qs[m]
  BY RegisterOf
<1>2. connections \in [Peer -> FD \cup {NULL}] /\ NULL \notin Peer
  BY Constants DEF TypeOK
<1>3. ASSUME NEW m \in Peer, connections'[m] # NULL
      PROVE  sock'[connections'[m]] # NULL /\ sock'[connections'[m]].peer = m /\ send_qs'[m] # NULL
  <2>1. CASE m = n /\ connections[n] = NULL
    BY <1>1, <2>1
  <2>2. CASE m # n \/ connections[n] # NULL
    <3>1. connections'[m] = connections[m] /\ connections[m] \in FD /\ connections[m] # fd
          /\ connections[m] # NULL
      BY <1>1, <1>2, <1>3, <2>2
    <3>2. sock[connections[m]] # NULL /\ sock[connections[m]].peer = m /\ send_qs[m] # NULL
      BY <3>1 DEF Addressed
    <3> QED
      BY <1>1, <3>1, <3>2
  <2> QED
    BY <2>1, <2>2
<1>4. ASSUME NEW g \in FD, nids'[g] \in Peer
      PROVE  sock'[g] # NULL /\ sock'[g].peer = nids'[g]
  <2>1. CASE g = fd
    BY <1>1, <1>4, <2>1
  <2>2. CASE g # fd
    BY <1>1, <1>4, <2>2 DEF Addressed
  <2> QED
    BY <2>1, <2>2
<1> QED
  BY <1>3, <1>4 DEF Addressed

Named == Addressed /\ Unlisted

LEMMA NamedPolling ==
    ASSUME NetAssumption, IInv, TypeOK', Polling
    PROVE  Named'
<1>1. TypeOK /\ Addressed /\ Unlisted /\ Places
  BY DEF IInv
<1>2. CASE NextMsgNow \/ PollNothing \/ PollAccept \/ PollAgain
  <2>1. UNCHANGED <<sock, nids, connections, wait, send_qs>>
    BY <1>2 DEF NextMsgNow, PollNothing, PollAccept, PollAgain, tables, queues, control
  <2> QED
    BY <1>1, <2>1, QuietNew, NothingNewKeeps DEF Named
<1>3. CASE PollRecv
  <2> DEFINE fd == Found
  <2>1. fd \in Entry
    BY <1>1, <1>3, PolledOf DEF PollRecv
  <2>2. fd \in FD /\ sock[fd] # NULL
    BY <1>3, <2>1, InOf DEF PollRecv
  <2>3. UNCHANGED <<wait, send_qs>>
    BY <1>3 DEF PollRecv, queues
  <2>4. CASE Received(fd) = "message" /\ sock' = Taken(fd) /\ UNCHANGED tables
    <3>1. NothingNew
      BY <1>1, <2>2, <2>3, <2>4, TakenOf DEF NothingNew, tables, Accepting
    <3> QED
      BY <1>1, <3>1, NothingNewKeeps DEF Named
  <2>5. CASE Hangup(fd) /\ UNCHANGED sock
    BY <1>1, <2>2, <2>3, <2>5, HangupNew, NothingNewKeeps DEF Named
  <2>6. CASE UNCHANGED <<sock, tables>>
    BY <1>1, <2>3, <2>6, QuietNew, NothingNewKeeps DEF Named, tables
  <2> QED
    BY <1>3, <2>4, <2>5, <2>6 DEF PollRecv
<1>4. CASE Accept
  <2>1. backlog # << >> /\ FreeFds # {} /\ backlog \in {<<n>> : n \in Peer}
    BY <1>1, <1>4 DEF Accept, Places, TypeOK
  <2>2. PICK n \in Peer : backlog = <<n>>
    BY <2>1
  <2>3. NewFd \in FD /\ sock[NewFd] = NULL
    BY <2>1, NewFdOf
  <2>4. /\ sock' = Set(sock, NewFd, Fresh(n)) /\ wait' = [fd |-> NewFd, by |-> "accept"]
        /\ UNCHANGED <<nids, connections, send_qs>>
    BY <1>4, <2>2 DEF Accept, tables, queues
  <2>5. PICK fd : fd = NewFd
    OBVIOUS
  <2>6. /\ fd \in FD /\ sock[fd] = NULL /\ sock'[fd] = Fresh(n) /\ wait'.fd = fd
        /\ \A g \in FD : g # fd => sock'[g] = sock[g]
        /\ nids[fd] \notin Peer /\ \A m \in Peer : connections[m] # fd
    BY <1>1, <2>3, <2>4, <2>5, FreeUnnamed DEF Set, TypeOK
  <2>7. Fresh(n) # NULL /\ Fresh(n).peer = n
    <3>1. Fresh(n) \in Socket /\ NULL \notin Socket
      BY Values
    <3> QED
      BY <3>1 DEF Fresh
  <2>8. Addressed'
    <3>1. connections \in [Peer -> FD \cup {NULL}]
      BY <1>1 DEF TypeOK
    <3> QED
      BY <1>1, <2>4, <2>6, <3>1 DEF Addressed
  <2>9. Unlisted'
    BY <2>4, <2>6, <2>7 DEF Unlisted
  <2> QED
    BY <2>8, <2>9 DEF Named
<1> QED
  BY <1>2, <1>3, <1>4 DEF Polling

LEMMA NamedServing ==
    ASSUME NetAssumption, IInv, TypeOK', Serving
    PROVE  Named'
<1>1. TypeOK /\ Addressed /\ Unlisted /\ Places /\ Round
  BY DEF IInv
<1>2. CASE WaitIdle \/ NetIdle \/ WaitError
  <2>1. UNCHANGED <<sock, nids, connections, wait, send_qs>>
    BY <1>2 DEF WaitIdle, NetIdle, WaitError, Idling, tables, queues
  <2> QED
    BY <1>1, <2>1, QuietNew, NothingNewKeeps DEF Named
<1>3. CASE Identified
  <2> DEFINE fd == wait.fd
  <2>1. wait # NULL /\ wait.by = "accept" /\ fd \in FD
    BY <1>1, <1>3, Values DEF Identified, Waiting, TypeOK
  <2>2. /\ sock[fd] # NULL /\ sock[fd].peer \in Peer
        /\ nids[fd] \notin Peer /\ \A n \in Peer : connections[n] # fd
    BY <1>1, <2>1 DEF Unlisted, Accepting
  <2>3. /\ Received(fd) = "message" /\ sock' = Taken(fd) /\ Register(fd, sock[fd].peer)
        /\ wait' = NULL
    BY <1>3 DEF Identified
  <2>4. /\ sock'[fd] # NULL /\ sock'[fd].peer = sock[fd].peer
        /\ \A g \in FD : g # fd => sock'[g] = sock[g]
    BY <1>1, <2>1, <2>2, <2>3, TakenOf
  <2>5. Addressed'
    BY <1>1, <2>1, <2>2, <2>3, <2>4, RegisterNamed
  <2>6. Unlisted'
    BY <2>3 DEF Unlisted, Accepting
  <2> QED
    BY <2>5, <2>6 DEF Named
<1>4. CASE Unidentified
  <2> DEFINE fd == wait.fd
  <2>1. wait # NULL /\ wait.by = "accept" /\ fd \in FD
    BY <1>1, <1>4, Values DEF Unidentified, Waiting, TypeOK
  <2>2. nids[fd] \notin Peer /\ \A n \in Peer : connections[n] # fd
    BY <1>1, <2>1 DEF Unlisted, Accepting
  <2>3. Hangup(fd) /\ sock' = Set(sock, fd, NULL) /\ wait' = NULL /\ UNCHANGED send_qs
    BY <1>4 DEF Unidentified, queues
  <2>4. /\ nids'[fd] = NULL /\ (\A g \in FD : g # fd => nids'[g] = nids[g])
        /\ \A m \in Peer : m # nids[fd] => connections'[m] = connections[m]
    BY <1>1, <2>1, <2>3, HangupOf
  <2>5. \A m \in Peer : connections'[m] = connections[m]
    BY <2>2, <2>4
  <2>6. \A g \in FD : g # fd => sock'[g] = sock[g]
    BY <1>1, <2>3 DEF Set, TypeOK
  <2>7. ~Accepting' /\ NULL \notin Peer
    BY <2>3, Constants DEF Accepting
  <2>8. NothingNew
    BY <2>2, <2>3, <2>4, <2>5, <2>6, <2>7 DEF NothingNew
  <2> QED
    BY <1>1, <2>8, NothingNewKeeps DEF Named
<1>5. ASSUME NEW n \in Peer, SendReady(n)
      PROVE  Named'
  <2>1. n = keys[1] /\ 1 \in DOMAIN keys /\ pc = "send"
    BY <1>1, <1>5 DEF SendReady, TypeOK
  <2>2. send_qs[n] # NULL /\ Ready(send_qs[n]) /\ GotFrom(n)
    BY <1>1, <1>5, <2>1 DEF SendReady, Round, ReadyAt, Range
  <2>3. /\ Got(n) \in 1 .. calls /\ send_qs'[n] # NULL
        /\ \A m \in Peer : m # n => send_qs'[m] = send_qs[m]
    BY <1>1, <2>2, GotOf
  <2>4. PICK next : next = IF keys' # << >> THEN "send" ELSE Back
    OBVIOUS
  <2>5. SendNow(n, Got(n), next) /\ wait' = wait
    BY <1>5, <2>4 DEF SendReady
  <2>6. \A m \in Peer : send_qs[m] # NULL => send_qs'[m] # NULL
    BY <2>3
  <2>7. NothingNew
    BY <1>1, <2>3, <2>5, <2>6, SendNowNew
  <2> QED
    BY <1>1, <2>7, NothingNewKeeps DEF Named
<1> QED
  BY <1>2, <1>3, <1>4, <1>5 DEF Serving

LEMMA NamedSending ==
    ASSUME NetAssumption, IInv, TypeOK', Sending
    PROVE  Named'
<1>1. TypeOK /\ Addressed /\ Unlisted /\ Places
  BY DEF IInv
<1>2. CASE \E n \in Peer : Send(n, "send_msg") \/ Send(n, "send_stream")
  <2>1. UNCHANGED <<sock, nids, connections, wait, send_qs>>
    BY <1>2 DEF Send, kernel, tables, queues
  <2> QED
    BY <1>1, <2>1, QuietNew, NothingNewKeeps DEF Named
<1>3. CASE SendLater \/ SendStream
  <2>1. /\ UNCHANGED <<sock, nids, connections, wait>>
        /\ send_qs' = [send_qs EXCEPT ![dest.to] = Append(send_qs[dest.to], calls)]
        /\ dest.to \in Peer /\ send_qs[dest.to] # NULL
    BY <1>1, <1>3, Values DEF SendLater, SendStream, Put, Enqueue, tables, TypeOK, Places
  <2>2. send_qs'[dest.to] # NULL
    <3>1. /\ send_qs[dest.to] \in Seq(1 .. calls) /\ calls \in 1 .. calls
          /\ send_qs \in [Peer -> Seq(1 .. calls) \cup {NULL}] /\ 1 .. calls \subseteq Call
      BY <1>1, <1>3, <2>1, Constants, SMTT(20) DEF SendLater, SendStream, Put, Places, Call, TypeOK
    <3>2. Append(send_qs[dest.to], calls) \in Seq(Call)
      BY <3>1, AppendOf, SeqMonotonic
    <3> QED
      BY <2>1, <3>1, <3>2 DEF NetAssumption
  <2>3. \A m \in Peer : send_qs[m] # NULL => send_qs'[m] # NULL
    <3>1. \A m \in Peer : m # dest.to => send_qs'[m] = send_qs[m]
      BY <1>1, <2>1 DEF TypeOK
    <3> QED
      BY <2>2, <3>1
  <2>4. NothingNew
    BY <2>1, <2>3, QuietNew
  <2> QED
    BY <1>1, <2>4, NothingNewKeeps DEF Named
<1>4. CASE ConnectFails
  <2>1. FreeFds # {}
    BY <1>1, <1>4, FdLeftOf DEF ConnectFails
  <2>2. PICK fd \in FD : fd = NewFd /\ sock[fd] = NULL
    BY <2>1, NewFdOf
  <2>3. UNCHANGED <<nids, connections, wait, send_qs>>
    BY <1>4 DEF ConnectFails, tables, queues
  <2>4. sock' = Set(sock, fd, Unconnected) \/ sock' = sock
    BY <1>4, <2>2 DEF ConnectFails
  <2>5. \A g \in FD : g # fd => sock'[g] = sock[g]
    BY <1>1, <2>4 DEF Set, TypeOK
  <2>6. NothingNew
    BY <2>2, <2>3, <2>5 DEF NothingNew
  <2> QED
    BY <1>1, <2>6, NothingNewKeeps DEF Named
<1>5. CASE ConnectTo
  <2>1. FreeFds # {} /\ dest.to \in Peer /\ wait = NULL /\ wait' = wait
    BY <1>1, <1>5, FdLeftOf, Values DEF ConnectTo, TypeOK, Places, Ended
  <2>2. PICK fd \in FD : fd = NewFd /\ sock[fd] = NULL
    BY <2>1, NewFdOf
  <2>3. Register(fd, dest.to) /\ sock' = Set(sock, fd, Fresh(dest.to))
    BY <1>5, <2>2 DEF ConnectTo
  <2>4. nids[fd] \notin Peer /\ \A m \in Peer : connections[m] # fd
    BY <1>1, <2>2, FreeUnnamed
  <2>5. /\ sock'[fd] # NULL /\ sock'[fd].peer = dest.to
        /\ \A g \in FD : g # fd => sock'[g] = sock[g]
    <3>1. Fresh(dest.to) \in Socket /\ NULL \notin Socket /\ Fresh(dest.to).peer = dest.to
      BY <2>1, Values DEF Fresh
    <3> QED
      BY <1>1, <2>3, <3>1 DEF Set, TypeOK
  <2>6. Addressed'
    BY <1>1, <2>1, <2>3, <2>4, <2>5, RegisterNamed
  <2>7. Unlisted'
    BY <2>1 DEF Unlisted, Accepting
  <2> QED
    BY <2>6, <2>7 DEF Named
<1>6. CASE SendIdentity \/ SendDirect
  <2>1. dest.to \in Peer /\ calls \in 1 .. calls
    BY <1>1, <1>6, Values DEF SendIdentity, SendDirect, Put, TypeOK, Places, Call
  <2>2. PICK c \in (1 .. calls) \cup {NULL}, next \in {"put", "idle"} : SendNow(dest.to, c, next)
    BY <1>6, <2>1 DEF SendIdentity, SendDirect
  <2>3. wait' = wait /\ send_qs' = send_qs
    BY <1>6 DEF SendIdentity, SendDirect, Put, queues
  <2>4. NothingNew
    BY <1>1, <2>1, <2>2, <2>3, SendNowNew
  <2> QED
    BY <1>1, <2>4, NothingNewKeeps DEF Named
<1> QED
  BY <1>2, <1>3, <1>4, <1>5, <1>6 DEF Sending

LEMMA NamedApplication ==
    ASSUME NetAssumption, IInv, TypeOK', Application
    PROVE  Named'
<1>1. TypeOK /\ Addressed /\ Unlisted /\ Places
  BY DEF IInv
<1>2. CASE Sending
  BY <1>2, NamedSending
<1>3. CASE NextMsgSame \/ \E n \in Peer : NextMsgFrom(n)
  <2>1. /\ UNCHANGED <<sock, nids, connections, send_qs>>
        /\ wait' = wait \/ wait' = [fd |-> wait'.fd, by |-> "app"]
    BY <1>3 DEF NextMsgSame, NextMsgFrom, WaitOn, tables, queues
  <2>2. Accepting' => wait' = wait
    BY <2>1 DEF Accepting
  <2>3. NothingNew
    BY <2>1, <2>2 DEF NothingNew
  <2> QED
    BY <1>1, <2>3, NothingNewKeeps DEF Named
<1>4. CASE WaitReturns
  <2> DEFINE fd == wait.fd
  <2>1. wait # NULL /\ fd \in FD /\ "IN" \in Revents(fd) /\ wait' = NULL /\ send_qs' = send_qs
    BY <1>1, <1>4, Values DEF WaitReturns, Waiting, TypeOK, queues
  <2>2. sock[fd] # NULL
    BY <2>1, InOf, Constants DEF Entry
  <2>3. CASE /\ Received(fd) = "message" /\ sock' = Taken(fd)
             /\ UNCHANGED <<nids, connections>>
    <3>1. NothingNew
      BY <1>1, <2>1, <2>2, <2>3, TakenOf DEF NothingNew, Accepting
    <3> QED
      BY <1>1, <3>1, NothingNewKeeps DEF Named
  <2>4. CASE Hangup(fd) /\ UNCHANGED sock
    BY <1>1, <2>1, <2>4, HangupNew, NothingNewKeeps DEF Named
  <2> QED
    BY <1>4, <2>3, <2>4 DEF WaitReturns
<1>5. CASE MsgSource
  <2>1. last_fd \in FD /\ nids \in [FD -> Peer \cup {Nobody, NULL}] /\ Nobody \notin Peer
    BY <1>1, <1>5, Constants DEF MsgSource, TypeOK
  <2>2. /\ UNCHANGED <<sock, connections, wait, send_qs>>
        /\ nids' = Set(nids, last_fd, Nobody)
    BY <1>5 DEF MsgSource, queues, control
  <2>3. NothingNew
    BY <2>1, <2>2 DEF NothingNew, Set
  <2> QED
    BY <1>1, <2>3, NothingNewKeeps DEF Named
<1>6. CASE \/ \E n \in Peer : NetSuspend(n) \/ NetResume(n) \/ SetNodeAddr(n)
           \/ InitServer
  <2>1. UNCHANGED <<sock, nids, connections, wait, send_qs>>
    BY <1>6 DEF NetSuspend, NetResume, SetNodeAddr, InitServer, kernel, tables, queues, control
  <2> QED
    BY <1>1, <2>1, QuietNew, NothingNewKeeps DEF Named
<1>7. CASE ShutdownServer
  <2>1. /\ \A fd \in FD : nids'[fd] = NULL
        /\ \A n \in Peer : connections'[n] = NULL
        /\ wait' = wait
    BY <1>7 DEF ShutdownServer, NoTables
  <2>2. wait = NULL /\ NULL \notin FD /\ NULL \notin Peer
    BY <1>1, <1>7, Constants DEF ShutdownServer, NoTables, Idle, Places, Ended
  <2>3. NothingNew
    BY <2>1, <2>2 DEF NothingNew, Accepting
  <2> QED
    BY <1>1, <2>3, NothingNewKeeps DEF Named
<1> QED
  BY <1>2, <1>3, <1>4, <1>5, <1>6, <1>7 DEF Application

LEMMA NamedOthers ==
    ASSUME NetAssumption, IInv, TypeOK', Others
    PROVE  Named'
<1>1. TypeOK /\ Addressed /\ Unlisted /\ Places
  BY DEF IInv
<1>2. CASE \E n \in Peer : PeerConnects(n)
  <2>1. UNCHANGED <<sock, nids, connections, wait, send_qs>>
    BY <1>2 DEF PeerConnects, Env, tables, queues, control
  <2> QED
    BY <1>1, <2>1, QuietNew, NothingNewKeeps DEF Named
<1>3. ASSUME NEW fd \in FD, PeerActs(fd)
      PROVE  Named'
  <2>1. /\ sock'[fd] # NULL /\ sock'[fd].peer = sock[fd].peer
        /\ \A g \in FD : g # fd => sock'[g] = sock[g]
        /\ UNCHANGED <<tables, queues, addresses, start, last_fd, control, history>>
    BY <1>1, <1>3, PeerActsOf
  <2>2. UNCHANGED <<nids, connections, wait, send_qs>>
    BY <2>1 DEF tables, queues, control
  <2>3. NothingNew
    BY <2>1, <2>2 DEF NothingNew
  <2> QED
    BY <1>1, <2>3, NothingNewKeeps DEF Named
<1>4. ASSUME NEW c \in Call, StreamPut(c) \/ StreamClose(c)
      PROVE  Named'
  <2>1. UNCHANGED <<sock, nids, connections, wait, send_qs>>
    BY <1>1, <1>4, StreamWriteOf DEF kernel, tables
  <2> QED
    BY <1>1, <2>1, QuietNew, NothingNewKeeps DEF Named
<1> QED
  BY <1>2, <1>3, <1>4 DEF Others, PeerActs

LEMMA NamedKept ==
    ASSUME NetAssumption, IInv, TypeOK', [Next]_vars
    PROVE  Named'
<1>1. CASE UNCHANGED vars
  <2>1. TypeOK /\ Addressed /\ Unlisted /\ UNCHANGED <<sock, nids, connections, wait, send_qs>>
    BY <1>1 DEF IInv, vars, kernel, tables, queues, control
  <2> QED
    BY <2>1, QuietNew, NothingNewKeeps DEF Named
<1> QED
  BY <1>1, NamedPolling, NamedServing, NamedApplication, NamedOthers DEF Next
-----------------------------------------------------------------------------
(***************************************************************************)
(* The main thread                                                         *)
(***************************************************************************)
Waits == wait # NULL => pc \in {"wait", "send"} \cup Ended
Room == backlog # << >> => FreeFds # {}
Called ==
    /\ pc \in {"connect", "identify", "put"} => calls \in Call
    /\ pc \in {"identify", "put"} => send_qs[dest.to] # NULL

LEMMA PlacesParts == Places <=> Waits /\ Room /\ Called
  BY DEF Places, Waits, Room, Called

LEMMA WaitsKept ==
    ASSUME NetAssumption, IInv, [Next]_vars
    PROVE  Waits'
<1>1. TypeOK /\ Waits
  BY PlacesParts DEF IInv
<1>2. CASE UNCHANGED vars
  BY <1>1, <1>2 DEF Waits, vars, control
<1>3. CASE Polling
  <2>1. CASE NextMsgNow \/ PollNothing \/ PollAccept \/ PollAgain \/ PollRecv
    BY <1>1, <2>1 DEF NextMsgNow, PollNothing, PollAccept, PollAgain, PollRecv, Polled, Waits, Ended,
          control
  <2>2. CASE Accept
    BY <2>2 DEF Accept, Waits
  <2> QED
    BY <1>3, <2>1, <2>2 DEF Polling
<1>4. CASE Serving
  <2>1. CASE WaitIdle \/ NetIdle
    BY <1>1, <2>1 DEF WaitIdle, NetIdle, Idling, Back, Waits, Ended
  <2>2. CASE Identified \/ Unidentified
    BY <2>2 DEF Identified, Unidentified, Waits
  <2>3. CASE WaitError
    BY <2>3 DEF WaitError, Waits, Ended
  <2>4. ASSUME NEW n \in Peer, SendReady(n)
        PROVE  Waits'
    <3>1. pc' \in {IF keys' # << >> THEN "send" ELSE Back, "undefined", "killed"} /\ wait' = wait
      BY <2>4 DEF SendReady, SendNow
    <3> QED
      BY <3>1 DEF Back, Waits, Ended
  <2> QED
    BY <1>4, <2>1, <2>2, <2>3, <2>4 DEF Serving
<1>5. CASE Sending
  BY <1>1, <1>5 DEF Sending, Send, ConnectFails, ConnectTo, SendIdentity, SendDirect, SendLater,
        SendStream, SendNow, Put, Enqueue, Idle, Waits, Ended
<1>6. CASE NextMsgSame \/ (\E n \in Peer : NextMsgFrom(n)) \/ WaitReturns
  BY <1>1, <1>6 DEF NextMsgSame, NextMsgFrom, WaitOn, WaitReturns, Idle, Waits, Ended
<1>7. CASE MsgSource \/ \E n \in Peer : NetSuspend(n) \/ NetResume(n) \/ SetNodeAddr(n)
  BY <1>1, <1>7 DEF MsgSource, NetSuspend, NetResume, SetNodeAddr, control, Waits
<1>8. CASE ShutdownServer \/ InitServer
  BY <1>1, <1>8 DEF ShutdownServer, NoTables, InitServer, Idle, Waits, Ended
<1>9. CASE Others
  <2>1. CASE \E n \in Peer : PeerConnects(n)
    BY <1>1, <2>1 DEF PeerConnects, Env, control, Waits
  <2>2. CASE \E fd \in FD : PeerSends(fd) \/ PeerCloses(fd) \/ PeerResets(fd)
    BY <1>1, <2>2 DEF PeerSends, PeerCloses, PeerResets, Env, control, Waits
  <2>3. CASE \E c \in Call : StreamPut(c) \/ StreamClose(c)
    BY <1>1, <2>3 DEF StreamPut, StreamClose, StreamWrite, Waits, Ended
  <2> QED
    BY <1>9, <2>1, <2>2, <2>3 DEF Others
<1> QED
  BY <1>2, <1>3, <1>4, <1>5, <1>6, <1>7, <1>8, <1>9 DEF Next, Application

\* Descriptors are taken by accept and connect only, each when one more is left.
LEMMA RoomGrows ==
    ASSUME Room, backlog' \in {backlog, << >>}, \A fd \in FD : sock[fd] = NULL => sock'[fd] = NULL
    PROVE  Room'
  BY DEF Room, FreeFds

LEMMA RoomKept ==
    ASSUME NetAssumption, IInv, [Next]_vars
    PROVE  Room'
<1>1. TypeOK /\ Room /\ Round /\ Places
  BY PlacesParts DEF IInv
<1>2. CASE UNCHANGED vars
  BY <1>1, <1>2, RoomGrows DEF vars, kernel
<1>3. CASE Polling
  <2>1. CASE NextMsgNow \/ PollNothing \/ PollAccept \/ PollAgain
    BY <1>1, <2>1, RoomGrows DEF NextMsgNow, PollNothing, PollAccept, PollAgain, Polled, Main
  <2>2. CASE PollRecv
    <3> DEFINE fd == Found
    <3>1. fd \in Entry /\ backlog' = backlog
      BY <1>1, <2>2, PolledOf DEF PollRecv
    <3>2. fd \in FD /\ sock[fd] # NULL
      BY <2>2, <3>1, InOf DEF PollRecv
    <3>3. \A g \in FD : sock[g] = NULL => sock'[g] = NULL
      <4>1. CASE Received(fd) = "message" /\ sock' = Taken(fd)
        BY <1>1, <3>2, <4>1, TakenOf
      <4>2. CASE sock' = sock
        BY <4>2
      <4> QED
        BY <2>2, <4>1, <4>2 DEF PollRecv
    <3> QED
      BY <1>1, <3>1, <3>3, RoomGrows
  <2>3. CASE Accept
    <3>1. PICK n \in Peer : backlog = <<n>>
      BY <1>1, <2>3 DEF Accept, TypeOK
    <3>2. backlog' = << >>
      BY <2>3, <3>1 DEF Accept
    <3> QED
      BY <3>2 DEF Room
  <2> QED
    BY <1>3, <2>1, <2>2, <2>3 DEF Polling
<1>4. CASE Serving
  <2>1. CASE WaitIdle \/ NetIdle \/ WaitError
    BY <1>1, <2>1, RoomGrows DEF WaitIdle, NetIdle, Idling, WaitError, Waiting, Main
  <2>2. CASE Identified
    <3> DEFINE fd == wait.fd
    <3>1. wait # NULL /\ fd \in FD /\ "IN" \in Revents(fd) /\ backlog' = backlog
      BY <1>1, <2>2, Values DEF Identified, Waiting, Main, TypeOK
    <3>2. sock[fd] # NULL
      BY <3>1, InOf, Constants DEF Entry
    <3>3. \A g \in FD : sock[g] = NULL => sock'[g] = NULL
      BY <1>1, <2>2, <3>1, <3>2, TakenOf DEF Identified
    <3> QED
      BY <1>1, <3>1, <3>3, RoomGrows
  <2>3. CASE Unidentified
    BY <1>1, <2>3, RoomGrows DEF Unidentified, Waiting, Main, Set, TypeOK
  <2>4. ASSUME NEW n \in Peer, SendReady(n)
        PROVE  Room'
    <3>1. backlog' = backlog /\ (sock' = sock \/ \E fd : sock' = Set(sock, fd, NULL))
      BY <2>4 DEF SendReady, SendNow
    <3>2. \A g \in FD : sock[g] = NULL => sock'[g] = NULL
      BY <1>1, <3>1 DEF Set, TypeOK
    <3> QED
      BY <1>1, <3>1, <3>2, RoomGrows
  <2> QED
    BY <1>4, <2>1, <2>2, <2>3, <2>4 DEF Serving
<1>5. CASE Sending
  <2>1. CASE (\E n \in Peer : Send(n, "send_msg") \/ Send(n, "send_stream"))
             \/ SendLater \/ SendStream
    BY <1>1, <2>1, RoomGrows DEF Send, SendLater, SendStream, Main, kernel
  <2>2. CASE SendIdentity \/ SendDirect
    <3>1. backlog' = backlog /\ (sock' = sock \/ \E fd : sock' = Set(sock, fd, NULL))
      BY <2>2 DEF SendIdentity, SendDirect, SendNow
    <3>2. \A g \in FD : sock[g] = NULL => sock'[g] = NULL
      BY <1>1, <3>1 DEF Set, TypeOK
    <3> QED
      BY <1>1, <3>1, <3>2, RoomGrows
  <2>3. CASE ConnectFails \/ ConnectTo
    <3>1. FdLeft /\ backlog' = backlog
      BY <2>3 DEF ConnectFails, ConnectTo, Main
    <3>2. /\ FreeFds # {} /\ (backlog # << >> => \A fd \in FreeFds : FreeFds \ {fd} # {})
      BY <1>1, <3>1, FdLeftOf
    <3>3. PICK fd \in FD : fd = NewFd /\ fd \in FreeFds
      BY <3>2, NewFdOf DEF FreeFds
    <3>4. sock' = sock \/ \E s : sock' = Set(sock, fd, s)
      BY <2>3, <3>3 DEF ConnectFails, ConnectTo
    <3>5. \A g \in FD : g # fd => sock'[g] = sock[g]
      BY <1>1, <3>4 DEF Set, TypeOK
    <3>6. FreeFds \ {fd} \subseteq FreeFds'
      BY <3>5 DEF FreeFds
    <3> QED
      BY <3>1, <3>2, <3>3, <3>6 DEF Room
  <2> QED
    BY <1>5, <2>1, <2>2, <2>3 DEF Sending
<1>6. CASE NextMsgSame \/ MsgSource \/ InitServer
           \/ \E n \in Peer : NextMsgFrom(n) \/ NetSuspend(n) \/ NetResume(n) \/ SetNodeAddr(n)
  BY <1>1, <1>6, RoomGrows DEF NextMsgSame, MsgSource, InitServer, NextMsgFrom, NetSuspend,
        NetResume, SetNodeAddr, Main, kernel
<1>7. CASE WaitReturns
  <2> DEFINE fd == wait.fd
  <2>1. wait # NULL /\ fd \in FD /\ "IN" \in Revents(fd) /\ backlog' = backlog
    BY <1>1, <1>7, Values DEF WaitReturns, Waiting, Main, TypeOK
  <2>2. sock[fd] # NULL
    BY <2>1, InOf, Constants DEF Entry
  <2>3. \A g \in FD : sock[g] = NULL => sock'[g] = NULL
    <3>1. CASE Received(fd) = "message" /\ sock' = Taken(fd)
      BY <1>1, <2>1, <2>2, <3>1, TakenOf
    <3>2. CASE sock' = sock
      BY <3>2
    <3> QED
      BY <1>7, <3>1, <3>2 DEF WaitReturns
  <2> QED
    BY <1>1, <2>1, <2>3, RoomGrows
<1>8. CASE ShutdownServer
  BY <1>8 DEF ShutdownServer, NoTables, Room
<1>9. CASE Others
  <2>1. CASE \E n \in Peer : PeerConnects(n)
    <3>1. FdLeft /\ sock' = sock
      BY <2>1 DEF PeerConnects
    <3>2. FreeFds # {}
      BY <1>1, <3>1, FdLeftOf
    <3> QED
      BY <3>1, <3>2 DEF Room, FreeFds
  <2>2. ASSUME NEW fd \in FD, PeerActs(fd)
        PROVE  Room'
    <3>1. backlog' = backlog /\ \A g \in FD : sock'[g] = NULL <=> sock[g] = NULL
      BY <1>1, <2>2, PeerActsOf
    <3> QED
      BY <1>1, <3>1, RoomGrows
  <2>3. CASE \E c \in Call : StreamPut(c) \/ StreamClose(c)
    BY <1>1, <2>3, RoomGrows DEF StreamPut, StreamClose, StreamWrite, kernel
  <2> QED
    BY <1>9, <2>1, <2>2, <2>3 DEF Others, PeerActs
<1> QED
  BY <1>2, <1>3, <1>4, <1>5, <1>6, <1>7, <1>8, <1>9 DEF Next, Application

LEMMA CalledKept ==
    ASSUME NetAssumption, IInv, [Next]_vars
    PROVE  Called'
<1>1. TypeOK /\ Called
  BY PlacesParts DEF IInv
<1>2. CASE UNCHANGED vars
  BY <1>1, <1>2 DEF Called, vars, queues, control, history
<1>3. CASE Polling
  <2>1. pc' \notin Connects
    BY <1>3 DEF Polling, NextMsgNow, PollNothing, PollAccept, PollAgain, PollRecv, Polled, Accept,
          control, Connects
  <2> QED
    BY <2>1 DEF Called, Connects
<1>4. CASE Serving
  <2>1. CASE WaitIdle \/ NetIdle \/ Identified \/ Unidentified \/ WaitError
    <3>1. pc' \notin Connects
      BY <2>1 DEF WaitIdle, NetIdle, Idling, Back, Identified, Unidentified, WaitError, Connects
    <3> QED
      BY <3>1 DEF Called, Connects
  <2>2. ASSUME NEW n \in Peer, SendReady(n)
        PROVE  Called'
    <3>1. pc' \in {IF keys' # << >> THEN "send" ELSE Back, "undefined", "killed"}
      BY <2>2 DEF SendReady, SendNow
    <3>2. pc' \notin Connects
      BY <3>1 DEF Back, Connects
    <3> QED
      BY <3>2 DEF Called, Connects
  <2> QED
    BY <1>4, <2>1, <2>2 DEF Serving
<1>5. CASE Sending
  <2>1. ASSUME NEW n \in Peer, NEW use \in {"send_msg", "send_stream"}, Send(n, use)
        PROVE  Called'
    <3>1. calls' \in Call
      BY <1>1, <2>1, Constants DEF Send, TypeOK, Call
    <3>2. dest'.to = n /\ send_qs' = send_qs /\ pc' \in {"connect", "put"}
      BY <2>1 DEF Send, queues
    <3>3. pc' = "put" => send_qs[n] # NULL
      BY <2>1 DEF Send
    <3> QED
      BY <3>1, <3>2, <3>3 DEF Called
  <2>2. CASE ConnectFails \/ SendDirect \/ SendLater \/ SendStream
    <3>1. pc' \notin Connects
      BY <2>2 DEF ConnectFails, SendDirect, SendNow, SendLater, SendStream, Enqueue, Connects
    <3> QED
      BY <3>1 DEF Called, Connects
  <2>3. CASE ConnectTo
    <3>1. FreeFds # {} /\ dest.to \in Peer /\ calls \in Call
      BY <1>1, <2>3, FdLeftOf, Values DEF ConnectTo, TypeOK, Called
    <3>2. NewFd \in FD
      BY <3>1, NewFdOf
    <3>3. /\ Register(NewFd, dest.to) /\ dest' = dest /\ calls' = calls
      BY <2>3 DEF ConnectTo, Main, history
    <3>4. send_qs'[dest.to] # NULL
      BY <1>1, <3>1, <3>2, <3>3, RegisterOf
    <3> QED
      BY <3>1, <3>3, <3>4 DEF Called
  <2>4. CASE SendIdentity
    BY <1>1, <2>4 DEF SendIdentity, SendNow, queues, Called
  <2> QED
    BY <1>5, <2>1, <2>2, <2>3, <2>4 DEF Sending
<1>6. CASE NextMsgSame \/ (\E n \in Peer : NextMsgFrom(n)) \/ WaitReturns \/ ShutdownServer \/ InitServer
  <2>1. pc' \notin Connects
    BY <1>6 DEF NextMsgSame, NextMsgFrom, WaitOn, WaitReturns, ShutdownServer, NoTables, InitServer, Connects
  <2> QED
    BY <2>1 DEF Called, Connects
<1>7. CASE MsgSource \/ \E n \in Peer : NetSuspend(n) \/ NetResume(n) \/ SetNodeAddr(n)
  <2>1. pc' \notin Connects
    BY <1>7 DEF MsgSource, NetSuspend, NetResume, SetNodeAddr, Idle, control, Connects
  <2> QED
    BY <2>1 DEF Called, Connects
<1>8. CASE Others
  <2>1. /\ UNCHANGED <<send_qs, dest, calls>>
        /\ pc' \in {pc, "undefined"}
    BY <1>8 DEF Others, PeerConnects, PeerSends, PeerCloses, PeerResets, StreamPut, StreamClose,
          StreamWrite, Env, queues, control, history
  <2> QED
    BY <1>1, <2>1 DEF Called
<1> QED
  BY <1>2, <1>3, <1>4, <1>5, <1>6, <1>7, <1>8 DEF Next, Application
-----------------------------------------------------------------------------
(***************************************************************************)
(* The queues                                                              *)
(***************************************************************************)
Ordered == Sorted /\ Apart /\ Unqueued /\ Passed

\* The queue of n loses entries in front, if any, or all.
Shrinks(n) ==
    send_qs'[n] # NULL =>
        \/ DOMAIN send_qs'[n] = {}
        \/ /\ send_qs[n] # NULL
           /\ \E k \in Nat : \A j \in DOMAIN send_qs'[n] :
                 j + k \in DOMAIN send_qs[n] /\ send_qs'[n][j] = send_qs[n][j + k]
\* What is finished stays so, and what is no stream does.
Finishing ==
    /\ \A c \in Call : Finished(c) => Finished(c)'
    /\ \A c \in Call : stream[c] = NULL => stream'[c] = NULL
Draining ==
    /\ \A n \in Peer : Shrinks(n)
    /\ Finishing
    /\ pc' \in Connects => pc \in Connects /\ calls' = calls

QueueIs(n) ==
    send_qs[n] # NULL =>
        /\ send_qs[n] \in Seq(1 .. calls) /\ Len(send_qs[n]) \in Nat
        /\ DOMAIN send_qs[n] = 1 .. Len(send_qs[n])
        /\ \A i \in DOMAIN send_qs[n] :
              i \in Nat /\ send_qs[n][i] \in 1 .. calls /\ send_qs[n][i] \in Call
              /\ send_qs[n][i] \in Nat

LEMMA QueueOf ==
    ASSUME NetAssumption, TypeOK, NEW n \in Peer
    PROVE  QueueIs(n)
<1> SUFFICES ASSUME send_qs[n] # NULL
             PROVE  /\ send_qs[n] \in Seq(1 .. calls) /\ Len(send_qs[n]) \in Nat
                    /\ DOMAIN send_qs[n] = 1 .. Len(send_qs[n])
                    /\ \A i \in DOMAIN send_qs[n] :
                          i \in Nat /\ send_qs[n][i] \in 1 .. calls /\ send_qs[n][i] \in Call
                          /\ send_qs[n][i] \in Nat
  BY DEF QueueIs
<1>1. send_qs[n] \in Seq(1 .. calls) /\ calls \in 0 .. MaxCalls /\ MaxCalls \in Nat
  BY Constants DEF TypeOK
<1>2. \A c \in 1 .. calls : c \in Call /\ c \in Nat
  BY <1>1 DEF Call
<1> QED
  BY <1>1, <1>2, Seqs

LEMMA QueueOfNext ==
    ASSUME NetAssumption, NEW n \in Peer
    PROVE  TypeOK' => QueueIs(n)'
<1>1. TypeOK => QueueIs(n)
  BY QueueOf
<1> QED
  BY <1>1, PTL

LEMMA ShrinkingKeeps ==
    ASSUME NetAssumption, TypeOK, TypeOK', Sorted, Apart, \A n \in Peer : Shrinks(n)
    PROVE  Sorted' /\ Apart'
<1>1. ASSUME NEW n \in Peer, send_qs'[n] # NULL, NEW i \in DOMAIN send_qs'[n]
      PROVE  /\ send_qs[n] # NULL
             /\ \E k \in Nat : \A j \in DOMAIN send_qs'[n] :
                   j + k \in DOMAIN send_qs[n] /\ send_qs'[n][j] = send_qs[n][j + k]
  BY <1>1 DEF Shrinks
<1>2. ASSUME NEW n \in Peer, send_qs'[n] # NULL, NEW i \in DOMAIN send_qs'[n],
             NEW j \in DOMAIN send_qs'[n], i < j
      PROVE  send_qs'[n][i] < send_qs'[n][j]
  <2>1. send_qs[n] # NULL
    BY <1>1, <1>2
  <2>2. PICK k \in Nat : \A l \in DOMAIN send_qs'[n] :
                   l + k \in DOMAIN send_qs[n] /\ send_qs'[n][l] = send_qs[n][l + k]
    BY <1>1, <1>2
  <2>3. i \in Nat /\ j \in Nat
    BY <1>2, QueueOfNext DEF QueueIs
  <2>4. i + k < j + k
    BY <1>2, <2>2, <2>3
  <2>5. send_qs[n][i + k] < send_qs[n][j + k]
    BY <2>1, <2>2, <2>4 DEF Sorted, Increasing
  <2> QED
    BY <2>2, <2>5
<1>3. Sorted'
  BY <1>2 DEF Sorted, Increasing
<1>4. ASSUME NEW m \in Peer, NEW n \in Peer, m # n, send_qs'[m] # NULL, send_qs'[n] # NULL,
             NEW i \in DOMAIN send_qs'[m], NEW j \in DOMAIN send_qs'[n]
      PROVE  send_qs'[m][i] # send_qs'[n][j]
  <2>1. send_qs[m] # NULL /\ send_qs[n] # NULL
    BY <1>1, <1>4
  <2>2. PICK a \in DOMAIN send_qs[m] : send_qs'[m][i] = send_qs[m][a]
    BY <1>1, <1>4
  <2>3. PICK b \in DOMAIN send_qs[n] : send_qs'[n][j] = send_qs[n][b]
    BY <1>1, <1>4
  <2> QED
    BY <1>4, <2>1, <2>2, <2>3 DEF Apart
<1>5. Apart'
  BY <1>4 DEF Apart
<1> QED
  BY <1>3, <1>5

LEMMA PassedAtKept ==
    ASSUME NetAssumption, TypeOK, TypeOK', NEW n \in Peer, PassedAt(n), Shrinks(n), Finishing,
           wire'[n] = wire[n]
    PROVE  PassedAt(n)'
<1> SUFFICES ASSUME send_qs'[n] # NULL, NEW i \in DOMAIN send_qs'[n],
                    ~(Finished(send_qs[n][i])')
             PROVE  wire'[n] <= send_qs'[n][i]
  BY DEF PassedAt, Unfinished
<1>1. PICK a \in DOMAIN send_qs[n] : send_qs'[n][i] = send_qs[n][a] /\ send_qs[n] # NULL
  BY DEF Shrinks
<1>2. send_qs[n][a] \in Call
  BY <1>1, QueueOf DEF QueueIs
<1>3. ~Finished(send_qs[n][a])
  BY <1>1, <1>2 DEF Finishing, Finished
<1> QED
  BY <1>1, <1>3 DEF PassedAt, Unfinished

LEMMA UnqueuedKept ==
    ASSUME NetAssumption, TypeOK, Called, Unqueued, Draining
    PROVE  Unqueued'
<1> SUFFICES ASSUME pc' \in Connects
             PROVE  /\ stream'[calls'] = NULL
                    /\ \A n \in Peer : send_qs'[n] # NULL =>
                          \A i \in DOMAIN send_qs'[n] : send_qs'[n][i] < calls'
  BY DEF Unqueued, Connects
<1>1. pc \in Connects /\ calls' = calls /\ calls \in Call
  BY DEF Draining, Called, Connects
<1>2. /\ stream[calls] = NULL
      /\ \A n \in Peer : send_qs[n] # NULL =>
            \A i \in DOMAIN send_qs[n] : send_qs[n][i] < calls
  BY <1>1 DEF Unqueued, Connects
<1>3. stream'[calls'] = NULL
  BY <1>1, <1>2 DEF Draining, Finishing
<1>4. ASSUME NEW n \in Peer, send_qs'[n] # NULL, NEW i \in DOMAIN send_qs'[n]
      PROVE  send_qs'[n][i] < calls'
  <2>1. PICK a \in DOMAIN send_qs[n] : send_qs'[n][i] = send_qs[n][a] /\ send_qs[n] # NULL
    BY <1>4 DEF Draining, Shrinks
  <2> QED
    BY <1>1, <1>2, <2>1
<1> QED
  BY <1>3, <1>4

LEMMA DrainingKeeps ==
    ASSUME NetAssumption, TypeOK, TypeOK', Called, Ordered, Draining, wire' = wire
    PROVE  Ordered'
<1>1. Sorted' /\ Apart'
  BY ShrinkingKeeps DEF Ordered, Draining
<1>2. Unqueued'
  BY UnqueuedKept DEF Ordered
<1>3. ASSUME NEW n \in Peer
      PROVE  PassedAt(n)'
  BY PassedAtKept DEF Ordered, Passed, Draining
<1> QED
  BY <1>1, <1>2, <1>3 DEF Ordered, Passed

\* Steps that leave the queues and the streams alone.
LEMMA QuietDrains ==
    ASSUME NetAssumption, TypeOK, UNCHANGED <<send_qs, stream>>,
           pc' \in Connects => pc \in Connects /\ calls' = calls
    PROVE  Draining
<1>1. ASSUME NEW n \in Peer, send_qs[n] # NULL, NEW j \in DOMAIN send_qs[n]
      PROVE  j + 0 = j
  BY <1>1, QueueOf DEF QueueIs
<1>2. \A n \in Peer : Shrinks(n)
  BY <1>1 DEF Shrinks
<1> QED
  BY <1>2 DEF Draining, Finishing, Finished

\* A queue that is made anew.
LEMMA RegisterDrains ==
    ASSUME NetAssumption, TypeOK, NEW fd \in FD, NEW n \in Peer, Register(fd, n),
           pc' \in Connects => pc \in Connects /\ calls' = calls
    PROVE  Draining
<1>1. ASSUME NEW m \in Peer, send_qs[m] # NULL, NEW j \in DOMAIN send_qs[m]
      PROVE  j + 0 = j
  BY <1>1, QueueOf DEF QueueIs
<1>2. send_qs'[n] = << >> /\ \A m \in Peer : m # n => send_qs'[m] = send_qs[m]
  BY RegisterOf
<1>3. \A m \in Peer : Shrinks(m)
  <2>1. DOMAIN send_qs'[n] = {}
    BY <1>2
  <2>2. ASSUME NEW m \in Peer, m # n
        PROVE  Shrinks(m)
    BY <1>1, <1>2, <2>2 DEF Shrinks
  <2>3. Shrinks(n)
    BY <2>1 DEF Shrinks
  <2> QED
    BY <2>2, <2>3
<1>4. Finishing
  BY RegisterOf DEF Finishing, Finished
<1> QED
  BY <1>3, <1>4 DEF Draining

\* get takes the first unfinished message of the queue: what stays is not before it.
LEMMA OrderedSendReady ==
    ASSUME NetAssumption, IInv, TypeOK', NEW n \in Peer, SendReady(n)
    PROVE  Ordered'
<1>1. TypeOK /\ Called /\ Ordered /\ Round
  BY PlacesParts DEF IInv, Ordered
<1>2. n = keys[1] /\ 1 \in DOMAIN keys /\ pc = "send"
  BY <1>1 DEF SendReady, TypeOK
<1>3. send_qs[n] # NULL /\ Ready(send_qs[n]) /\ GotFrom(n)
  BY <1>1, <1>2 DEF SendReady, Round, ReadyAt, Range
<1> DEFINE q == send_qs[n]
           at == Lowest(Unfinished(q))
           c == Got(n)
<1>4. /\ at \in DOMAIN q /\ c = q[at] /\ c \in 1 .. calls /\ c \in Call /\ ~Finished(c)
      /\ \A m \in Peer : m # n => send_qs'[m] = send_qs[m]
      /\ \E k \in Nat :
            /\ k = IF stream[c] = NULL THEN at ELSE at - 1
            /\ \A j \in DOMAIN send_qs'[n] :
                  j \in Nat /\ j + k \in DOMAIN q /\ send_qs'[n][j] = q[j + k]
      /\ \A d \in Call : d # c => stream'[d] = stream[d]
      /\ stream[c] = NULL => stream'[c] = NULL
      /\ send_qs'[n] # NULL
  BY <1>1, <1>3, GotOf
<1>5. PICK k \in Nat :
            /\ k = IF stream[c] = NULL THEN at ELSE at - 1
            /\ \A j \in DOMAIN send_qs'[n] :
                  j \in Nat /\ j + k \in DOMAIN q /\ send_qs'[n][j] = q[j + k]
  BY <1>4
<1> HIDE DEF at, c
<1>6. \A m \in Peer : Shrinks(m)
  <2>1. Shrinks(n)
    BY <1>3, <1>5 DEF Shrinks
  <2>2. ASSUME NEW m \in Peer, m # n, send_qs[m] # NULL, NEW j \in DOMAIN send_qs[m]
        PROVE  j + 0 = j
    BY <1>1, <2>2, QueueOf DEF QueueIs
  <2>3. ASSUME NEW m \in Peer, m # n
        PROVE  Shrinks(m)
    BY <1>4, <2>2, <2>3 DEF Shrinks
  <2> QED
    BY <2>1, <2>3
<1>7. Finishing
  BY <1>4 DEF Finishing, Finished
<1>8. PICK next \in {"send", "idle", "wait"} : SendNow(n, c, next)
  BY DEF SendReady, Back, c
<1>9. /\ pc' \in {next, "undefined", "killed"}
      /\ \A m \in Peer : m # n => wire'[m] = wire[m]
      /\ wire'[n] = wire[n] \/ wire'[n] = c
  BY <1>1, <1>4, <1>8, SendNowOf
<1>10. Draining
  BY <1>6, <1>7, <1>9 DEF Draining, Connects
<1>11. Sorted' /\ Apart' /\ Unqueued'
  BY <1>1, <1>10, ShrinkingKeeps, UnqueuedKept DEF Ordered, Draining
<1>12. ASSUME NEW m \in Peer, wire'[m] = wire[m]
       PROVE  PassedAt(m)'
  BY <1>1, <1>6, <1>7, <1>12, PassedAtKept DEF Ordered, Passed
<1>13. ASSUME wire'[n] = c
       PROVE  PassedAt(n)'
  <2>1. ASSUME NEW j \in DOMAIN send_qs'[n]
        PROVE  wire'[n] <= send_qs'[n][j]
    <3>1. /\ j + k \in DOMAIN q /\ send_qs'[n][j] = q[j + k] /\ j \in Nat /\ j >= 1
          /\ at \in Nat /\ c \in Nat /\ q[j + k] \in Nat
      <4>1. QueueIs(n) /\ QueueIs(n)'
        BY <1>1, QueueOf, QueueOfNext
      <4>2. /\ DOMAIN q = 1 .. Len(q) /\ Len(q) \in Nat
            /\ \A i \in DOMAIN q : i \in Nat /\ q[i] \in Nat
            /\ DOMAIN send_qs'[n] = 1 .. Len(send_qs'[n]) /\ Len(send_qs'[n]) \in Nat
        BY <1>3, <1>4, <4>1 DEF QueueIs
      <4>3. j + k \in DOMAIN q /\ send_qs'[n][j] = q[j + k] /\ j \in Nat /\ j >= 1
        BY <1>5, <4>2
      <4> QED
        BY <1>4, <4>2, <4>3
    <3>2. at <= j + k
      BY <1>5, <3>1
    <3>3. at < j + k => q[at] < q[j + k]
      BY <1>1, <1>3, <1>4, <3>1 DEF Ordered, Sorted, Increasing
    <3> QED
      BY <1>4, <1>13, <3>1, <3>2, <3>3
  <2> QED
    BY <2>1 DEF PassedAt, Unfinished
<1>14. Passed'
  BY <1>9, <1>12, <1>13 DEF Passed
<1> QED
  BY <1>11, <1>14 DEF Ordered

\* send_msg sends past a queue only when everything in it is finished.
LEMMA OrderedSendDirect ==
    ASSUME NetAssumption, IInv, TypeOK', SendDirect
    PROVE  Ordered'
<1>1. TypeOK /\ Called /\ Ordered
  BY PlacesParts DEF IInv, Ordered
<1>2. /\ dest.to \in Peer /\ calls \in 1 .. calls /\ UNCHANGED <<send_qs, stream>>
      /\ Empty(send_qs[dest.to]) /\ SendNow(dest.to, calls, "idle")
  BY <1>1, Values DEF SendDirect, Put, TypeOK, Called, Call, queues
<1>3. /\ pc' \in {"idle", "undefined", "killed"}
      /\ \A m \in Peer : m # dest.to => wire'[m] = wire[m]
  BY <1>1, <1>2, SendNowOf
<1>4. Draining
  BY <1>1, <1>2, <1>3, QuietDrains DEF Connects
<1>5. Sorted' /\ Apart' /\ Unqueued'
  BY <1>1, <1>4, ShrinkingKeeps, UnqueuedKept DEF Ordered, Draining
<1>6. ASSUME NEW m \in Peer, m # dest.to
      PROVE  PassedAt(m)'
  BY <1>1, <1>3, <1>4, <1>6, PassedAtKept DEF Ordered, Passed, Draining
<1>7. ASSUME NEW m \in Peer, m = dest.to
      PROVE  PassedAt(m)'
  <2>1. Unfinished(send_qs[m]) = {} /\ UNCHANGED <<send_qs, stream>>
    BY <1>2, <1>7 DEF Empty
  <2>2. Unfinished(send_qs[m])' = {}
    BY <2>1 DEF Unfinished, Finished
  <2> QED
    BY <2>2 DEF PassedAt
<1> QED
  BY <1>5, <1>6, <1>7 DEF Ordered, Passed

\* A message or a stream is queued after all that were there.
LEMMA OrderedEnqueue ==
    ASSUME NetAssumption, IInv, TypeOK', SendLater \/ SendStream
    PROVE  Ordered'
<1>1. TypeOK /\ Called /\ Ordered
  BY PlacesParts DEF IInv, Ordered
<1>2. PICK n \in Peer : n = dest.to
  BY <1>1, Values DEF SendLater, SendStream, Put, TypeOK
<1>3. /\ calls \in Call /\ send_qs[n] # NULL /\ pc' = "idle" /\ wire' = wire /\ pc \in Connects
      /\ send_qs' = [send_qs EXCEPT ![n] = Append(send_qs[n], calls)]
      /\ stream' = stream \/ stream' = Set(stream, calls, NewStream)
  BY <1>1, <1>2 DEF SendLater, SendStream, Put, Enqueue, Called, Connects, Main, history
<1> DEFINE q == send_qs[n]
           l == Len(q)
<1>4. /\ q \in Seq(1 .. calls) /\ l \in Nat /\ DOMAIN q = 1 .. l
      /\ \A i \in 1 .. l : q[i] \in Nat /\ q[i] < calls
      /\ \A m \in Peer : send_qs[m] # NULL =>
            \A i \in DOMAIN send_qs[m] : send_qs[m][i] < calls /\ send_qs[m][i] \in Call
                                         /\ send_qs[m][i] \in Nat
      /\ calls \in 1 .. calls /\ calls \in Nat
  BY <1>1, <1>3, QueueOf, Constants DEF QueueIs, Ordered, Unqueued, Connects, Call
<1> HIDE DEF l
<1>5. /\ \A m \in Peer : m # n => send_qs'[m] = send_qs[m]
      /\ DOMAIN send_qs'[n] = 1 .. l + 1
      /\ \A i \in 1 .. l : send_qs'[n][i] = q[i]
      /\ send_qs'[n][l + 1] = calls
  <2>1. send_qs'[n] = Append(q, calls) /\ \A m \in Peer : m # n => send_qs'[m] = send_qs[m]
    BY <1>1, <1>3 DEF TypeOK
  <2>2. /\ DOMAIN Append(q, calls) = 1 .. l + 1
        /\ \A i \in 1 .. l : Append(q, calls)[i] = q[i]
        /\ Append(q, calls)[l + 1] = calls
    BY <1>4, AppendOf DEF l
  <2> QED
    BY <2>1, <2>2
<1>6. \A i \in DOMAIN send_qs'[n] : i \in 1 .. l \/ i = l + 1
  BY <1>4, <1>5
<1>7. Sorted'
  <2>1. ASSUME NEW i \in DOMAIN send_qs'[n], NEW j \in DOMAIN send_qs'[n], i < j
        PROVE  send_qs'[n][i] < send_qs'[n][j]
    <3>1. i \in 1 .. l
      BY <1>4, <1>5, <1>6, <2>1
    <3>2. CASE j \in 1 .. l
      BY <1>1, <1>3, <1>4, <1>5, <2>1, <3>1, <3>2 DEF Ordered, Sorted, Increasing
    <3>3. CASE j = l + 1
      BY <1>4, <1>5, <3>1, <3>3
    <3> QED
      BY <1>6, <3>2, <3>3
  <2> QED
    BY <1>1, <1>5, <2>1 DEF Ordered, Sorted, Increasing
<1>8. Apart'
  <2>1. ASSUME NEW m \in Peer, m # n, send_qs[m] # NULL, NEW i \in DOMAIN send_qs[m],
               NEW j \in DOMAIN send_qs'[n]
        PROVE  send_qs[m][i] # send_qs'[n][j]
    <3>1. CASE j \in 1 .. l
      BY <1>1, <1>3, <1>4, <1>5, <2>1, <3>1 DEF Ordered, Apart
    <3>2. CASE j = l + 1
      BY <1>4, <1>5, <2>1, <3>2
    <3> QED
      BY <1>6, <3>1, <3>2
  <2>2. ASSUME NEW m \in Peer, NEW o \in Peer, m # o, send_qs'[m] # NULL, send_qs'[o] # NULL,
               NEW i \in DOMAIN send_qs'[m], NEW j \in DOMAIN send_qs'[o]
        PROVE  send_qs'[m][i] # send_qs'[o][j]
    <3>1. CASE m # n /\ o # n
      <4>1. send_qs'[m] = send_qs[m] /\ send_qs'[o] = send_qs[o]
        BY <1>5, <3>1
      <4> QED
        BY <1>1, <2>2, <4>1 DEF Ordered, Apart
    <3>2. CASE o = n
      <4>1. send_qs'[m] = send_qs[m]
        BY <1>5, <2>2, <3>2
      <4> QED
        BY <2>1, <2>2, <3>2, <4>1
    <3>3. CASE m = n
      <4>1. send_qs'[o] = send_qs[o]
        BY <1>5, <2>2, <3>3
      <4> QED
        BY <2>1, <2>2, <3>3, <4>1
    <3> QED
      BY <3>1, <3>2, <3>3
  <2> QED
    BY <2>2 DEF Apart
<1>9. Unqueued'
  BY <1>3 DEF Unqueued
<1>10. \A c \in Call : c # calls => stream'[c] = stream[c]
  BY <1>1, <1>3 DEF Set, TypeOK
<1>11. ASSUME NEW m \in Peer, m # n
       PROVE  PassedAt(m)'
  <2>1. send_qs'[m] = send_qs[m] /\ PassedAt(m) /\ wire'[m] = wire[m]
    BY <1>1, <1>3, <1>5, <1>11 DEF Ordered, Passed
  <2>2. ASSUME send_qs'[m] # NULL, NEW i \in DOMAIN send_qs'[m], ~Finished(send_qs[m][i])'
        PROVE  wire'[m] <= send_qs'[m][i]
    <3>1. send_qs[m][i] \in Call /\ send_qs[m][i] # calls
      BY <1>4, <2>1, <2>2
    <3>2. ~Finished(send_qs[m][i])
      BY <1>10, <2>1, <2>2, <3>1 DEF Finished
    <3> QED
      BY <2>1, <2>2, <3>2 DEF PassedAt, Unfinished
  <2> QED
    BY <2>2 DEF PassedAt, Unfinished
<1>12. PassedAt(n)'
  <2>1. ASSUME NEW i \in 1 .. l, ~Finished(send_qs[n][i])'
        PROVE  wire'[n] <= send_qs'[n][i]
    <3>1. send_qs'[n][i] = q[i] /\ q[i] \in Call /\ q[i] # calls
      BY <1>3, <1>4, <1>5
    <3>2. ~Finished(q[i])
      BY <1>10, <2>1, <3>1 DEF Finished
    <3> QED
      BY <1>1, <1>3, <1>4, <3>1, <3>2 DEF Ordered, Passed, PassedAt, Unfinished
  <2>2. wire'[n] <= send_qs'[n][l + 1]
    BY <1>1, <1>3, <1>4, <1>5 DEF TypeOK
  <2> QED
    BY <1>6, <2>1, <2>2 DEF PassedAt, Unfinished
<1> QED
  BY <1>2, <1>7, <1>8, <1>9, <1>11, <1>12 DEF Ordered, Passed

\* The number of a new call is greater than all that are queued, and has no stream.
LEMMA OrderedSend ==
    ASSUME NetAssumption, IInv, TypeOK', NEW n \in Peer, NEW use, Send(n, use)
    PROVE  Ordered'
<1>1. TypeOK /\ Called /\ Ordered
  BY PlacesParts DEF IInv, Ordered
<1>2. UNCHANGED <<send_qs, stream, wire>> /\ calls' = calls + 1 /\ calls < MaxCalls
  BY DEF Send, queues
<1>3. calls \in Nat /\ calls' \in Call /\ calls' > calls
  BY <1>1, <1>2, Constants DEF TypeOK, Call
<1>4. stream[calls'] = NULL
  BY <1>1, <1>2, <1>3 DEF TypeOK
<1>5. \A m \in Peer : send_qs[m] # NULL => \A i \in DOMAIN send_qs[m] : send_qs[m][i] < calls'
  BY <1>1, <1>2, <1>3, QueueOf DEF QueueIs
<1>6. Unqueued'
  BY <1>2, <1>4, <1>5 DEF Unqueued
<1> QED
  BY <1>1, <1>2, <1>6 DEF Ordered, Sorted, Increasing, Apart, Passed, PassedAt, Unfinished, Finished

\* What is finished was closed by its writer: a step of a writer does not change it.
LEMMA WritingDrains ==
    ASSUME NetAssumption, TypeOK, NEW c \in Call, StreamPut(c) \/ StreamClose(c)
    PROVE  Draining /\ wire' = wire
<1>1. /\ stream[c] # NULL /\ stream[c].open
      /\ UNCHANGED <<kernel, tables, send_qs, addresses, start, last_fd, wait, dest, keys, history>>
      /\ \A d \in Call : d # c => stream'[d] = stream[d]
      /\ pc' \in {pc, "undefined"}
  BY StreamWriteOf
<1>2. Finishing
  BY <1>1 DEF Finishing, Finished
<1>3. ASSUME NEW n \in Peer, send_qs[n] # NULL, NEW j \in DOMAIN send_qs[n]
      PROVE  j + 0 = j
  BY <1>3, QueueOf DEF QueueIs
<1>4. \A n \in Peer : Shrinks(n)
  BY <1>1, <1>3 DEF Shrinks
<1> QED
  BY <1>1, <1>2, <1>4 DEF Draining, Connects, history

LEMMA OrderedKept ==
    ASSUME NetAssumption, IInv, TypeOK', [Next]_vars
    PROVE  Ordered'
<1>1. TypeOK /\ Called /\ Ordered /\ Unlisted
  BY PlacesParts DEF IInv, Ordered
<1>2. ASSUME UNCHANGED <<send_qs, stream, wire>>,
             pc' \in Connects => pc \in Connects /\ calls' = calls
      PROVE  Ordered'
  BY <1>1, <1>2, QuietDrains, DrainingKeeps
<1>3. CASE UNCHANGED vars
  BY <1>2, <1>3 DEF vars, queues, control, history
<1>4. CASE Polling
  <2>1. UNCHANGED <<send_qs, stream, wire>>
    BY <1>4 DEF Polling, NextMsgNow, PollNothing, PollAccept, PollAgain, PollRecv, Polled, Accept,
          Main, queues, history
  <2>2. pc' \notin Connects
    BY <1>4 DEF Polling, NextMsgNow, PollNothing, PollAccept, PollAgain, PollRecv, Polled, Accept,
          control, Connects
  <2> QED
    BY <1>2, <2>1, <2>2
<1>5. CASE WaitIdle \/ NetIdle \/ Unidentified \/ WaitError
  <2>1. UNCHANGED <<send_qs, stream, wire>>
    BY <1>5 DEF WaitIdle, NetIdle, Idling, Unidentified, WaitError, Waiting, Main, queues, history
  <2>2. pc' \notin Connects
    BY <1>5 DEF WaitIdle, NetIdle, Idling, Back, Unidentified, WaitError, Connects
  <2> QED
    BY <1>2, <2>1, <2>2
<1>6. CASE Identified
  <2>1. /\ wait.fd \in FD /\ sock[wait.fd].peer \in Peer /\ Register(wait.fd, sock[wait.fd].peer)
        /\ wire' = wire /\ pc' = "poll"
    BY <1>1, <1>6, Values DEF Identified, Waiting, Main, history, TypeOK, Unlisted, Accepting
  <2>2. Draining
    BY <1>1, <2>1, RegisterDrains DEF Connects
  <2> QED
    BY <1>1, <2>1, <2>2, DrainingKeeps
<1>7. CASE \E n \in Peer : Send(n, "send_msg") \/ Send(n, "send_stream")
  BY <1>7, OrderedSend
<1>8. CASE ConnectFails \/ SendIdentity
  <2>1. UNCHANGED <<send_qs, stream, wire, calls>>
    BY <1>8 DEF ConnectFails, SendIdentity, SendNow, Main, queues, history
  <2>2. pc' \in Connects => pc \in Connects
    BY <1>8 DEF ConnectFails, SendIdentity, Connects
  <2> QED
    BY <1>2, <2>1, <2>2
<1>9. CASE ConnectTo
  <2>1. FreeFds # {} /\ dest.to \in Peer
    BY <1>1, <1>9, FdLeftOf, Values DEF ConnectTo, TypeOK
  <2>2. NewFd \in FD
    BY <2>1, NewFdOf
  <2>3. /\ Register(NewFd, dest.to) /\ wire' = wire /\ calls' = calls /\ pc \in Connects
    BY <1>9 DEF ConnectTo, Main, history, Connects
  <2>4. Draining
    BY <1>1, <2>1, <2>2, <2>3, RegisterDrains
  <2> QED
    BY <1>1, <2>3, <2>4, DrainingKeeps
<1>10. CASE NextMsgSame \/ (\E n \in Peer : NextMsgFrom(n)) \/ WaitReturns \/ MsgSource \/ InitServer
            \/ \E n \in Peer : NetSuspend(n) \/ NetResume(n) \/ SetNodeAddr(n)
  <2>1. UNCHANGED <<send_qs, stream, wire>>
    BY <1>10 DEF NextMsgSame, NextMsgFrom, WaitReturns, Waiting, MsgSource, InitServer, NetSuspend,
          NetResume, SetNodeAddr, Main, queues, history
  <2>2. pc' \notin Connects
    BY <1>10 DEF NextMsgSame, NextMsgFrom, WaitOn, WaitReturns, MsgSource, InitServer, NetSuspend,
          NetResume, SetNodeAddr, Idle, control, Connects
  <2> QED
    BY <1>2, <2>1, <2>2
<1>11. CASE ShutdownServer
  <2>1. /\ \A n \in Peer : send_qs'[n] = NULL
        /\ pc' \notin Connects
    BY <1>11 DEF ShutdownServer, NoTables, Connects
  <2> QED
    BY <2>1 DEF Ordered, Sorted, Apart, Unqueued, Connects, Passed, PassedAt
<1>12. CASE Others
  <2>1. CASE (\E n \in Peer : PeerConnects(n)) \/ \E fd \in FD : PeerActs(fd)
    <3>1. UNCHANGED <<send_qs, stream, wire, pc, calls>>
      BY <2>1 DEF PeerConnects, PeerActs, PeerSends, PeerCloses, PeerResets, Env, queues, control,
            history
    <3> QED
      BY <1>2, <3>1
  <2>2. CASE \E c \in Call : StreamPut(c) \/ StreamClose(c)
    BY <1>1, <2>2, WritingDrains, DrainingKeeps
  <2> QED
    BY <1>12, <2>1, <2>2 DEF Others, PeerActs
<1> QED
  BY <1>3, <1>4, <1>5, <1>6, <1>7, <1>8, <1>9, <1>10, <1>11, <1>12, OrderedSendReady,
     OrderedSendDirect, OrderedEnqueue DEF Next, Serving, Application, Sending
-----------------------------------------------------------------------------
(***************************************************************************)
(* The round of send_readies                                               *)
(***************************************************************************)
\* A queue stays ready when its first message stays one.
LEMMA ReadyKept ==
    ASSUME NetAssumption, TypeOK, NEW n \in Peer, ReadyAt(n), send_qs'[n] = send_qs[n],
           NEW c, c = Foremost(send_qs[n]),
           \A i \in DOMAIN send_qs[n] : Finished(send_qs[n][i]) => Finished(send_qs[n][i])',
           stream'[c] = NULL \/ stream'[c].len > 0
    PROVE  ReadyAt(n)'
<1> DEFINE q == send_qs[n]
           at == Lowest(Unfinished(q))
<1>1. q # NULL /\ Unfinished(q) # {} /\ (stream[c] = NULL \/ stream[c].len > 0)
  BY DEF ReadyAt, Ready
<1>2. /\ at \in DOMAIN q /\ c = q[at] /\ \A j \in Unfinished(q) : at <= j
  BY <1>1, UnfinishedOf
<1>3. Unfinished(q)' = {i \in DOMAIN q : ~Finished(send_qs[n][i])'}
  BY DEF Unfinished
<1>4. Unfinished(q)' \subseteq Unfinished(q)
  BY <1>3 DEF Unfinished
<1>5. at \in Unfinished(q)'
  BY <1>2, <1>3 DEF Finished
<1>6. Unfinished(q)' \in SUBSET Nat
  BY <1>1, <1>3, QueueOf DEF QueueIs
<1> DEFINE S == Unfinished(q)'
<1>7. Lowest(S) = at
  <2> HIDE DEF S, at
  <2>1. S \in SUBSET Nat /\ at \in S /\ \A j \in S : at <= j
    BY <1>2, <1>4, <1>5, <1>6 DEF S
  <2> QED
    BY <2>1, LowestIs
<1>8. Foremost(q)' = c
  BY <1>2, <1>7 DEF Foremost
<1> QED
  BY <1>1, <1>5, <1>8 DEF ReadyAt, Ready

\* A writer makes its stream longer or closes it.
LEMMA WritingReady ==
    ASSUME NetAssumption, TypeOK, NEW c \in Call, StreamPut(c) \/ StreamClose(c),
           NEW n \in Peer, ReadyAt(n)
    PROVE  ReadyAt(n)'
<1>1. /\ stream[c] # NULL /\ stream[c].open /\ send_qs' = send_qs
      /\ \A d \in Call : d # c => stream'[d] = stream[d]
      /\ stream'[c].len > 0 \/ stream'[c].len = stream[c].len
  <2>1. /\ stream[c] # NULL /\ stream[c].open /\ send_qs' = send_qs
        /\ \A d \in Call : d # c => stream'[d] = stream[d]
        /\ stream' = stream \/ stream'[c].len > 0 \/ stream'[c].len = stream[c].len
    BY StreamWriteOf
  <2> QED
    BY <2>1
<1>2. PICK d \in Call : d = Foremost(send_qs[n])
  BY UnfinishedOf DEF ReadyAt, Ready
<1>3. stream[d] = NULL \/ stream[d].len > 0
  BY <1>2 DEF ReadyAt, Ready
<1>4. stream'[d] = NULL \/ stream'[d].len > 0
  BY <1>1, <1>3
<1>5. ASSUME NEW i \in DOMAIN send_qs[n], Finished(send_qs[n][i])
      PROVE  Finished(send_qs[n][i])'
  <2>1. send_qs[n][i] \in Call
    BY QueueOf DEF QueueIs, ReadyAt
  <2> QED
    BY <1>1, <1>5, <2>1 DEF Finished
<1> QED
  BY <1>1, <1>2, <1>4, <1>5, ReadyKept

\* The round goes on: the peer that has sent goes to its end, if it has more.
LEMMA RoundSendReady ==
    ASSUME NetAssumption, IInv, TypeOK', NEW n \in Peer, SendReady(n)
    PROVE  Round'
<1>1. TypeOK /\ Apart /\ Round /\ pc = "send" /\ keys \in Seq(Peer) /\ keys # << >>
  BY DEF IInv, SendReady, TypeOK
<1>2. /\ n = keys[1] /\ 1 \in DOMAIN keys /\ n \in Range(keys)
      /\ \A i, j \in DOMAIN keys : keys[i] = keys[j] => i = j
      /\ \A m \in Range(keys) : ReadyAt(m)
  BY <1>1 DEF SendReady, Round, Range
<1>3. send_qs[n] # NULL /\ Ready(send_qs[n]) /\ GotFrom(n)
  BY <1>2 DEF SendReady, ReadyAt
<1>4. PICK c \in Call : /\ \E i \in DOMAIN send_qs[n] : c = send_qs[n][i]
                        /\ \A m \in Peer : m # n => send_qs'[m] = send_qs[m]
                        /\ \A d \in Call : d # c => stream'[d] = stream[d]
                        /\ send_qs'[n] # NULL
  <2>1. LET at == Lowest(Unfinished(send_qs[n]))
            c == Got(n)
        IN  /\ at \in DOMAIN send_qs[n] /\ c = send_qs[n][at] /\ c \in Call
            /\ \A m \in Peer : m # n => send_qs'[m] = send_qs[m]
            /\ \A d \in Call : d # c => stream'[d] = stream[d]
            /\ send_qs'[n] # NULL
    BY <1>1, <1>3, GotOf
  <2> QED
    BY <2>1
<1>5. ASSUME NEW m \in Peer, m # n, ReadyAt(m)
      PROVE  ReadyAt(m)'
  <2>1. send_qs[m] # NULL /\ send_qs'[m] = send_qs[m]
    BY <1>4, <1>5 DEF ReadyAt
  <2>2. \A i \in DOMAIN send_qs[m] : send_qs[m][i] \in Call /\ send_qs[m][i] # c
    BY <1>1, <1>3, <1>4, <1>5, <2>1, QueueOf DEF Apart, QueueIs
  <2>3. \A i \in DOMAIN send_qs[m] : stream'[send_qs[m][i]] = stream[send_qs[m][i]]
    BY <1>4, <2>2
  <2>4. ASSUME NEW i \in DOMAIN send_qs[m], Finished(send_qs[m][i])
        PROVE  Finished(send_qs[m][i])'
    BY <2>1, <2>3, <2>4 DEF Finished
  <2>5. PICK d \in Call : /\ d = Foremost(send_qs[m]) /\ \E i \in DOMAIN send_qs[m] : d = send_qs[m][i]
                          /\ stream[d] = NULL \/ stream[d].len > 0
    BY <1>1, <1>5, <2>1, UnfinishedOf DEF ReadyAt, Ready
  <2>6. stream'[d] = NULL \/ stream'[d].len > 0
    BY <2>3, <2>5
  <2> QED
    BY <1>1, <1>5, <2>1, <2>4, <2>5, <2>6, ReadyKept
<1> DEFINE t == Tail(keys)
<1>6. /\ t \in Seq(Peer) /\ DOMAIN t = 1 .. Len(t) /\ Len(t) \in Nat
      /\ \A i \in DOMAIN t : i \in Nat /\ i + 1 \in DOMAIN keys /\ t[i] = keys[i + 1]
  BY <1>1
<1> HIDE DEF t
<1>7. \A i \in DOMAIN t : t[i] \in Peer /\ t[i] # n /\ ReadyAt(t[i])
  <2>1. ASSUME NEW i \in DOMAIN t
        PROVE  t[i] \in Peer /\ t[i] # n /\ ReadyAt(t[i])
    <3>1. i + 1 # 1 /\ i + 1 \in DOMAIN keys /\ t[i] = keys[i + 1] /\ t[i] \in Peer
      BY <1>6
    <3>2. t[i] \in Range(keys) /\ t[i] # n
      BY <1>2, <3>1 DEF Range
    <3> QED
      BY <1>2, <3>1, <3>2
  <2> QED
    BY <2>1
<1>8. \A i, j \in DOMAIN t : t[i] = t[j] => i = j
  BY <1>2, <1>6
<1>9. keys' = IF Ready(send_qs[n])' THEN Append(t, n) ELSE t
  BY DEF SendReady, t
<1>10. CASE keys' = t
  <2>1. \A m \in Range(keys') : m \in Peer /\ m # n /\ ReadyAt(m)
    BY <1>7, <1>10 DEF Range
  <2> QED
    BY <1>5, <1>8, <1>10, <2>1 DEF Round
<1>11. CASE Ready(send_qs[n])' /\ keys' = Append(t, n)
  <2>1. /\ DOMAIN keys' = 1 .. Len(t) + 1 /\ \A i \in 1 .. Len(t) : keys'[i] = t[i]
        /\ keys'[Len(t) + 1] = n
    BY <1>6, <1>11, AppendOf
  <2>2. \A i \in DOMAIN keys' : i \in DOMAIN t \/ i = Len(t) + 1
    BY <1>6, <2>1
  <2>3. \A i, j \in DOMAIN keys' : keys'[i] = keys'[j] => i = j
    BY <1>6, <1>7, <1>8, <2>1, <2>2
  <2>4. ASSUME NEW m \in Range(keys')
        PROVE  ReadyAt(m)'
    <3>1. CASE m = n
      BY <1>4, <1>11, <3>1 DEF ReadyAt
    <3>2. CASE m # n
      <4>1. PICK i \in DOMAIN keys' : keys'[i] = m
        BY DEF Range
      <4>2. i \in DOMAIN t /\ m = t[i]
        BY <1>6, <2>1, <2>2, <3>2, <4>1
      <4> QED
        BY <1>5, <1>7, <3>2, <4>2
    <3> QED
      BY <3>1, <3>2
  <2> QED
    BY <2>3, <2>4 DEF Round
<1> QED
  BY <1>9, <1>10, <1>11

LEMMA RoundKept ==
    ASSUME NetAssumption, IInv, TypeOK', [Next]_vars
    PROVE  Round'
<1>1. TypeOK /\ Round
  BY DEF IInv
<1>2. ASSUME UNCHANGED <<send_qs, stream, keys, pc>>
      PROVE  Round'
  <2>1. \A n \in Peer : ReadyAt(n) => ReadyAt(n)'
    BY <1>2 DEF ReadyAt, Ready, Foremost, Unfinished, Finished
  <2>2. \A n \in Range(keys) : n \in Peer
    BY <1>1 DEF TypeOK, Range
  <2> QED
    BY <1>1, <1>2, <2>1, <2>2 DEF Round
<1>3. ASSUME pc' # "send"
      PROVE  Round'
  BY <1>3 DEF Round
<1>4. CASE UNCHANGED vars
  BY <1>2, <1>4 DEF vars, queues, control
<1>5. CASE Polling
  <2>1. pc' # "send"
    BY <1>5 DEF Polling, NextMsgNow, PollNothing, PollAccept, PollAgain, PollRecv, Polled, Accept,
          control
  <2> QED
    BY <1>3, <2>1
<1>6. CASE WaitIdle \/ NetIdle
  <2>1. Idling /\ UNCHANGED <<send_qs, stream>>
    BY <1>6 DEF WaitIdle, NetIdle, Idling, queues
  <2>2. /\ \A i, j \in DOMAIN keys' : keys'[i] = keys'[j] => i = j
        /\ \A i \in DOMAIN keys' : keys'[i] \in ReadyPeers
    BY <1>1, <2>1, IdlingOf
  <2>3. \A n \in Range(keys') : ReadyAt(n)
    BY <2>2 DEF Range, ReadyPeers, ReadyAt
  <2>4. \A n \in Range(keys') : ReadyAt(n)'
    BY <2>1, <2>3 DEF ReadyAt, Ready, Foremost, Unfinished, Finished
  <2> QED
    BY <2>2, <2>4 DEF Round
<1>7. CASE Identified \/ Unidentified \/ WaitError
  <2>1. pc' # "send"
    BY <1>7 DEF Identified, Unidentified, WaitError
  <2> QED
    BY <1>3, <2>1
<1>8. CASE Sending
  <2>1. pc' # "send"
    BY <1>8 DEF Sending, Send, ConnectFails, ConnectTo, SendIdentity, SendDirect, SendNow, SendLater,
          SendStream, Enqueue
  <2> QED
    BY <1>3, <2>1
<1>9. CASE NextMsgSame \/ (\E n \in Peer : NextMsgFrom(n)) \/ WaitReturns \/ MsgSource \/ InitServer
           \/ ShutdownServer \/ \E n \in Peer : NetSuspend(n) \/ NetResume(n) \/ SetNodeAddr(n)
  <2>1. pc' # "send"
    BY <1>9 DEF NextMsgSame, NextMsgFrom, WaitOn, WaitReturns, MsgSource, InitServer, ShutdownServer, NoTables,
          NetSuspend, NetResume, SetNodeAddr, Idle, control
  <2> QED
    BY <1>3, <2>1
<1>10. CASE Others
  <2>1. CASE (\E n \in Peer : PeerConnects(n)) \/ \E fd \in FD : PeerActs(fd)
    <3>1. UNCHANGED <<send_qs, stream, keys, pc>>
      BY <2>1 DEF PeerConnects, PeerActs, PeerSends, PeerCloses, PeerResets, Env, queues, control
    <3> QED
      BY <1>2, <3>1
  <2>2. ASSUME NEW c \in Call, StreamPut(c) \/ StreamClose(c)
        PROVE  Round'
    <3>1. pc' \in {pc, "undefined"} /\ keys' = keys
      BY <1>1, <2>2, StreamWriteOf
    <3>2. \A n \in Peer : ReadyAt(n) => ReadyAt(n)'
      BY <1>1, <2>2, WritingReady
    <3>3. \A n \in Range(keys) : n \in Peer
      BY <1>1 DEF TypeOK, Range
    <3> QED
      BY <1>1, <3>1, <3>2, <3>3 DEF Round
  <2> QED
    BY <1>10, <2>1, <2>2 DEF Others, PeerActs
<1> QED
  BY <1>4, <1>5, <1>6, <1>7, <1>8, <1>9, <1>10, RoundSendReady DEF Next, Serving, Application
-----------------------------------------------------------------------------
(***************************************************************************)
(* The invariant                                                           *)
(***************************************************************************)
LEMMA InitIInv ==
    ASSUME NetAssumption, Init
    PROVE  IInv
<1>1. TypeOK
  <2>1. pollfds \in Seq({server_fd} \cup FD \cup {-fd : fd \in FD})
    BY DEF Init
  <2>2. 0 \in 0 .. MaxCalls /\ 0 \in Nat
    BY Constants
  <2> QED
    BY <2>1, <2>2 DEF Init, TypeOK
<1>2. Addressed /\ Unlisted
  BY Constants DEF Init, Addressed, Unlisted, Accepting
<1>3. Places /\ Round
  BY DEF Init, Places, Round
<1>4. Sorted /\ Apart /\ Unqueued /\ Passed
  BY DEF Init, Sorted, Apart, Unqueued, Passed, PassedAt
<1> QED
  BY <1>1, <1>2, <1>3, <1>4 DEF IInv

LEMMA NextIInv ==
    ASSUME NetAssumption, IInv, [Next]_vars
    PROVE  IInv'
<1>1. TypeOK'
  BY TypesKept
<1>2. Addressed' /\ Unlisted'
  BY <1>1, NamedKept DEF Named
<1>3. Waits' /\ Room' /\ Called'
  BY WaitsKept, RoomKept, CalledKept
<1>4. Places'
  BY <1>3, PlacesParts, PTL
<1>5. Sorted' /\ Apart' /\ Unqueued' /\ Passed'
  BY <1>1, OrderedKept DEF Ordered
<1>6. Round'
  BY <1>1, RoundKept
<1> QED
  BY <1>1, <1>2, <1>4, <1>5, <1>6 DEF IInv

\* The invariant holds in every reachable state.
THEOREM Invariant == Spec => []IInv
<1>1. Init => IInv
  BY NetAssumption, InitIInv
<1>2. IInv /\ [Next]_vars => IInv'
  BY NetAssumption, NextIInv
<1> QED
  BY <1>1, <1>2, PTL DEF Spec

\* Whatever peers and writers do, the variables keep their types: in particular a round
\* of send_readies has a peer, and a call that goes on has its destination.
THEOREM Types == Spec => []TypeOK
<1>1. IInv => TypeOK
  BY DEF IInv
<1> QED
  BY <1>1, Invariant, PTL

\* For any number of peers and descriptors, connections and nids lead to the socket of
\* the right peer, however descriptors are closed and handed out again.
THEOREM TablesRight == Spec => []Addressed
<1>1. IInv => Addressed
  BY DEF IInv
<1> QED
  BY <1>1, Invariant, PTL
-----------------------------------------------------------------------------
(***************************************************************************)
(* What is sent                                                            *)
(***************************************************************************)
\* Messages leave in send_readies and in send_msg's shortcut only.
LEMMA WireOf ==
    ASSUME NetAssumption, IInv, [Next]_vars
    PROVE  wire' = wire \/ SendDirect \/ \E n \in Peer : SendReady(n)
<1>1. TypeOK
  BY DEF IInv
<1>2. CASE UNCHANGED vars
  BY <1>2 DEF vars, history
<1>3. CASE Polling
  BY <1>3 DEF Polling, NextMsgNow, PollNothing, PollAccept, PollAgain, PollRecv, Polled, Accept,
        Main, history
<1>4. CASE Serving
  BY <1>4 DEF Serving, WaitIdle, NetIdle, Idling, Identified, Unidentified, WaitError, Waiting, Main,
        history
<1>5. CASE Sending
  BY <1>5 DEF Sending, Send, ConnectFails, ConnectTo, SendIdentity, SendNow, SendLater, SendStream,
        Main, history
<1>6. CASE NextMsgSame \/ (\E n \in Peer : NextMsgFrom(n)) \/ WaitReturns \/ MsgSource \/ InitServer
           \/ ShutdownServer \/ \E n \in Peer : NetSuspend(n) \/ NetResume(n) \/ SetNodeAddr(n)
  BY <1>6 DEF NextMsgSame, NextMsgFrom, WaitReturns, Waiting, MsgSource, InitServer, ShutdownServer, NoTables,
        NetSuspend, NetResume, SetNodeAddr, Main, history
<1>7. CASE Others
  BY <1>7 DEF Others, PeerConnects, PeerSends, PeerCloses, PeerResets, StreamPut, StreamClose,
        StreamWrite, Env, history
<1> QED
  BY <1>2, <1>3, <1>4, <1>5, <1>6, <1>7 DEF Next, Application

\* What leaves for n is the first unfinished entry of its queue, or a new call when
\* there is none.
Leaves(n) ==
    \/ wire'[n] = wire[n]
    \/ /\ send_qs[n] # NULL /\ Unfinished(send_qs[n]) # {}
       /\ wire'[n] = Foremost(send_qs[n])
    \/ send_qs[n] # NULL /\ Unfinished(send_qs[n]) = {} /\ wire'[n] = calls

LEMMA LeavesOf ==
    ASSUME NetAssumption, IInv, [Next]_vars, NEW n \in Peer
    PROVE  Leaves(n)
<1>1. TypeOK /\ Round /\ Called
  BY PlacesParts DEF IInv
<1>2. ASSUME NEW m \in Peer, SendReady(m)
      PROVE  Leaves(n)
  <2>1. m \in Range(keys) /\ pc = "send"
    BY <1>1, <1>2 DEF SendReady, TypeOK, Range
  <2>2. send_qs[m] # NULL /\ Ready(send_qs[m]) /\ Unfinished(send_qs[m]) # {}
    BY <1>1, <2>1 DEF Round, ReadyAt, Ready
  <2>3. Got(m) = Foremost(send_qs[m]) /\ Got(m) \in 1 .. calls
    BY <1>1, <2>2, UnfinishedOf DEF Got
  <2>4. PICK next : SendNow(m, Got(m), next)
    BY <1>2 DEF SendReady
  <2>5. /\ \A o \in Peer : o # m => wire'[o] = wire[o]
        /\ wire'[m] = wire[m] \/ wire'[m] = Got(m)
    BY <1>1, <2>3, <2>4, SendNowOf
  <2> QED
    BY <2>2, <2>3, <2>5 DEF Leaves
<1>3. CASE SendDirect
  <2>1. /\ dest.to \in Peer /\ calls \in 1 .. calls /\ send_qs[dest.to] # NULL
        /\ Empty(send_qs[dest.to]) /\ SendNow(dest.to, calls, "idle")
    BY <1>1, <1>3, Values DEF SendDirect, Put, TypeOK, Called, Call
  <2>2. /\ \A o \in Peer : o # dest.to => wire'[o] = wire[o]
        /\ wire'[dest.to] = wire[dest.to] \/ wire'[dest.to] = calls
    BY <1>1, <2>1, SendNowOf
  <2> QED
    BY <2>1, <2>2 DEF Leaves, Empty
<1> QED
  BY <1>2, <1>3, WireOf DEF Leaves

\* What goes out to a peer goes out in the order of the calls, for any peers, calls and
\* writers.
THEOREM SentInOrder == Spec => InOrder
<1>1. ASSUME IInv, [Next]_vars, NEW n \in Peer
      PROVE  wire'[n] >= wire[n]
  <2>1. TypeOK /\ Passed /\ NetAssumption
    BY <1>1, NetAssumption DEF IInv
  <2>2. wire[n] \in 0 .. calls /\ calls \in Nat
    BY <2>1 DEF TypeOK
  <2>3. ASSUME send_qs[n] # NULL, Unfinished(send_qs[n]) # {}
        PROVE  wire[n] <= Foremost(send_qs[n]) /\ Foremost(send_qs[n]) \in Nat
    <3>1. PICK at \in DOMAIN send_qs[n] : /\ Foremost(send_qs[n]) = send_qs[n][at]
                                          /\ ~Finished(send_qs[n][at])
                                          /\ send_qs[n][at] \in 1 .. calls
      BY <2>1, <2>3, UnfinishedOf
    <3> QED
      BY <2>1, <2>2, <2>3, <3>1 DEF Passed, PassedAt, Unfinished
  <2> QED
    BY <1>1, <2>1, <2>2, <2>3, LeavesOf DEF Leaves
<1>2. IInv /\ [Next]_vars => [\A n \in Peer : wire'[n] >= wire[n]]_vars
  BY <1>1
<1> QED
  BY <1>2, Invariant, PTL DEF Spec, InOrder

\* A stream its writer has not closed holds back every later message to its peer.
THEOREM OpenStreamsHold == Spec => StreamsHold
<1> DEFINE Held == \A n \in Peer, c \in Call :
                      /\ send_qs[n] # NULL /\ c \in Range(send_qs[n])
                      /\ stream[c] # NULL /\ stream[c].open
                      => wire'[n] <= c
<1>1. ASSUME IInv, [Next]_vars, NEW n \in Peer, NEW c \in Call,
             send_qs[n] # NULL, c \in Range(send_qs[n]), stream[c] # NULL, stream[c].open
      PROVE  wire'[n] <= c
  <2>1. TypeOK /\ Sorted /\ Passed /\ NetAssumption
    BY <1>1, NetAssumption DEF IInv
  <2>2. PICK i \in DOMAIN send_qs[n] : send_qs[n][i] = c
    BY <1>1 DEF Range
  <2>3. i \in Unfinished(send_qs[n])
    BY <1>1, <2>2 DEF Unfinished, Finished
  <2>4. wire[n] <= c
    BY <1>1, <2>1, <2>2, <2>3 DEF Passed, PassedAt
  <2>5. Foremost(send_qs[n]) <= c
    <3>1. PICK at \in DOMAIN send_qs[n] : /\ Foremost(send_qs[n]) = send_qs[n][at]
                                          /\ at <= i
      BY <1>1, <2>1, <2>3, UnfinishedOf
    <3>2. at \in Nat /\ i \in Nat /\ send_qs[n][at] \in Nat /\ c \in Nat
      BY <1>1, <2>1, <2>2, <3>1, QueueOf DEF QueueIs
    <3>3. at < i => send_qs[n][at] < send_qs[n][i]
      BY <1>1, <2>1, <2>2, <3>1 DEF Sorted, Increasing
    <3> QED
      BY <2>2, <3>1, <3>2, <3>3
  <2> QED
    BY <1>1, <2>1, <2>3, <2>4, <2>5, LeavesOf DEF Leaves
<1>2. IInv /\ [Next]_vars => [Held]_vars
  BY <1>1
<1> QED
  BY <1>2, Invariant, PTL DEF Spec, StreamsHold
-----------------------------------------------------------------------------
(***************************************************************************)
(* What is polled                                                          *)
(***************************************************************************)
Followed == NotForgotten /\ Elsewhere

\* A step after which whatever nids lists was listed, and polled if it was, and
\* connections leads to it if it did.
NoneLost ==
    /\ suspended' = suspended
    /\ \A fd \in FD : nids'[fd] \in Peer =>
          /\ nids'[fd] = nids[fd]
          /\ fd \in Range(pollfds) => fd \in Range(pollfds)'
          /\ connections'[nids[fd]] = connections[nids[fd]] \/ connections[nids[fd]] # fd

LEMMA NoneLostKeeps ==
    ASSUME Followed, NoneLost
    PROVE  Followed'
<1>1. ASSUME NEW fd \in FD, nids'[fd] \in Peer \ suspended'
      PROVE  fd \in Range(pollfds)'
  BY <1>1 DEF Followed, NotForgotten, NoneLost
<1>2. ASSUME NEW fd \in FD, nids'[fd] \in Peer, connections'[nids'[fd]] # fd
      PROVE  fd \in Range(pollfds)'
  BY <1>2 DEF Followed, Elsewhere, NoneLost
<1> QED
  BY <1>1, <1>2 DEF Followed, NotForgotten, Elsewhere

\* An end of the stream: the peer has no other connection.
LEMMA HangupFollowed ==
    ASSUME NetAssumption, TypeOK, OneEach, NEW fd \in FD, Hangup(fd), suspended' = suspended,
           \A g \in FD : g # fd /\ g \in Range(pollfds) => g \in Range(pollfds)'
    PROVE  NoneLost
<1>1. /\ \A g \in FD : g # fd => nids'[g] = nids[g]
      /\ nids'[fd] = NULL /\ NULL \notin Peer
      /\ \A m \in Peer : m # nids[fd] => connections'[m] = connections[m]
  BY HangupOf, Constants
<1>2. ASSUME NEW g \in FD, nids'[g] \in Peer
      PROVE  g # fd /\ nids'[g] = nids[g] /\ nids[g] # nids[fd]
  BY <1>1, <1>2 DEF OneEach
<1> QED
  BY <1>1, <1>2 DEF NoneLost

\* A send that fails forgets what connections leads to: any other is polled.
LEMMA SendNowFollowed ==
    ASSUME NetAssumption, TypeOK, NEW n \in Peer, NEW c \in (1 .. calls) \cup {NULL}, NEW next,
           SendNow(n, c, next), suspended' = suspended, pollfds' = pollfds
    PROVE  NoneLost
<1>1. CASE UNCHANGED <<nids, connections>>
  BY <1>1 DEF NoneLost, Range
<1>2. CASE connections[n] \in FD /\ Forget(connections[n], n)
  <2> DEFINE fd == connections[n]
  <2>1. /\ nids'[fd] = NULL /\ \A g \in FD : g # fd => nids'[g] = nids[g]
        /\ \A m \in Peer : m # n => connections'[m] = connections[m]
        /\ NULL \notin Peer
    BY <1>2, ForgetOf, Constants
  <2> QED
    BY <2>1 DEF NoneLost, Range
<1> QED
  BY <1>1, <1>2, SendNowOf

\* A new connection is polled; an older one of the peer that connections does not lead
\* to is, too.
LEMMA RegisterFollowed ==
    ASSUME NetAssumption, TypeOK, NEW fd \in FD, NEW n \in Peer, Register(fd, n), Followed,
           suspended' = suspended
    PROVE  Followed'
<1>1. /\ \A g \in FD : g # fd => nids'[g] = nids[g]
      /\ \A m \in Peer : m # n => connections'[m] = connections[m]
      /\ connections'[n] = IF connections[n] = NULL THEN fd ELSE connections[n]
      /\ Range(pollfds') = Range(pollfds) \cup {fd}
      /\ NULL \notin FD
  BY RegisterOf, Constants
<1>2. Range(pollfds)' = Range(pollfds) \cup {fd}
  BY <1>1 DEF Range
<1>3. ASSUME NEW g \in FD, nids'[g] \in Peer \ suspended'
      PROVE  g \in Range(pollfds)'
  BY <1>1, <1>2, <1>3 DEF Followed, NotForgotten
<1>4. ASSUME NEW g \in FD, nids'[g] \in Peer, connections'[nids'[g]] # g
      PROVE  g \in Range(pollfds)'
  BY <1>1, <1>2, <1>4 DEF Followed, Elsewhere
<1> QED
  BY <1>3, <1>4 DEF Followed, NotForgotten, Elsewhere

\* net_suspend negates the entry of what connections leads to, which is the suspended
\* peer's and nobody else's.
LEMMA SuspendFollowed ==
    ASSUME NetAssumption, TypeOK, Addressed, NEW n \in Peer, NetSuspend(n), Followed
    PROVE  Followed'
<1> DEFINE fd == connections[n]
           is == Where(fd)
<1>1. /\ fd \in FD /\ suspended' = suspended \cup {n} /\ UNCHANGED <<nids, connections>>
      /\ nids[fd] \in Peer => nids[fd] = n
      /\ pollfds \in Seq(Entry)
      /\ DOMAIN pollfds = 1 .. Len(pollfds) /\ Len(pollfds) \in Nat
  <2>1. /\ fd \in FD /\ suspended' = suspended \cup {n} /\ UNCHANGED <<nids, connections>>
        /\ pollfds \in Seq(Entry)
    BY DEF NetSuspend, TypeOK, Entry
  <2>2. nids[fd] \in Peer => nids[fd] = n
    BY <2>1 DEF NetSuspend, Addressed
  <2> QED
    BY <2>1, <2>2
<1>2. pollfds' = pollfds \/ \E i \in DOMAIN pollfds : pollfds[i] = fd /\ pollfds' = Set(pollfds, i, -fd)
  <2>1. CASE is = {}
    BY <2>1 DEF NetSuspend
  <2>2. CASE is # {}
    <3>1. is \in SUBSET Nat
      BY <1>1 DEF Where
    <3>2. Lowest(is) \in is
      BY <2>2, <3>1, LowestOf
    <3>3. Lowest(is) \in DOMAIN pollfds /\ pollfds[Lowest(is)] = fd
      BY <3>2 DEF Where
    <3>4. pollfds' = Set(pollfds, Lowest(is), -fd)
      BY <2>2 DEF NetSuspend
    <3> QED
      BY <3>3, <3>4
  <2> QED
    BY <2>1, <2>2
<1>3. \A g \in FD : g # fd /\ g \in Range(pollfds) => g \in Range(pollfds)'
  <2>1. \A i \in DOMAIN pollfds : pollfds[i] # fd => i \in DOMAIN pollfds' /\ pollfds'[i] = pollfds[i]
    BY <1>1, <1>2 DEF Set
  <2> QED
    BY <2>1 DEF Range
<1>4. ASSUME NEW g \in FD, nids'[g] \in Peer \ suspended'
      PROVE  g \in Range(pollfds)'
  BY <1>1, <1>3, <1>4 DEF Followed, NotForgotten
<1>5. ASSUME NEW g \in FD, nids'[g] \in Peer, connections'[nids'[g]] # g
      PROVE  g \in Range(pollfds)'
  BY <1>1, <1>3, <1>5 DEF Followed, Elsewhere
<1> QED
  BY <1>4, <1>5 DEF Followed, NotForgotten, Elsewhere

\* net_resume appends what connections leads to; what it does not lead to is polled.
LEMMA ResumeFollowed ==
    ASSUME NetAssumption, TypeOK, NEW n \in Peer, NetResume(n), Followed
    PROVE  Followed'
<1>1. /\ suspended' = suspended \ {n} /\ UNCHANGED <<nids, connections>>
      /\ pollfds \in Seq(Entry) /\ connections[n] \in FD \cup {NULL}
      /\ pollfds' = IF connections[n] = NULL THEN pollfds ELSE Append(pollfds, connections[n])
      /\ NULL \notin FD
  BY Constants DEF NetResume, TypeOK, Entry
<1>2. /\ \A e \in Range(pollfds) : e \in Range(pollfds)'
      /\ connections[n] # NULL => connections[n] \in Range(pollfds)'
  <2>1. CASE connections[n] = NULL
    BY <1>1, <2>1 DEF Range
  <2>2. CASE connections[n] # NULL
    <3>1. connections[n] \in Entry /\ pollfds' = Append(pollfds, connections[n])
      BY <1>1, <2>2 DEF Entry
    <3>2. Range(pollfds') = Range(pollfds) \cup {connections[n]}
      BY <1>1, <3>1, RangeAppend
    <3> QED
      BY <3>2 DEF Range
  <2> QED
    BY <2>1, <2>2
<1>3. ASSUME NEW g \in FD, nids'[g] \in Peer \ suspended'
      PROVE  g \in Range(pollfds)'
  <2>1. CASE nids[g] = n
    BY <1>1, <1>2, <1>3, <2>1 DEF Followed, Elsewhere
  <2>2. CASE nids[g] # n
    BY <1>1, <1>2, <1>3, <2>2 DEF Followed, NotForgotten
  <2> QED
    BY <2>1, <2>2
<1>4. ASSUME NEW g \in FD, nids'[g] \in Peer, connections'[nids'[g]] # g
      PROVE  g \in Range(pollfds)'
  BY <1>1, <1>2, <1>4 DEF Followed, Elsewhere
<1> QED
  BY <1>3, <1>4 DEF Followed, NotForgotten, Elsewhere

\* net_idle prunes the entries that are not polled.
LEMMA IdlingFollowed ==
    ASSUME NetAssumption, TypeOK, Idling
    PROVE  NoneLost
<1>1. /\ Range(pollfds') = {e \in Range(pollfds) : e > 0}
      /\ UNCHANGED <<nids, connections, suspended>>
  BY IdlingOf DEF Idling, Main, history
<1>2. \A fd \in FD : fd \in Range(pollfds) => fd \in Range(pollfds')
  BY <1>1, Constants DEF server_fd
<1> QED
  BY <1>1, <1>2 DEF NoneLost, Range

LEMMA FollowedKept ==
    ASSUME NetAssumption, IInv, OneEach, Followed, [Next]_vars
    PROVE  Followed'
<1>1. TypeOK /\ Addressed /\ Unlisted /\ Places /\ Round /\ Called
  BY PlacesParts DEF IInv
<1>2. ASSUME UNCHANGED <<pollfds, nids, connections, suspended>>
      PROVE  Followed'
  BY <1>2, NoneLostKeeps DEF NoneLost, Range
<1>3. CASE UNCHANGED vars
  BY <1>2, <1>3 DEF vars, tables, history
<1>4. CASE NextMsgNow \/ PollNothing \/ PollAccept \/ PollAgain \/ Accept
  <2>1. UNCHANGED <<pollfds, nids, connections, suspended>>
    BY <1>4 DEF NextMsgNow, PollNothing, PollAccept, PollAgain, Polled, Accept, Main, tables, history
  <2> QED
    BY <1>2, <2>1
<1>5. CASE PollRecv
  <2> DEFINE fd == Found
  <2>1. /\ fd \in Entry /\ suspended' = suspended
        /\ start' + 1 \in DOMAIN pollfds /\ pollfds \in Seq(Entry)
    BY <1>1, <1>5, PolledOf DEF PollRecv, history, TypeOK, Entry
  <2>2. fd \in FD
    BY <1>5, <2>1, InOf DEF PollRecv
  <2>3. CASE UNCHANGED tables
    BY <1>2, <2>1, <2>3 DEF tables
  <2>4. CASE Hangup(fd) /\ pollfds' = Set(pollfds, start' + 1, HungUp(fd))
    <3>1. PICK k \in DOMAIN pollfds : k = start' + 1
      BY <2>1
    <3>2. pollfds[k] = fd /\ pollfds' = [pollfds EXCEPT ![k] = HungUp(fd)]
      BY <2>4, <3>1 DEF Set, Found
    <3>3. \A i \in DOMAIN pollfds : i # k => i \in DOMAIN pollfds' /\ pollfds'[i] = pollfds[i]
      BY <3>2
    <3>4. \A g \in FD : g # fd /\ g \in Range(pollfds) => g \in Range(pollfds)'
      BY <3>2, <3>3 DEF Range
    <3>5. NoneLost
      BY <1>1, <2>1, <2>2, <2>4, <3>4, HangupFollowed
    <3> QED
      BY <3>5, NoneLostKeeps
  <2> QED
    BY <1>5, <2>3, <2>4 DEF PollRecv
<1>6. CASE WaitIdle \/ NetIdle
  BY <1>1, <1>6, IdlingFollowed, NoneLostKeeps DEF WaitIdle, NetIdle
<1>7. CASE Identified
  <2>1. /\ wait.fd \in FD /\ sock[wait.fd].peer \in Peer /\ Register(wait.fd, sock[wait.fd].peer)
        /\ suspended' = suspended
    BY <1>1, <1>7, Values DEF Identified, Waiting, Main, history, TypeOK, Unlisted, Accepting
  <2> QED
    BY <1>1, <2>1, RegisterFollowed
<1>8. CASE Unidentified \/ WaitReturns
  <2>1. /\ wait.fd \in FD /\ UNCHANGED <<pollfds, suspended>>
        /\ Hangup(wait.fd) \/ UNCHANGED <<nids, connections>>
    BY <1>1, <1>8, Values DEF Unidentified, WaitReturns, Waiting, Main, history, TypeOK
  <2>2. CASE Hangup(wait.fd)
    <3>1. NoneLost
      BY <1>1, <2>1, <2>2, HangupFollowed DEF Range
    <3> QED
      BY <3>1, NoneLostKeeps
  <2>3. CASE UNCHANGED <<nids, connections>>
    BY <1>2, <2>1, <2>3
  <2> QED
    BY <2>1, <2>2, <2>3
<1>9. CASE WaitError \/ ConnectFails \/ SendLater \/ SendStream \/ NextMsgSame \/ Others
           \/ \E n \in Peer : Send(n, "send_msg") \/ Send(n, "send_stream") \/ NextMsgFrom(n)
                              \/ SetNodeAddr(n)
  <2>1. UNCHANGED <<pollfds, nids, connections, suspended>>
    BY <1>9 DEF WaitError, Waiting, ConnectFails, SendLater, SendStream, NextMsgSame, Send,
          NextMsgFrom, SetNodeAddr, Others, PeerConnects, PeerSends, PeerCloses, PeerResets,
          StreamPut, StreamClose, StreamWrite, Env, Main, tables, history
  <2> QED
    BY <1>2, <2>1
<1>10. ASSUME NEW n \in Peer, SendReady(n)
       PROVE  Followed'
  <2>1. n \in Range(keys) /\ pc = "send"
    BY <1>1, <1>10 DEF SendReady, TypeOK, Range
  <2>2. send_qs[n] # NULL /\ Unfinished(send_qs[n]) # {}
    BY <1>1, <2>1 DEF Round, ReadyAt, Ready
  <2>3. Got(n) \in 1 .. calls
    BY <1>1, <2>2, UnfinishedOf DEF Got
  <2>4. PICK next : SendNow(n, Got(n), next)
    BY <1>10 DEF SendReady
  <2>5. UNCHANGED <<pollfds, suspended>>
    BY <1>10 DEF SendReady
  <2>6. NoneLost
    BY <1>1, <2>3, <2>4, <2>5, SendNowFollowed
  <2> QED
    BY <2>6, NoneLostKeeps
<1>11. CASE SendIdentity \/ SendDirect
  <2>1. dest.to \in Peer /\ calls \in 1 .. calls
    BY <1>1, <1>11, Values DEF SendIdentity, SendDirect, Put, TypeOK, Places, Call
  <2>2. PICK c \in (1 .. calls) \cup {NULL}, next \in {"put", "idle"} : SendNow(dest.to, c, next)
    BY <1>11, <2>1 DEF SendIdentity, SendDirect
  <2>3. UNCHANGED <<pollfds, suspended>>
    BY <1>11 DEF SendIdentity, SendDirect
  <2>4. NoneLost
    BY <1>1, <2>1, <2>2, <2>3, SendNowFollowed
  <2> QED
    BY <2>4, NoneLostKeeps
<1>12. CASE ConnectTo
  <2>1. FreeFds # {} /\ dest.to \in Peer
    BY <1>1, <1>12, FdLeftOf, Values DEF ConnectTo, TypeOK
  <2>2. NewFd \in FD
    BY <2>1, NewFdOf
  <2>3. Register(NewFd, dest.to) /\ suspended' = suspended
    BY <1>12 DEF ConnectTo, Main, history
  <2> QED
    BY <1>1, <2>1, <2>2, <2>3, RegisterFollowed
<1>13. CASE MsgSource
  <2>1. /\ UNCHANGED <<pollfds, connections, suspended>>
        /\ nids' = Set(nids, last_fd, Nobody) /\ last_fd \in FD
        /\ nids \in [FD -> Peer \cup {Nobody, NULL}] /\ Nobody \notin Peer
    BY <1>1, <1>13, Constants DEF MsgSource, Main, history, TypeOK
  <2>2. \A fd \in FD : nids'[fd] \in Peer => nids'[fd] = nids[fd]
    BY <2>1 DEF Set
  <2> QED
    BY <2>1, <2>2, NoneLostKeeps DEF NoneLost, Range
<1>14. CASE \E n \in Peer : NetSuspend(n) \/ NetResume(n)
  BY <1>1, <1>14, SuspendFollowed, ResumeFollowed
<1>15. CASE ShutdownServer
  <2>1. \A fd \in FD : nids'[fd] \notin Peer
    BY <1>15, Constants DEF ShutdownServer, NoTables
  <2> QED
    BY <2>1 DEF Followed, NotForgotten, Elsewhere
<1>16. CASE InitServer
  <2>1. /\ UNCHANGED <<nids, connections, suspended>>
        /\ pollfds' = Append(pollfds, server_fd) /\ pollfds \in Seq(Entry)
    BY <1>1, <1>16 DEF InitServer, Main, history, TypeOK, Entry
  <2>2. Range(pollfds') = Range(pollfds) \cup {server_fd}
    <3>1. server_fd \in Entry
      BY DEF Entry
    <3> QED
      BY <2>1, <3>1, RangeAppend
  <2>3. NoneLost
    BY <2>1, <2>2 DEF NoneLost, Range
  <2> QED
    BY <2>3, NoneLostKeeps
<1> QED
  BY <1>3, <1>4, <1>5, <1>6, <1>7, <1>8, <1>9, <1>10, <1>11, <1>12, <1>13, <1>14, <1>15, <1>16
  DEF Next, Polling, Serving, Application, Sending

\* While no peer is listed at two descriptors, a listed connection that is not suspended
\* is polled, for any number of peers and descriptors.
THEOREM ListedArePolled == Spec /\ []OneEach => []NotForgotten
<1>1. Init => Followed
  <2>1. Init => \A fd \in FD : nids[fd] \notin Peer
    BY NetAssumption, Constants DEF Init
  <2> QED
    BY <2>1 DEF Followed, NotForgotten, Elsewhere
<1>2. IInv /\ OneEach /\ Followed /\ [Next]_vars => Followed'
  BY NetAssumption, FollowedKept
<1>3. Followed => NotForgotten
  BY DEF Followed
<1> QED
  BY <1>1, <1>2, <1>3, Invariant, PTL DEF Spec
-----------------------------------------------------------------------------
(***************************************************************************)
(* Whose messages are received                                             *)
(***************************************************************************)
LEMMA EndOf ==
    ASSUME NetAssumption, TypeOK, NEW fd \in FD, sock[fd] # NULL, Received(fd) = "end"
    PROVE  sock[fd].eof /\ sock[fd].in = 0
  BY DEF Received

LEMMA SourcedParts ==
    Sourced <=> /\ \A fd \in FD : sock[fd] = NULL => nids[fd] = NULL \/ MadeUp(fd)
                /\ \A fd \in FD : sock[fd] # NULL =>
                      \/ nids[fd] = sock[fd].peer
                      \/ MadeUp(fd)
                      \/ sock[fd].eof /\ sock[fd].in = 0
                      \/ wait # NULL /\ wait.by = "accept" /\ wait.fd = fd
                /\ wait # NULL /\ wait.by = "accept" => nids[wait.fd] = NULL \/ MadeUp(wait.fd)
  BY DEF Sourced, Heeded, Accepting

MakesUp(fd) == "msg_source" \in Uses /\ nids'[fd] = Nobody

\* Nothing changes for fd: it stays what it was, or a closed and forgotten one, or a
\* socket of the same peer, not more to receive from it if it was at its end.
SameSource(fd) ==
    \/ sock'[fd] = sock[fd] /\ nids'[fd] = nids[fd]
    \/ sock'[fd] = NULL /\ (nids'[fd] = NULL \/ MakesUp(fd))
    \/ sock'[fd] # NULL /\ MakesUp(fd)
    \/ /\ sock[fd] # NULL /\ sock'[fd] # NULL /\ nids'[fd] = nids[fd]
       /\ sock'[fd].peer = sock[fd].peer
       /\ Heeded(fd) => sock'[fd].eof /\ sock'[fd].in = 0
    \/ sock'[fd] # NULL /\ nids'[fd] = sock'[fd].peer
    \/ sock'[fd] # NULL /\ sock'[fd].eof /\ sock'[fd].in = 0

LEMMA SameSourceKeeps ==
    ASSUME NetAssumption, TypeOK, Sourced, \A fd \in FD : SameSource(fd), wait' = wait,
           \A fd \in FD : nids'[fd] \in {nids[fd], NULL} \/ MakesUp(fd)
    PROVE  Sourced'
<1>1. ASSUME NEW fd \in FD, sock'[fd] = NULL
      PROVE  nids'[fd] = NULL \/ MakesUp(fd)
  BY <1>1 DEF SameSource, Sourced, MadeUp, MakesUp
<1>2. ASSUME NEW fd \in FD, sock'[fd] # NULL
      PROVE  \/ nids'[fd] = sock'[fd].peer
             \/ MakesUp(fd)
             \/ sock'[fd].eof /\ sock'[fd].in = 0
             \/ wait # NULL /\ wait.by = "accept" /\ wait.fd = fd
  BY <1>2 DEF SameSource, Sourced, Heeded, Accepting, MadeUp, MakesUp
<1>3. ASSUME wait # NULL, wait.by = "accept"
      PROVE  nids'[wait.fd] = NULL \/ MakesUp(wait.fd)
  <2>1. wait.fd \in FD /\ (nids[wait.fd] = NULL \/ MadeUp(wait.fd))
    BY <1>3, Values DEF TypeOK, Sourced, Accepting
  <2> QED
    BY <2>1 DEF MadeUp, MakesUp
<1> QED
  BY <1>1, <1>2, <1>3 DEF Sourced, Heeded, Accepting, MadeUp, MakesUp

LEMMA SendNowSourced ==
    ASSUME NetAssumption, TypeOK, Sourced, NEW n \in Peer, NEW c \in (1 .. calls) \cup {NULL},
           NEW next, SendNow(n, c, next), wait' = wait
    PROVE  Sourced'
<1>1. CASE UNCHANGED <<sock, nids, connections>>
  BY <1>1, SameSourceKeeps DEF SameSource
<1>2. CASE /\ connections[n] \in FD /\ sock' = Set(sock, connections[n], NULL)
           /\ Forget(connections[n], n)
  <2> DEFINE fd == connections[n]
  <2>1. /\ nids'[fd] = NULL /\ \A g \in FD : g # fd => nids'[g] = nids[g]
    BY <1>2, ForgetOf
  <2>2. sock'[fd] = NULL /\ \A g \in FD : g # fd => sock'[g] = sock[g]
    BY <1>2 DEF TypeOK, Set
  <2>3. \A g \in FD : SameSource(g)
    BY <2>1, <2>2 DEF SameSource
  <2>4. \A g \in FD : nids'[g] \in {nids[g], NULL}
    BY <2>1
  <2> QED
    BY <2>3, <2>4, SameSourceKeeps
<1> QED
  BY <1>1, <1>2, SendNowOf

\* A message is taken from a socket that had one.
LEMMA TakenSource ==
    ASSUME NetAssumption, TypeOK, NEW fd \in FD, sock[fd] # NULL, Received(fd) = "message",
           sock' = Taken(fd), UNCHANGED <<nids, wait>>, Sourced
    PROVE  Sourced'
<1>1. /\ sock'[fd] # NULL /\ sock'[fd].peer = sock[fd].peer /\ ~Heeded(fd)
      /\ \A g \in FD : g # fd => sock'[g] = sock[g]
  <2>1. /\ sock'[fd] # NULL /\ sock'[fd].peer = sock[fd].peer /\ sock[fd].in > 0
        /\ \A g \in FD : g # fd => sock'[g] = sock[g]
    BY TakenOf
  <2> QED
    BY <2>1 DEF Heeded
<1>2. \A g \in FD : SameSource(g)
  BY <1>1 DEF SameSource
<1> QED
  BY <1>2, SameSourceKeeps

\* The tables forget a connection whose peer has closed it and has nothing more.
LEMMA EndSource ==
    ASSUME NetAssumption, TypeOK, NEW fd \in FD, sock[fd] # NULL, Received(fd) = "end",
           Hangup(fd), UNCHANGED <<sock, wait>>, Sourced
    PROVE  Sourced'
<1>1. /\ nids'[fd] = NULL /\ \A g \in FD : g # fd => nids'[g] = nids[g]
  BY HangupOf
<1>2. sock[fd].eof /\ sock[fd].in = 0
  BY EndOf
<1>3. \A g \in FD : SameSource(g)
  BY <1>1, <1>2 DEF SameSource
<1>4. \A g \in FD : nids'[g] \in {nids[g], NULL}
  BY <1>1
<1> QED
  BY <1>3, <1>4, SameSourceKeeps

LEMMA SourcedKept ==
    ASSUME NetAssumption, IInv, Sourced, [Next]_vars
    PROVE  SourcedOrEnded'
<1> SUFFICES ASSUME pc' # "exit"
             PROVE  Sourced'
  BY DEF SourcedOrEnded
<1>1. TypeOK /\ Unlisted /\ Places /\ Round /\ Called
  BY PlacesParts DEF IInv
<1>2. ASSUME UNCHANGED <<sock, nids, wait>>
      PROVE  Sourced'
  BY <1>1, <1>2, SameSourceKeeps DEF SameSource
<1>3. CASE UNCHANGED vars
  BY <1>2, <1>3 DEF vars, kernel, tables, control
<1>4. CASE NextMsgNow \/ PollNothing \/ PollAccept \/ PollAgain
  <2>1. UNCHANGED <<sock, nids, wait>>
    BY <1>4 DEF NextMsgNow, PollNothing, PollAccept, PollAgain, tables, control
  <2> QED
    BY <1>2, <2>1
<1>5. CASE PollRecv
  <2> DEFINE fd == Found
  <2>1. fd \in Entry /\ wait' = wait
    BY <1>1, <1>5, PolledOf DEF PollRecv
  <2>2. fd \in FD /\ sock[fd] # NULL
    BY <1>5, <2>1, InOf DEF PollRecv
  <2>3. \/ Received(fd) = "message" /\ sock' = Taken(fd) /\ UNCHANGED nids
        \/ Received(fd) = "end" /\ Hangup(fd) /\ UNCHANGED sock
        \/ UNCHANGED <<sock, nids>>
    BY <1>5 DEF PollRecv, tables
  <2> QED
    BY <1>1, <1>2, <2>1, <2>2, <2>3, TakenSource, EndSource
<1>6. CASE Accept
  <2>1. backlog # << >> /\ FreeFds # {}
    BY <1>1, <1>6 DEF Accept, Places
  <2>2. PICK n : n = Head(backlog)
    OBVIOUS
  <2>3. PICK fd \in FD : fd = NewFd /\ sock[fd] = NULL
    BY <2>1, NewFdOf
  <2>4. /\ sock' = Set(sock, fd, Fresh(n)) /\ wait' = [fd |-> fd, by |-> "accept"]
        /\ nids' = nids /\ wait = NULL
    BY <1>1, <1>6, <2>2, <2>3 DEF Accept, tables, Places, Ended
  <2>5. \A g \in FD : g # fd => sock'[g] = sock[g]
    BY <1>1, <2>4 DEF Set, TypeOK
  <2>6. nids[fd] = NULL \/ MadeUp(fd)
    BY <2>3 DEF Sourced
  <2>7. wait' # NULL /\ wait'.fd = fd /\ wait'.by = "accept"
    <3>1. wait' # NULL
      BY <2>4, Values
    <3> QED
      BY <2>4, <3>1
  <2>8. ASSUME NEW g \in FD
        PROVE  /\ sock'[g] = NULL => nids'[g] = NULL \/ MakesUp(g)
               /\ sock'[g] # NULL =>
                     \/ nids'[g] = sock'[g].peer
                     \/ MakesUp(g)
                     \/ sock'[g].eof /\ sock'[g].in = 0
                     \/ wait' # NULL /\ wait'.by = "accept" /\ wait'.fd = g
    BY <2>4, <2>5, <2>6, <2>7, SourcedParts DEF MadeUp, MakesUp
  <2> QED
    BY <2>4, <2>6, <2>7, <2>8 DEF Sourced, Heeded, Accepting, MadeUp, MakesUp
<1>7. CASE WaitIdle \/ NetIdle \/ WaitError \/ SendLater \/ SendStream \/ NextMsgSame
           \/ (\E n \in Peer : Send(n, "send_msg") \/ Send(n, "send_stream") \/ NextMsgFrom(n)
                               \/ NetSuspend(n) \/ NetResume(n) \/ SetNodeAddr(n))
           \/ InitServer
  <2> DEFINE Begun == /\ UNCHANGED <<sock, nids>>
                      /\ wait' = wait \/ (wait = NULL /\ wait' # NULL /\ wait'.by = "app")
  <2>1. Begun
    <3>1. CASE NextMsgSame
      <4>1. /\ UNCHANGED <<sock, nids>> /\ last_fd \in FD /\ wait' = [fd |-> last_fd, by |-> "app"]
            /\ wait = NULL
        BY <1>1, <3>1 DEF NextMsgSame, WaitOn, Idle, tables, TypeOK, Places, Ended
      <4>2. wait' \in Waited /\ NULL \notin Waited
        BY <4>1, Values
      <4> QED
        BY <4>1, <4>2
    <3>2. ASSUME NEW n \in Peer, NextMsgFrom(n)
          PROVE  Begun
      <4>1. /\ UNCHANGED <<sock, nids>> /\ wait = NULL
            /\ wait' = wait
               \/ (connections[n] \in FD /\ wait' = [fd |-> connections[n], by |-> "app"])
        BY <1>1, <3>2 DEF NextMsgFrom, WaitOn, Idle, tables, TypeOK, Places, Ended
      <4> QED
        BY <4>1, Values
    <3>3. CASE WaitIdle \/ NetIdle \/ WaitError \/ SendLater \/ SendStream
               \/ (\E n \in Peer : Send(n, "send_msg") \/ Send(n, "send_stream")
                                   \/ NetSuspend(n) \/ NetResume(n) \/ SetNodeAddr(n))
               \/ InitServer
      BY <3>3 DEF WaitIdle, NetIdle, Idling, WaitError, SendLater, SendStream, Send, NetSuspend,
            NetResume, SetNodeAddr, InitServer, tables, kernel, control
    <3> QED
      BY <1>7, <3>1, <3>2, <3>3
  <2>2. CASE wait' = wait
    BY <1>2, <2>1, <2>2
  <2>3. CASE wait = NULL /\ wait' # NULL /\ wait'.by = "app"
    BY <2>1, <2>3 DEF Sourced, Heeded, Accepting, MadeUp, MakesUp
  <2> QED
    BY <2>1, <2>2, <2>3
<1>8. CASE Identified
  <2> DEFINE fd == wait.fd
  <2>1. wait # NULL /\ wait.by = "accept" /\ fd \in FD
    BY <1>1, <1>8, Values DEF Identified, Waiting, TypeOK
  <2>2. sock[fd] # NULL /\ sock[fd].peer \in Peer /\ (nids[fd] = NULL \/ MadeUp(fd))
    BY <1>1, <2>1, SourcedParts DEF Unlisted, Accepting
  <2>3. /\ Received(fd) = "message" /\ sock' = Taken(fd) /\ Register(fd, sock[fd].peer)
        /\ wait' = NULL
    BY <1>8 DEF Identified
  <2>4. /\ sock'[fd] # NULL /\ sock'[fd].peer = sock[fd].peer
        /\ \A g \in FD : g # fd => sock'[g] = sock[g]
    BY <1>1, <2>1, <2>2, <2>3, TakenOf
  <2>5. /\ nids'[fd] = sock[fd].peer \/ MakesUp(fd)
        /\ \A g \in FD : g # fd => nids'[g] = nids[g]
    BY <1>1, <2>1, <2>2, <2>3, RegisterOf DEF MadeUp, MakesUp
  <2> HIDE DEF fd
  <2>6. ASSUME NEW g \in FD
        PROVE  /\ sock'[g] = NULL => nids'[g] = NULL \/ MakesUp(g)
               /\ sock'[g] # NULL =>
                     \/ nids'[g] = sock'[g].peer
                     \/ MakesUp(g)
                     \/ sock'[g].eof /\ sock'[g].in = 0
    BY <2>4, <2>5, SourcedParts DEF fd, MadeUp, MakesUp
  <2> QED
    BY <2>3, <2>6 DEF Sourced, Heeded, Accepting, MadeUp, MakesUp
<1>9. CASE Unidentified
  <2> DEFINE fd == wait.fd
  <2>1. wait # NULL /\ fd \in FD /\ Hangup(fd) /\ sock' = Set(sock, fd, NULL) /\ wait' = NULL
    BY <1>1, <1>9, Values DEF Unidentified, Waiting, TypeOK
  <2>2. /\ nids'[fd] = NULL /\ \A g \in FD : g # fd => nids'[g] = nids[g]
    BY <1>1, <2>1, HangupOf
  <2>3. sock'[fd] = NULL /\ \A g \in FD : g # fd => sock'[g] = sock[g]
    BY <1>1, <2>1 DEF TypeOK, Set
  <2> HIDE DEF fd
  <2>4. ASSUME NEW g \in FD
        PROVE  /\ sock'[g] = NULL => nids'[g] = NULL \/ MakesUp(g)
               /\ sock'[g] # NULL =>
                     \/ nids'[g] = sock'[g].peer
                     \/ MakesUp(g)
                     \/ sock'[g].eof /\ sock'[g].in = 0
    BY <2>2, <2>3, SourcedParts DEF fd, MadeUp, MakesUp
  <2> QED
    BY <2>1, <2>4 DEF Sourced, Heeded, Accepting, MadeUp, MakesUp
<1>10. CASE WaitReturns
  <2> DEFINE fd == wait.fd
  <2>1. wait # NULL /\ wait.by = "app" /\ fd \in FD /\ "IN" \in Revents(fd) /\ wait' = NULL
    BY <1>1, <1>10, Values DEF WaitReturns, Waiting, TypeOK
  <2>2. sock[fd] # NULL
    BY <2>1, InOf, Constants DEF Entry
  <2>3. \/ Received(fd) = "message" /\ sock' = Taken(fd) /\ UNCHANGED nids
        \/ Received(fd) = "end" /\ Hangup(fd) /\ UNCHANGED sock
    BY <1>10 DEF WaitReturns
  <2>4. ASSUME NEW g \in FD
        PROVE  /\ sock'[g] = NULL => nids'[g] = NULL \/ MakesUp(g)
               /\ sock'[g] # NULL =>
                     \/ nids'[g] = sock'[g].peer
                     \/ MakesUp(g)
                     \/ sock'[g].eof /\ sock'[g].in = 0
    <3>1. CASE Received(fd) = "message" /\ sock' = Taken(fd) /\ UNCHANGED nids
      <4>1. /\ sock'[fd] # NULL /\ sock'[fd].peer = sock[fd].peer /\ sock[fd].in > 0
            /\ \A h \in FD : h # fd => sock'[h] = sock[h]
        BY <1>1, <2>1, <2>2, <3>1, TakenOf
      <4>2. sock[fd].in # 0
        BY <4>1
      <4> HIDE DEF fd
      <4> QED
        BY <2>1, <2>2, <3>1, <4>1, <4>2, SourcedParts DEF MadeUp, MakesUp
    <3>2. CASE Received(fd) = "end" /\ Hangup(fd) /\ UNCHANGED sock
      <4>1. /\ nids'[fd] = NULL /\ \A h \in FD : h # fd => nids'[h] = nids[h]
        BY <1>1, <2>1, <3>2, HangupOf
      <4>2. sock[fd].eof /\ sock[fd].in = 0
        BY <1>1, <2>1, <2>2, <3>2, EndOf
      <4> HIDE DEF fd
      <4> QED
        BY <2>1, <2>2, <3>2, <4>1, <4>2, SourcedParts DEF MadeUp, MakesUp
    <3> QED
      BY <2>3, <3>1, <3>2
  <2> QED
    BY <2>1, <2>4 DEF Sourced, Heeded, Accepting, MadeUp, MakesUp
<1>11. ASSUME NEW n \in Peer, SendReady(n)
       PROVE  Sourced'
  <2>1. n \in Range(keys) /\ pc = "send"
    BY <1>1, <1>11 DEF SendReady, TypeOK, Range
  <2>2. send_qs[n] # NULL /\ Unfinished(send_qs[n]) # {}
    BY <1>1, <2>1 DEF Round, ReadyAt, Ready
  <2>3. Got(n) \in 1 .. calls
    BY <1>1, <2>2, UnfinishedOf DEF Got
  <2>4. PICK next : SendNow(n, Got(n), next)
    BY <1>11 DEF SendReady
  <2>5. wait' = wait
    BY <1>11 DEF SendReady
  <2> QED
    BY <1>1, <2>3, <2>4, <2>5, SendNowSourced
<1>12. CASE SendIdentity \/ SendDirect
  <2>1. dest.to \in Peer /\ calls \in 1 .. calls
    BY <1>1, <1>12, Values DEF SendIdentity, SendDirect, Put, TypeOK, Places, Call
  <2>2. PICK c \in (1 .. calls) \cup {NULL}, next \in {"put", "idle"} : SendNow(dest.to, c, next)
    BY <1>12, <2>1 DEF SendIdentity, SendDirect
  <2>3. wait' = wait
    BY <1>12 DEF SendIdentity, SendDirect
  <2> QED
    BY <1>1, <2>1, <2>2, <2>3, SendNowSourced
<1>13. CASE ConnectFails \/ ConnectTo
  <2>1. FreeFds # {} /\ dest.to \in Peer /\ wait' = wait /\ wait = NULL
    BY <1>1, <1>13, FdLeftOf, Values DEF ConnectFails, ConnectTo, TypeOK, Places, Ended
  <2>2. PICK fd \in FD : fd = NewFd /\ sock[fd] = NULL
    BY <2>1, NewFdOf
  <2>3. nids[fd] = NULL \/ MadeUp(fd)
    BY <2>2 DEF Sourced
  <2>4. CASE UNCHANGED <<sock, nids>>
    BY <1>2, <2>1, <2>4
  <2>5. CASE sock' = Set(sock, fd, Unconnected) /\ UNCHANGED nids
    <3>1. sock'[fd] = Unconnected /\ \A g \in FD : g # fd => sock'[g] = sock[g]
      BY <1>1, <2>5 DEF Set, TypeOK
    <3>2. Unconnected # NULL /\ Unconnected.peer = NULL
      BY Values DEF Unconnected
    <3>3. \A g \in FD : SameSource(g)
      BY <2>3, <2>5, <3>1, <3>2 DEF SameSource, MadeUp, MakesUp
    <3> QED
      BY <1>1, <2>1, <2>5, <3>3, SameSourceKeeps
  <2>6. CASE ConnectTo
    <3>1. Register(fd, dest.to) /\ sock' = Set(sock, fd, Fresh(dest.to))
      BY <2>2, <2>6 DEF ConnectTo
    <3>2. /\ nids'[fd] = dest.to \/ MakesUp(fd)
          /\ \A g \in FD : g # fd => nids'[g] = nids[g]
      BY <1>1, <2>1, <2>3, <3>1, RegisterOf DEF MadeUp, MakesUp
    <3>3. sock'[fd] = Fresh(dest.to) /\ \A g \in FD : g # fd => sock'[g] = sock[g]
      BY <1>1, <3>1 DEF Set, TypeOK
    <3>4. Fresh(dest.to) # NULL /\ Fresh(dest.to).peer = dest.to
      <4>1. Fresh(dest.to) \in Socket /\ NULL \notin Socket
        BY <2>1, Values
      <4> QED
        BY <4>1 DEF Fresh
    <3>5. ASSUME NEW g \in FD
          PROVE  /\ sock'[g] = NULL => nids'[g] = NULL \/ MakesUp(g)
                 /\ sock'[g] # NULL =>
                       \/ nids'[g] = sock'[g].peer
                       \/ MakesUp(g)
                       \/ sock'[g].eof /\ sock'[g].in = 0
      BY <2>1, <3>2, <3>3, <3>4, SourcedParts DEF MadeUp, MakesUp
    <3> QED
      BY <2>1, <3>5 DEF Sourced, Heeded, Accepting, MadeUp, MakesUp
  <2>7. ConnectFails => UNCHANGED <<sock, nids>>
                        \/ (sock' = Set(sock, fd, Unconnected) /\ UNCHANGED nids)
    BY <2>2 DEF ConnectFails, tables
  <2> QED
    BY <1>13, <2>4, <2>5, <2>6, <2>7
<1>14. CASE MsgSource
  <2>1. /\ last_fd \in FD /\ nids' = Set(nids, last_fd, Nobody) /\ "msg_source" \in Uses
        /\ UNCHANGED <<sock, wait>>
    BY <1>1, <1>14 DEF MsgSource, Idle, TypeOK, control
  <2>2. MakesUp(last_fd) /\ \A g \in FD : g # last_fd => nids'[g] = nids[g]
    BY <1>1, <2>1 DEF Set, TypeOK, MadeUp, MakesUp
  <2>3. \A g \in FD : SameSource(g)
    BY <2>1, <2>2 DEF SameSource, MakesUp
  <2>4. \A g \in FD : nids'[g] \in {nids[g], NULL} \/ MakesUp(g)
    BY <2>2
  <2> QED
    BY <1>1, <2>1, <2>3, <2>4, SameSourceKeeps
<1>15. CASE ShutdownServer
  <2>1. wait = NULL /\ wait' = NULL
    BY <1>1, <1>15 DEF ShutdownServer, NoTables, Idle, Places, Ended
  <2>2. \A fd \in FD : nids[fd] # NULL => sock[fd] # NULL
    BY <1>15 DEF ShutdownServer
  <2>3. \A fd \in FD : /\ nids'[fd] = NULL
                       /\ sock'[fd] = IF nids[fd] # NULL THEN NULL ELSE sock[fd]
    BY <1>15, <2>2 DEF ShutdownServer, NoTables
  <2>4. \A fd \in FD : SameSource(fd)
    BY <2>3 DEF SameSource
  <2> QED
    BY <1>1, <2>1, <2>3, <2>4, SameSourceKeeps
<1>16. CASE Others
  <2>1. CASE \E n \in Peer : PeerConnects(n)
    BY <1>2, <2>1 DEF PeerConnects, Env, tables, control
  <2>2. ASSUME NEW fd \in FD, PeerActs(fd)
        PROVE  Sourced'
    <3>1. /\ sock[fd] # NULL /\ sock'[fd] # NULL /\ sock'[fd].peer = sock[fd].peer
          /\ \A g \in FD : g # fd => sock'[g] = sock[g]
          /\ sock[fd].eof => sock'[fd].eof /\ sock'[fd].in = sock[fd].in
          /\ UNCHANGED <<nids, wait>>
      BY <1>1, <2>2, PeerActsOf DEF tables, control
    <3>2. \A g \in FD : SameSource(g)
      BY <3>1 DEF SameSource, Heeded
    <3> QED
      BY <1>1, <3>1, <3>2, SameSourceKeeps
  <2>3. CASE \E c \in Call : StreamPut(c) \/ StreamClose(c)
    <3>1. UNCHANGED <<sock, nids, wait>>
      BY <1>1, <2>3, StreamWriteOf DEF kernel, tables
    <3> QED
      BY <1>2, <3>1
  <2> QED
    BY <1>16, <2>1, <2>2, <2>3 DEF Others, PeerActs
<1> QED
  BY <1>3, <1>4, <1>5, <1>6, <1>7, <1>8, <1>9, <1>10, <1>11, <1>12, <1>13, <1>14, <1>15, <1>16
  DEF Next, Polling, Serving, Application, Sending

\* Nothing happens after the process has ended.
LEMMA EndedStays ==
    ASSUME NetAssumption, IInv, pc = "exit", [Next]_vars
    PROVE  pc' = "exit"
<1>1. TypeOK
  BY DEF IInv
<1>2. CASE Polling
  BY <1>2 DEF Polling, NextMsgNow, PollNothing, PollAccept, PollRecv, PollAgain, Polled, Accept
<1>3. CASE Serving
  BY <1>3 DEF Serving, WaitIdle, Identified, Unidentified, WaitError, Waiting, NetIdle, SendReady
<1>4. CASE Application
  BY <1>4 DEF Application, Sending, Send, ConnectFails, ConnectTo, SendIdentity, SendDirect,
        SendLater, SendStream, Put, NextMsgSame, WaitReturns, Waiting, MsgSource, NextMsgFrom,
        NetSuspend, NetResume, SetNodeAddr, ShutdownServer, InitServer, Idle
<1>5. CASE Others
  BY <1>5 DEF Others, PeerConnects, PeerSends, PeerCloses, PeerResets, StreamPut, StreamClose,
        StreamWrite, Env, Running, Ended
<1>6. CASE UNCHANGED vars
  BY <1>6 DEF vars, control
<1> QED
  BY <1>2, <1>3, <1>4, <1>5, <1>6 DEF Next

SourceStep ==
    PollRecv /\ pc' = "idle" =>
        \/ nids'[last_fd'] = sock[last_fd'].peer
        \/ "msg_source" \in Uses /\ nids'[last_fd'] = Nobody

\* For any peers and descriptors and any use of net.h, the application finds in nids, for
\* the message it has just received, the peer that sent it, or the 0 that its own
\* msg_source has put there.
THEOREM SourceIsRight == Spec => SourceRight
<1>1. Init => SourcedOrEnded
  BY NetAssumption, Constants DEF Init, Sourced, Accepting, SourcedOrEnded
<1>2. IInv /\ SourcedOrEnded /\ [Next]_vars => SourcedOrEnded'
  BY NetAssumption, SourcedKept, EndedStays DEF SourcedOrEnded
<1>3. ASSUME IInv, SourcedOrEnded, PollRecv, pc' = "idle"
      PROVE  \/ nids'[last_fd'] = sock[last_fd'].peer
             \/ "msg_source" \in Uses /\ nids'[last_fd'] = Nobody
  <2> DEFINE fd == Found
  <2>1. TypeOK /\ Places /\ NetAssumption
    BY <1>3, NetAssumption DEF IInv
  <2>2. fd \in Entry /\ pc = "poll"
    BY <1>3, <2>1, PolledOf DEF PollRecv
  <2>3. fd \in FD /\ sock[fd] # NULL
    BY <1>3, <2>1, <2>2, InOf DEF PollRecv
  <2>4. Received(fd) = "message" /\ last_fd' = fd /\ nids' = nids
    BY <1>3, <2>2 DEF PollRecv, tables
  <2>5. sock[fd].in > 0 /\ wait = NULL
    BY <2>1, <2>2, <2>3, <2>4, TakenOf DEF Places, Ended
  <2>6. sock[fd].in # 0
    BY <2>5
  <2>7. nids[fd] = sock[fd].peer \/ MadeUp(fd)
    BY <1>3, <2>2, <2>3, <2>5, <2>6 DEF Sourced, SourcedOrEnded, Heeded, Accepting
  <2> QED
    BY <2>4, <2>7 DEF MadeUp, MakesUp
<1>4. IInv /\ SourcedOrEnded /\ [Next]_vars => [SourceStep]_vars
  BY <1>3 DEF SourceStep
<1> QED
  BY <1>1, <1>2, <1>4, Invariant, PTL DEF Spec, SourceRight, SourceStep
=============================================================================
