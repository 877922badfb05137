---------------------------- MODULE RelayProofs ----------------------------
(***************************************************************************)
(* For any sources, items and sizes: a server divides the messages of each *)
(* connection rightly between its threads, and polls a connection once, or *)
(* not at all while a deputy reads from it.                                *)
(***************************************************************************)
EXTENDS Relay, SequenceTheorems, FiniteSetTheorems, TLAPS

-----------------------------------------------------------------------------
(***************************************************************************)
(* The inductive invariant                                                 *)
(***************************************************************************)
Entry == [fd : Int, rev : SUBSET {"IN", "RDHUP"}]
Relaying == {"item", "text", "file"}
Descriptor == Source \cup {server_fd, target}

PeerTypes ==
    /\ size_of \in [Item -> Nat \cup {Text, NULL}]
    /\ snd \in [Source -> Seq(Message)] /\ in \in [Source -> Seq(Message)]
    /\ eof \subseteq Source
ServerTypes ==
    /\ pollfds \in Seq(Entry) /\ count \in 0 .. Len(pollfds) /\ start \in Nat \ {0}
    /\ mistaken \in BOOLEAN
    /\ mpc \in {"poll", "idle", "recv", "negate", "todos"} \cup Relaying
    /\ dpc \in [Item -> {"none", "header", "chunk", "resume", "callback", "ended"}]
    /\ chunks \in [Item -> Int] /\ file \in [Item -> Seq(Nat)]
    /\ todos \in Seq({"resume", "callback"} \X Item)
Types == PeerTypes /\ ServerTypes

\* The deputy of id reads from its source, or the source is still to be resumed.
Resuming(id) == Contains(todos, <<"resume", id>>)
Reads(id) == dpc[id] \in {"header", "chunk", "resume"} \/ Resuming(id)

\* Of a source there is one entry that is not negated, or somebody reads from it.
Single == \A s \in Source : \A i, j \in Where(s) : i = j
Apart == \A s \in Source : Reading(s) => Where(s) = {}
Listed == \A s \in Source : Where(s) = {} => Reading(s) \/ s \in eof \/ mistaken
\* One reads from it at a time, and it is resumed once.
ReadOnce ==
    /\ \A id, jd \in Item : id[1] = jd[1] /\ Reads(id) /\ Reads(jd) => id = jd
    /\ \A id \in Item : Resuming(id) => dpc[id] \in {"callback", "ended"}
    /\ \A i, j \in 1 .. Len(todos) : todos[i] = todos[j] /\ Type(todos[i]) = "resume" => i = j
\* What the main thread has found in the entries, and what it has received.
Marked ==
    \A i \in DOMAIN pollfds : pollfds[i].fd > 0 =>
        /\ pollfds[i].fd \in Descriptor
        /\ "RDHUP" \in pollfds[i].rev => pollfds[i].fd \in eof
Chosen ==
    /\ mpc = "recv" => /\ start \in DOMAIN pollfds
                       /\ \E f \in Descriptor : pollfds[start].fd = f /\ Where(f) # {}
    /\ mpc = "negate" => start \in DOMAIN pollfds /\ fd \in eof
    /\ mpc \in Relaying => curr \in Item /\ fd = curr[1] /\ ~Reading(fd)
Polls == Single /\ Apart /\ Listed /\ ReadOnce /\ Marked /\ Chosen

\* A message of a source has a place: the number of its item, and where in Whole it is.
Places(s, k) == Len(Whole(<<s, k>>))
Succ(s, a) == IF a[2] = Places(s, a[1]) THEN <<a[1] + 1, 1>> ELSE <<a[1], a[2] + 1>>
Left(s) == in[s] \o snd[s]
Sent(s, n) == \A k \in 1 .. MaxItems[s] : size_of[<<s, k>>] # NULL <=> k <= n
\* at are the places of what is left of the n items that s has sent, and the next one.
Line(s, n, at) ==
    /\ Len(at) = Len(Left(s)) + 1 /\ at[Len(at)] = <<n + 1, 1>>
    /\ \A j \in 1 .. Len(Left(s)) :
          /\ at[j][1] \in 1 .. n /\ at[j][2] \in 1 .. Places(s, at[j][1])
          /\ Left(s)[j] = Whole(<<s, at[j][1]>>)[at[j][2]]
          /\ at[j + 1] = Succ(s, at[j])
\* a is the place that is read next, and the main thread or a deputy is at it.
MainStage(s, a) ==
    mpc \in Relaying /\ curr[1] = s =>
        /\ a = <<curr[2], 2>>
        /\ mpc = "text" => size_of[curr] = Text
        /\ mpc = "file" => size_of[curr] \in Nat
DeputyStage(id, a) ==
    /\ dpc[id] = "none" => file[id] = << >>
    /\ dpc[id] = "header" => a = <<id[2], 2>> /\ file[id] = << >> /\ size_of[id] \in Nat
    /\ dpc[id] = "chunk" =>
          /\ a[1] = id[2] /\ a[2] > 2 /\ size_of[id] \in Nat
          /\ chunks[id] = Places(id[1], id[2]) - a[2] + 1 /\ chunks[id] > 0
          /\ file[id] = Bytes(CHUNK_SIZE * (a[2] - 3))
    /\ dpc[id] \in {"resume", "callback", "ended"} =>
          id[2] < a[1] /\ size_of[id] \in Nat /\ file[id] = Bytes(size_of[id])
SomeoneAt(s, a) ==
    a[2] = 1 \/ (mpc \in Relaying /\ curr = <<s, a[1]>>)
             \/ \E id \in Item : id[1] = s /\ dpc[id] \in Getting
Stage(s, a) == MainStage(s, a) /\ SomeoneAt(s, a)
               /\ \A id \in Item : id[1] = s => DeputyStage(id, a)
SourceAt(s, n, at) == Sent(s, n) /\ Line(s, n, at) /\ Stage(s, at[1])
InStep == \A s \in Source : \E n \in 0 .. MaxItems[s], at \in Seq(Nat \X Nat) : SourceAt(s, n, at)

IInv == Types /\ Polls /\ over # "mixed" /\ InStep
-----------------------------------------------------------------------------
(***************************************************************************)
(* Sequences and numbers                                                   *)
(***************************************************************************)
LEMMA Seqs ==
    ASSUME NEW S, NEW q \in Seq(S)
    PROVE  Len(q) \in Nat /\ DOMAIN q = 1 .. Len(q) /\ \A i \in 1 .. Len(q) : q[i] \in S
  OBVIOUS

\* The tail of a sequence: its type, its length and where its elements come from.
LEMMA TailOf ==
    ASSUME NEW S, NEW q \in Seq(S), q # << >>
    PROVE  /\ Head(q) = q[1] /\ Len(q) > 0 /\ Head(q) \in S
           /\ Tail(q) \in Seq(S) /\ Len(Tail(q)) = Len(q) - 1
           /\ \A i \in 1 .. Len(q) - 1 : Tail(q)[i] = q[i + 1]
  OBVIOUS

\* What Append adds, and what it leaves alone.
LEMMA AppendOf ==
    ASSUME NEW S, NEW q \in Seq(S), NEW e \in S
    PROVE  /\ Append(q, e) \in Seq(S) /\ Len(Append(q, e)) = Len(q) + 1
           /\ \A i \in 1 .. Len(q) : Append(q, e)[i] = q[i]
           /\ Append(q, e)[Len(q) + 1] = e
  OBVIOUS

\* The elements of a concatenation.
LEMMA ConcatOf ==
    ASSUME NEW S, NEW a \in Seq(S), NEW b \in Seq(S)
    PROVE  /\ a \o b \in Seq(S) /\ Len(a \o b) = Len(a) + Len(b)
           /\ \A i \in 1 .. Len(a) : (a \o b)[i] = a[i]
           /\ \A i \in 1 .. Len(b) : (a \o b)[Len(a) + i] = b[i]
  OBVIOUS

\* Taking from the first of two sequences is taking from the two together.
LEMMA TailConcat ==
    ASSUME NEW S, NEW a \in Seq(S), NEW b \in Seq(S), a # << >>
    PROVE  Tail(a) \o b = Tail(a \o b)
<1>1. Tail(a) \in Seq(S) /\ Len(Tail(a)) = Len(a) - 1 /\ Len(a) \in Nat /\ Len(a) > 0
  BY TailOf
<1>2. Tail(a) \o b \in Seq(S) /\ a \o b \in Seq(S) /\ a \o b # << >>
  BY <1>1
<1> QED
  BY <1>1, <1>2

\* An interval has as many elements as its last one says.
LEMMA Counted ==
    ASSUME NEW n \in Nat
    PROVE  IsFiniteSet(1 .. n) /\ Cardinality(1 .. n) = n
  BY FS_Interval

\* p has the entries of q at the places in kept, each once.
PicksAt(p, q, kept, at) ==
    /\ at \in [1 .. Cardinality(kept) -> kept]
    /\ \A k \in 1 .. Cardinality(kept) : p[k] = q[at[k]]
    /\ \A k, l \in 1 .. Cardinality(kept) : at[k] = at[l] => k = l
    /\ \A i \in kept : \E k \in 1 .. Cardinality(kept) : at[k] = i

\* The places picked from a sequence are the entries of the result, one for each.
LEMMA PickedOf ==
    ASSUME NEW S, NEW q \in Seq(S), NEW kept \in SUBSET DOMAIN q
    PROVE  /\ Picked(q, kept) \in Seq(S)
           /\ Len(Picked(q, kept)) = Cardinality(kept) /\ Cardinality(kept) \in 0 .. Len(q)
           /\ \E at : PicksAt(Picked(q, kept), q, kept, at)
<1> DEFINE rank == [i \in kept |-> Cardinality({j \in kept : j <= i})]
           n == Cardinality(kept)
<1>1. /\ IsFiniteSet(kept) /\ n \in Nat /\ kept \subseteq Nat /\ n <= Len(q)
  <2>1. DOMAIN q = 1 .. Len(q) /\ Len(q) \in Nat
    OBVIOUS
  <2>2. IsFiniteSet(1 .. Len(q)) /\ Cardinality(1 .. Len(q)) = Len(q)
    BY <2>1, Counted
  <2> QED
    BY <2>1, <2>2, FS_Subset, FS_CardinalityType
<1>2. ASSUME NEW i \in kept
      PROVE  /\ IsFiniteSet({j \in kept : j <= i}) /\ rank[i] \in 1 .. n
  <2> DEFINE T == {j \in kept : j <= i}
  <2>1. T \in SUBSET kept /\ i \in T
    BY <1>1
  <2>2. IsFiniteSet(T) /\ Cardinality(T) <= n /\ Cardinality(T) \in Nat
    BY <1>1, <2>1, FS_Subset, FS_CardinalityType
  <2>3. Cardinality(T) # 0
    BY <2>1, <2>2, FS_EmptySet
  <2> QED
    BY <1>1, <2>2, <2>3
<1>3. ASSUME NEW i \in kept, NEW j \in kept, i < j
      PROVE  rank[i] # rank[j]
  <2> DEFINE T == {k \in kept : k <= i}
             U == {k \in kept : k <= j}
  <2>1. T \in SUBSET U /\ j \in U /\ j \notin T
    BY <1>1, <1>3
  <2>2. IsFiniteSet(U)
    BY <1>2
  <2>3. Cardinality(T) # Cardinality(U)
    BY <2>1, <2>2, FS_Subset
  <2> QED
    BY <2>3
<1>4. rank \in Injection(kept, 1 .. n)
  <2>1. rank \in [kept -> 1 .. n]
    BY <1>2
  <2>2. ASSUME NEW i \in kept, NEW j \in kept, rank[i] = rank[j]
        PROVE  i = j
    <3>1. i \in Nat /\ j \in Nat /\ ~(i < j) /\ ~(j < i)
      BY <1>1, <1>3, <2>2
    <3> QED
      BY <3>1
  <2> HIDE DEF rank
  <2> QED
    BY <2>1, <2>2 DEF Injection, IsInjective
<1>5. rank \in Surjection(kept, 1 .. n)
  <2>1. IsFiniteSet(1 .. n) /\ Cardinality(1 .. n) = n
    BY <1>1, FS_Interval
  <2> QED
    BY <1>1, <1>4, <2>1, FS_Injection
<1>6. \A k \in 1 .. n : \E i \in kept : rank[i] = k
  BY <1>5 DEF Surjection
<1>7. \A i, j \in kept : rank[i] = rank[j] => i = j
  BY <1>4 DEF Injection, IsInjective
<1> DEFINE place(k) == CHOOSE i \in kept : Cardinality({j \in kept : j <= i}) = k
           at == [k \in 1 .. n |-> place(k)]
           t == Picked(q, kept)
<1>8. ASSUME NEW k \in 1 .. n
      PROVE  place(k) \in kept /\ rank[place(k)] = k
  <2>1. \E i \in kept : Cardinality({j \in kept : j <= i}) = k
    BY <1>6
  <2> HIDE DEF n
  <2>2. place(k) \in kept /\ Cardinality({j \in kept : j <= place(k)}) = k
    BY <2>1, Zenon
  <2> HIDE DEF place
  <2> QED
    BY <2>2
<1>9. t = [k \in 1 .. n |-> q[place(k)]]
  BY Zenon DEF Picked
<1>10. \A i \in kept : rank[i] \in 1 .. n
  BY <1>2
<1> HIDE DEF rank, n, place, t
<1>11. \A i \in kept : place(rank[i]) = i
  BY <1>7, <1>8, <1>10
<1>12. at \in [1 .. n -> kept] /\ \A k \in 1 .. n : at[k] = place(k)
  BY <1>8
<1>13. \A i \in kept : q[i] \in S
  OBVIOUS
<1>14. t \in Seq(S) /\ Len(t) = n
  BY <1>1, <1>8, <1>9, <1>13
<1>15. \A k \in 1 .. n : t[k] = q[at[k]]
  BY <1>9, <1>12
<1>16. \A k, l \in 1 .. n : at[k] = at[l] => k = l
  BY <1>8, <1>12
<1>17. \A i \in kept : \E k \in 1 .. n : at[k] = i
  BY <1>10, <1>11, <1>12
<1>18. n \in 0 .. Len(q) /\ Len(q) \in Nat
  BY <1>1
<1>19. PicksAt(t, q, kept, at)
  BY <1>12, <1>15, <1>16, <1>17 DEF PicksAt, n
<1> HIDE DEF at
<1> QED
  BY <1>14, <1>18, <1>19 DEF n, t

\* SetToSeq puts the elements of a finite set in some order, each once.
LEMMA SetToSeqOf ==
    ASSUME NEW S, IsFiniteSet(S)
    PROVE  /\ Cardinality(S) \in Nat /\ SetToSeq(S) \in [1 .. Cardinality(S) -> S]
           /\ \A i, j \in 1 .. Cardinality(S) : SetToSeq(S)[i] = SetToSeq(S)[j] => i = j
           /\ \A x \in S : \E i \in 1 .. Cardinality(S) : SetToSeq(S)[i] = x
<1> DEFINE D == 1 .. Cardinality(S)
           f == SetToSeq(S)
<1>1. Cardinality(S) \in Nat /\ ExistsBijection(D, S)
  BY FS_CardinalityType
<1>2. \E g \in [D -> S] : IsInjective(g)
  BY <1>1 DEF ExistsBijection, Bijection, Injection
<1>3. f \in [D -> S] /\ IsInjective(f)
  BY <1>2, Zenon DEF SetToSeq
<1>4. f \in Injection(D, S)
  BY <1>3, Zenon DEF Injection
<1>5. IsFiniteSet(D) /\ Cardinality(D) = Cardinality(S)
  BY <1>1, FS_Interval
<1>6. f \in Surjection(D, S)
  BY <1>4, <1>5, FS_Injection
<1> HIDE DEF f
<1> QED
  BY <1>1, <1>3, <1>6 DEF f, IsInjective, Surjection

\* Quotient and remainder, for the number of chunks of a file.
LEMMA Divided ==
    ASSUME NEW z \in Nat, NEW c \in Nat \ {0}
    PROVE  z \div c \in Nat /\ z % c \in 0 .. c - 1 /\ z = c * (z \div c) + (z % c)
  OBVIOUS

\* Multiples of the size of a chunk.
LEMMA Times ==
    ASSUME NEW c \in Nat \ {0}, NEW i \in Nat, NEW n \in Nat, i < n
    PROVE  c * i \in Nat /\ c * (i + 1) = c * i + c /\ c * (i + 1) <= c * n
  OBVIOUS
-----------------------------------------------------------------------------
(***************************************************************************)
(* Items and their content                                                 *)
(***************************************************************************)
LEMMA Items ==
    ASSUME RelayAssumption
    PROVE  /\ Source \subseteq Nat \ {0} /\ IsFiniteSet(Source) /\ CHUNK_SIZE \in Nat \ {0}
           /\ \A s \in Source : MaxItems[s] \in Nat /\ \A k \in 1 .. MaxItems[s] : <<s, k>> \in Item
           /\ \A id \in Item : /\ id = <<id[1], id[2]>> /\ id[1] \in Source
                               /\ id[2] \in 1 .. MaxItems[id[1]] /\ id[2] \in Nat \ {0}
<1>1. \A s \in Source : MaxItems[s] \in Nat
  BY DEF RelayAssumption
<1>2. \A s \in Source : \A k \in 1 .. MaxItems[s] : <<s, k>> \in Item
  BY DEF Item
<1>3. ASSUME NEW id \in Item
      PROVE  /\ id = <<id[1], id[2]>> /\ id[1] \in Source
             /\ id[2] \in 1 .. MaxItems[id[1]] /\ id[2] \in Nat \ {0}
  <2>1. PICK s \in Source : id \in {s} \X (1 .. MaxItems[s])
    BY DEF Item
  <2> QED
    BY <1>1, <2>1
<1> QED
  BY <1>1, <1>2, <1>3 DEF RelayAssumption

\* The descriptors, of which the server's and the target's are no sources.
LEMMA Descriptors ==
    ASSUME RelayAssumption
    PROVE  /\ Descriptor \subseteq Nat \ {0} /\ Source \subseteq Descriptor
           /\ target \in Descriptor \ Source /\ server_fd \in Descriptor \ Source
  BY DEF RelayAssumption, Descriptor

\* The bytes up to i and those of the piece that follows.
LEMMA BytesOf ==
    ASSUME NEW z \in Nat, NEW i \in 0 .. z, NEW j \in i .. z
    PROVE  /\ Bytes(i) \in Seq(Nat) /\ Len(Bytes(i)) = i
           /\ SubSeq(Bytes(z), i + 1, j) \in Seq(Nat)
           /\ Bytes(i) \o SubSeq(Bytes(z), i + 1, j) = Bytes(j)
<1>1. /\ \A n \in Nat : Bytes(n) \in Seq(Nat) /\ Len(Bytes(n)) = n
      /\ \A n \in Nat : \A k \in 1 .. n : Bytes(n)[k] = k
  BY DEF Bytes
<1>2. i \in Nat /\ j \in Nat /\ i <= j /\ j <= z
  OBVIOUS
<1> DEFINE t == SubSeq(Bytes(z), i + 1, j)
<1>3. \A k \in i + 1 .. j : Bytes(z)[k] \in Nat
  BY <1>1, <1>2
<1>4. /\ t \in Seq(Nat) /\ Len(t) = j - i
      /\ \A k \in 1 .. j - i : t[k] = Bytes(z)[i + k]
  <2>1. /\ t \in Seq(Nat)
        /\ Len(t) = IF i + 1 <= j THEN j - (i + 1) + 1 ELSE 0
        /\ \A k \in 1 .. j - (i + 1) + 1 : t[k] = Bytes(z)[i + 1 + k - 1]
    BY <1>2, <1>3, SubSeqProperties
  <2> HIDE DEF t
  <2> QED
    BY <1>2, <2>1
<1> HIDE DEF t
<1>5. ASSUME NEW k \in 1 .. j - i
      PROVE  t[k] = i + k
  <2>1. i + k \in 1 .. z /\ k \in Nat
    BY <1>2
  <2> QED
    BY <1>1, <1>4, <2>1
<1> DEFINE b == Bytes(i)
           u == b \o t
<1>6. b \in Seq(Nat) /\ Len(b) = i /\ \A k \in 1 .. i : b[k] = k
  BY <1>1, <1>2
<1> HIDE DEF b
<1>7. Len(u) = j /\ u \in Seq(Nat) /\ \A k \in 1 .. j : u[k] = k
  <2>1. /\ u \in Seq(Nat) /\ Len(u) = Len(b) + Len(t)
        /\ \A k \in 1 .. Len(b) + Len(t) : u[k] = IF k <= Len(b) THEN b[k] ELSE t[k - Len(b)]
    BY <1>4, <1>6, ConcatProperties, ZenonT(30)
  <2> HIDE DEF u
  <2>2. Len(u) = j /\ \A k \in 1 .. j : u[k] = IF k <= i THEN b[k] ELSE t[k - i]
    BY <1>2, <1>4, <1>6, <2>1
  <2>3. ASSUME NEW k \in 1 .. j, ~ (k <= i)
        PROVE  u[k] = k
    <3>1. k - i \in 1 .. j - i
      BY <1>2, <2>3
    <3>2. t[k - i] = i + (k - i)
      BY <1>5, <3>1
    <3> QED
      BY <1>2, <2>2, <2>3, <3>2
  <2> QED
    BY <1>2, <1>6, <2>1, <2>2, <2>3
<1> HIDE DEF u
<1>8. Bytes(j) \in Seq(Nat) /\ Len(Bytes(j)) = j /\ \A k \in 1 .. j : Bytes(j)[k] = k
  BY <1>1, <1>2
<1>9. u = Bytes(j)
  BY <1>7, <1>8, SeqEqual
<1> QED
  BY <1>1, <1>2, <1>4, <1>9 DEF b, t, u

\* The constructors of messages make messages.
LEMMA MessageOf ==
    ASSUME NEW id \in Item
    PROVE  /\ ItemMsg(id) \in Message /\ TextMsg(id) \in Message
           /\ \A n \in Nat : Header(id, n) \in Message
           /\ \A e \in Seq(Nat) : Chunk(id, e) \in Message
<1>1. ItemMsg(id) \in {"item", "text"} \X Item /\ TextMsg(id) \in {"item", "text"} \X Item
  BY DEF ItemMsg, TextMsg
<1>2. \A n \in Nat : Header(id, n) \in {"header"} \X Item \X Nat
  BY DEF Header
<1>3. \A e \in Seq(Nat) : Chunk(id, e) \in {"chunk"} \X Item \X Seq(Nat)
  BY DEF Chunk
<1> QED
  BY <1>1, <1>2, <1>3 DEF Message

\* m brings chunk number i of a file of z bytes.
Piece(id, z, m, i) ==
    \E e \in Seq(Nat) :
        /\ m = Chunk(id, e)
        /\ Bytes(CHUNK_SIZE * (i - 1)) \o e = Bytes(IF i = NumChunks(z) THEN z ELSE CHUNK_SIZE * i)

\* A file goes in a header, that counts the chunks, and the chunks, that make up its bytes.
LEMMA PiecesOf ==
    ASSUME RelayAssumption, NEW id \in Item, NEW z \in Nat
    PROVE  /\ NumChunks(z) \in Nat /\ (NumChunks(z) = 0 => z = 0)
           /\ Pieces(id, Bytes(z)) \in Seq(Message)
           /\ Len(Pieces(id, Bytes(z))) = NumChunks(z) + 1
           /\ Pieces(id, Bytes(z))[1] = Header(id, NumChunks(z))
           /\ \A i \in 1 .. NumChunks(z) : Piece(id, z, Pieces(id, Bytes(z))[i + 1], i)
<1> DEFINE c == CHUNK_SIZE
           full == z \div c
           rest == z % c
           n == NumChunks(z)
           d == Bytes(z)
           first == <<Header(id, n)>>
           whole == [i \in 1 .. full |-> Chunk(id, SubSeq(d, c * (i - 1) + 1, c * i))]
           last == IF rest = 0 THEN << >> ELSE <<Chunk(id, SubSeq(d, c * full + 1, z))>>
<1>1. c \in Nat \ {0}
  BY Items
<1>2. /\ full \in Nat /\ rest \in 0 .. c - 1 /\ z = c * full + rest /\ c * full \in Nat
  <2> HIDE DEF c
  <2>1. full \in Nat /\ rest \in 0 .. c - 1 /\ z = c * full + rest
    BY <1>1, Divided
  <2> HIDE DEF full, rest
  <2> QED
    BY <1>1, <2>1
<1>3. Len(d) = z
  <2>1. z \in 0 .. z /\ z \in z .. z
    OBVIOUS
  <2> QED
    BY ONLY z \in Nat, <2>1, BytesOf
<1>4. n = full + (IF rest # 0 THEN 1 ELSE 0)
  BY DEF NumChunks
<1>5. Pieces(id, d) = first \o whole \o last
  BY <1>3 DEF Pieces
<1> HIDE DEF c, full, rest, n, d
<1>6. n \in Nat /\ (n = 0 => z = 0)
  BY <1>1, <1>2, <1>4
<1>7. ASSUME NEW i \in 1 .. full
      PROVE  /\ i - 1 \in Nat /\ c * (i - 1) \in 0 .. z /\ c * i \in c * (i - 1) .. z
             /\ c * i \in Nat
  <2>1. i - 1 \in Nat /\ i - 1 < full /\ i = (i - 1) + 1
    BY <1>2
  <2>2. c * (i - 1) \in Nat /\ c * ((i - 1) + 1) = c * (i - 1) + c /\ c * ((i - 1) + 1) <= c * full
    BY <1>1, <1>2, <2>1, Times
  <2>3. c * i = c * (i - 1) + c /\ c * i <= c * full
    BY <2>1, <2>2
  <2> DEFINE x == c * (i - 1)
             y == c * i
             w == c * full
  <2>4. x \in Nat /\ y = x + c /\ y <= w /\ w \in Nat /\ z = w + rest
    BY <1>2, <2>2, <2>3
  <2> HIDE DEF x, y, w
  <2>5. x \in 0 .. z /\ y \in x .. z /\ y \in Nat
    BY <1>1, <1>2, <2>4
  <2> QED
    BY <2>1, <2>5 DEF x, y
<1>8. ASSUME NEW i \in 1 .. full
      PROVE  /\ SubSeq(d, c * (i - 1) + 1, c * i) \in Seq(Nat)
             /\ Bytes(c * (i - 1)) \o SubSeq(d, c * (i - 1) + 1, c * i) = Bytes(c * i)
  BY <1>7, BytesOf DEF d
<1>9. /\ SubSeq(d, c * full + 1, z) \in Seq(Nat)
      /\ Bytes(c * full) \o SubSeq(d, c * full + 1, z) = Bytes(z)
  <2>1. c * full \in 0 .. z /\ z \in c * full .. z
    BY <1>2
  <2> QED
    BY <2>1, BytesOf DEF d
<1>10. first \in Seq(Message) /\ Len(first) = 1 /\ first[1] = Header(id, n)
  <2>1. Header(id, n) \in Message
    BY <1>6, MessageOf
  <2> QED
    BY <2>1
<1>11. /\ whole \in Seq(Message) /\ Len(whole) = full
       /\ \A i \in 1 .. full : whole[i] = Chunk(id, SubSeq(d, c * (i - 1) + 1, c * i))
  <2>1. \A i \in 1 .. full : Chunk(id, SubSeq(d, c * (i - 1) + 1, c * i)) \in Message
    BY <1>8, MessageOf
  <2> QED
    BY <1>2, <2>1
<1>12. /\ last \in Seq(Message) /\ Len(last) = IF rest # 0 THEN 1 ELSE 0
       /\ rest # 0 => last[1] = Chunk(id, SubSeq(d, c * full + 1, z))
  <2>1. Chunk(id, SubSeq(d, c * full + 1, z)) \in Message
    BY <1>9, MessageOf
  <2> QED
    BY <2>1
<1> HIDE DEF first, whole, last
<1> DEFINE p == Pieces(id, d)
<1>13. /\ p \in Seq(Message) /\ Len(p) = 1 + full + Len(last)
       /\ p[1] = first[1]
       /\ \A i \in 1 .. full : p[i + 1] = whole[i]
       /\ rest # 0 => p[full + 2] = last[1]
  <2> DEFINE h == first \o whole
  <2>1. /\ h \in Seq(Message) /\ Len(h) = Len(first) + Len(whole)
        /\ \A i \in 1 .. Len(first) : h[i] = first[i]
        /\ \A i \in 1 .. Len(whole) : h[Len(first) + i] = whole[i]
    <3>1. first \in Seq(Message) /\ whole \in Seq(Message)
      BY <1>10, <1>11
    <3> QED
      BY ONLY <3>1, ConcatOf
  <2> HIDE DEF h
  <2>2. /\ h \o last \in Seq(Message) /\ Len(h \o last) = Len(h) + Len(last)
        /\ \A i \in 1 .. Len(h) : (h \o last)[i] = h[i]
        /\ \A i \in 1 .. Len(last) : (h \o last)[Len(h) + i] = last[i]
    <3>1. h \in Seq(Message) /\ last \in Seq(Message)
      BY <1>12, <2>1
    <3> QED
      BY ONLY <3>1, ConcatOf
  <2>3. p = h \o last
    BY <1>5 DEF h
  <2> HIDE DEF p
  <2>4. Len(h) = 1 + full /\ h[1] = first[1] /\ \A i \in 1 .. full : h[1 + i] = whole[i]
    BY <1>2, <1>10, <1>11, <2>1
  <2>5. p \in Seq(Message) /\ Len(p) = 1 + full + Len(last)
    BY <2>2, <2>3, <2>4
  <2>6. p[1] = first[1]
    BY <1>2, <2>2, <2>3, <2>4
  <2>7. ASSUME NEW i \in 1 .. full
        PROVE  p[i + 1] = whole[i]
    <3>1. 1 + i \in 1 .. Len(h) /\ 1 + i = i + 1
      BY <1>2, <2>4
    <3> QED
      BY <2>2, <2>3, <2>4, <3>1
  <2>8. rest # 0 => p[full + 2] = last[1]
    <3>1. rest # 0 => 1 \in 1 .. Len(last) /\ Len(h) + 1 = full + 2
      BY <1>2, <1>12, <2>4
    <3> QED
      BY <2>2, <2>3, <3>1
  <2> QED
    BY <2>5, <2>6, <2>7, <2>8
<1> HIDE DEF p
<1>14. Len(p) = n + 1
  BY <1>2, <1>4, <1>12, <1>13
<1>15. ASSUME NEW i \in 1 .. n
       PROVE  \E e \in Seq(Nat) : /\ p[i + 1] = Chunk(id, e)
                                  /\ Bytes(c * (i - 1)) \o e = Bytes(IF i = n THEN z ELSE c * i)
  <2>1. CASE i \in 1 .. full
    <3> DEFINE e == SubSeq(d, c * (i - 1) + 1, c * i)
    <3>1. p[i + 1] = Chunk(id, e) /\ e \in Seq(Nat) /\ Bytes(c * (i - 1)) \o e = Bytes(c * i)
      BY <1>8, <1>11, <1>13, <2>1
    <3>2. i = n => c * i = z
      <4>1. i = n => rest = 0 /\ i = full
        BY <1>2, <1>4, <2>1
      <4>2. rest = 0 => c * full = z
        BY <1>2
      <4> QED
        BY <4>1, <4>2
    <3> HIDE DEF e
    <3> QED
      BY <3>1, <3>2
  <2>2. CASE i \notin 1 .. full
    <3> DEFINE e == SubSeq(d, c * full + 1, z)
    <3>1. rest # 0 /\ i = n /\ i - 1 = full /\ i + 1 = full + 2
      BY <1>2, <1>4, <2>2
    <3>2. p[i + 1] = Chunk(id, e) /\ e \in Seq(Nat) /\ Bytes(c * (i - 1)) \o e = Bytes(z)
      BY <1>9, <1>12, <1>13, <3>1
    <3> HIDE DEF e
    <3> QED
      BY <3>1, <3>2
  <2> QED
    BY <2>1, <2>2
<1>16. p[1] = Header(id, n)
  BY <1>10, <1>13
<1>17. ASSUME NEW i \in 1 .. n
       PROVE  Piece(id, z, p[i + 1], i)
  BY <1>15 DEF Piece, c, n
<1> QED
  BY <1>6, <1>13, <1>14, <1>16, <1>17 DEF p, d, n

Content_of(id, z) == IF z \in Nat THEN Pieces(id, Bytes(z)) ELSE <<TextMsg(id)>>

\* w is an item and its text, or its file of z bytes.
IsText(id, w) == Len(w) = 2 /\ w[2] = TextMsg(id)
IsFile(id, z, w) ==
    /\ NumChunks(z) \in Nat /\ Len(w) = NumChunks(z) + 2
    /\ NumChunks(z) = 0 => z = 0
    /\ w[2] = Header(id, NumChunks(z))
    /\ \A i \in 3 .. Len(w) : Piece(id, z, w[i], i - 2)

\* The messages of an item, and how far a deputy is with its file after each of them.
LEMMA WholeOf ==
    ASSUME RelayAssumption, NEW id \in Item, NEW z, NEW w, w = <<ItemMsg(id)>> \o Content_of(id, z)
    PROVE  /\ w \in Seq(Message) /\ Content_of(id, z) \in Seq(Message)
           /\ Len(w) >= 2 /\ Len(w) = 1 + Len(Content_of(id, z))
           /\ w[1] = ItemMsg(id)
           /\ \A i \in 1 .. Len(Content_of(id, z)) : w[i + 1] = Content_of(id, z)[i]
           /\ z \notin Nat => IsText(id, w)
           /\ z \in Nat => IsFile(id, z, w)
<1> DEFINE c == Content_of(id, z)
           n == NumChunks(z)
<1>1. /\ c \in Seq(Message) /\ Len(c) >= 1
      /\ z \notin Nat => Len(c) = 1 /\ c[1] = TextMsg(id)
      /\ z \in Nat => 
            /\ n \in Nat /\ Len(c) = n + 1 /\ (n = 0 => z = 0) /\ c[1] = Header(id, n)
            /\ \A i \in 1 .. n : Piece(id, z, c[i + 1], i)
  <2>1. CASE z \in Nat
    <3>1. c = Pieces(id, Bytes(z))
      BY <2>1 DEF Content_of
    <3> HIDE DEF c, n
    <3>2. /\ n \in Nat /\ (n = 0 => z = 0)
          /\ c \in Seq(Message) /\ Len(c) = n + 1 /\ c[1] = Header(id, n)
          /\ \A i \in 1 .. n : Piece(id, z, c[i + 1], i)
      BY <2>1, <3>1, PiecesOf DEF n
    <3> QED
      BY <2>1, <3>2
  <2>2. CASE z \notin Nat
    <3>1. c = <<TextMsg(id)>> /\ TextMsg(id) \in Message
      BY <2>2, MessageOf DEF Content_of
    <3> HIDE DEF c, n
    <3> QED
      BY <2>2, <3>1
  <2> QED
    BY <2>1, <2>2
<1> HIDE DEF c, n
<1>2. <<ItemMsg(id)>> \in Seq(Message)
  BY MessageOf
<1>3. /\ w \in Seq(Message) /\ Len(w) = 1 + Len(c) /\ w[1] = ItemMsg(id)
      /\ \A i \in 1 .. Len(c) : w[i + 1] = c[i]
  <2> DEFINE h == <<ItemMsg(id)>>
  <2>1. Len(h) = 1 /\ h[1] = ItemMsg(id) /\ w = h \o c
    BY DEF c
  <2> HIDE DEF h
  <2>2. h \in Seq(Message)
    BY <1>2 DEF h
  <2>3. /\ h \o c \in Seq(Message) /\ Len(h \o c) = Len(h) + Len(c)
        /\ \A i \in 1 .. Len(h) : (h \o c)[i] = h[i]
        /\ \A i \in 1 .. Len(c) : (h \o c)[Len(h) + i] = c[i]
    BY <1>1, <2>2, ConcatOf
  <2>4. ASSUME NEW i \in 1 .. Len(c)
        PROVE  w[i + 1] = c[i]
    <3>1. 1 + i = i + 1
      BY <1>1
    <3> QED
      BY <2>1, <2>3, <3>1
  <2>5. w[1] = ItemMsg(id)
    BY <2>1, <2>3
  <2> QED
    BY <2>1, <2>3, <2>4, <2>5
<1>4. Len(w) >= 2 /\ Len(c) \in Nat
  BY <1>1, <1>3
<1>5. w[2] = c[1]
  BY <1>1, <1>3, <1>4
<1>6. ASSUME z \in Nat, NEW i \in 3 .. Len(w)
      PROVE  Piece(id, z, w[i], i - 2)
  <2>1. i - 2 \in 1 .. n /\ i - 1 \in 1 .. Len(c) /\ (i - 2) + 1 = i - 1 /\ (i - 1) + 1 = i
    BY <1>1, <1>3, <1>6
  <2>2. Piece(id, z, c[(i - 2) + 1], i - 2)
    BY <1>1, <1>6, <2>1
  <2>3. w[i] = c[i - 1]
    BY <1>3, <2>1
  <2> QED
    BY <2>1, <2>2, <2>3
<1>7. z \in Nat => Len(w) = n + 2
  BY <1>1, <1>3
<1> QED
  BY <1>1, <1>3, <1>4, <1>5, <1>6, <1>7 DEF c, n, IsText, IsFile

\* The messages of an item, before and after a step.
LEMMA WholeIs ==
    ASSUME NEW id
    PROVE  /\ Whole(id) = <<ItemMsg(id)>> \o Content_of(id, size_of[id])
           /\ Whole(id)' = <<ItemMsg(id)>> \o Content_of(id, size_of'[id])
           /\ Content(id)' = Content_of(id, size_of'[id])
  BY DEF Whole, Content, Content_of
-----------------------------------------------------------------------------
(***************************************************************************)
(* What the actions do to the entries and the todos                        *)
(***************************************************************************)
LEMMA ReadingIs ==
    ASSUME NEW s
    PROVE  /\ Reading(s) <=> \E id \in Item : id[1] = s /\ Reads(id)
           /\ Reading(s)' <=> \E id \in Item : id[1] = s /\ Reads(id)'
  BY DEF Reading, Reads, Resuming

\* The kinds of deputy and main thread steps that a proof tells apart.
Quiet == UNCHANGED <<source, polled, main, deputy, todos>>
Peer == UNCHANGED <<polled, main, deputy, todos>> /\ eof \subseteq eof'
Moves ==    \* the main thread goes from one part of its loop to the next
    /\ UNCHANGED <<source, polled, deputy, todos, fd, curr>>
    /\ \/ mpc' = mpc
       \/ mpc \notin Relaying /\ mpc' \in {"poll", "idle", "todos"}

\* What do_todos takes from the list is a todo, and the others stay.
LEMMA TodoOf ==
    ASSUME Types, todos # << >>, todos' = Tail(todos)
    PROVE  /\ Head(todos) \in {"resume", "callback"} \X Item
           /\ todos' \in Seq({"resume", "callback"} \X Item)
           /\ \A x : Contains(todos, x) <=> x = Head(todos) \/ Contains(todos, x)'
           /\ \A i \in 1 .. Len(todos') : i + 1 \in 2 .. Len(todos) /\ todos'[i] = todos[i + 1]
<1> DEFINE T == {"resume", "callback"} \X Item
<1>1. todos \in Seq(T)
  BY DEF Types, ServerTypes
<1> HIDE DEF T
<1>2. /\ Head(todos) = todos[1] /\ Len(todos) > 0 /\ Head(todos) \in T /\ Len(todos) \in Nat
      /\ todos' \in Seq(T) /\ Len(todos') = Len(todos) - 1
      /\ \A i \in 1 .. Len(todos) - 1 : todos'[i] = todos[i + 1]
  BY <1>1, TailOf
<1>3. \A i \in 1 .. Len(todos') : i + 1 \in 2 .. Len(todos) /\ todos'[i] = todos[i + 1]
  BY <1>2
<1>4. ASSUME NEW x
      PROVE  Contains(todos, x) <=> x = Head(todos) \/ Contains(todos, x)'
  <2>1. ASSUME NEW i \in 1 .. Len(todos), todos[i] = x
        PROVE  x = Head(todos) \/ \E j \in 1 .. Len(todos') : todos'[j] = x
    <3>1. CASE i = 1
      BY <1>2, <2>1, <3>1
    <3>2. CASE i # 1
      <4>1. i - 1 \in 1 .. Len(todos') /\ i - 1 \in 1 .. Len(todos) - 1 /\ (i - 1) + 1 = i
        BY <1>2, <3>2
      <4>2. todos'[i - 1] = x
        BY <1>2, <2>1, <4>1
      <4> QED
        BY <4>1, <4>2
    <3> QED
      BY <3>1, <3>2
  <2>2. ASSUME NEW j \in 1 .. Len(todos'), todos'[j] = x
        PROVE  \E i \in 1 .. Len(todos) : todos[i] = x
    BY <1>2, <1>3, <2>2
  <2>3. 1 \in 1 .. Len(todos)
    BY <1>2
  <2> QED
    BY <1>2, <2>1, <2>2, <2>3 DEF Contains
<1> QED
  BY <1>2, <1>3, <1>4 DEF T

\* What add_todo appends is in the list, behind the others.
LEMMA AddTodoOf ==
    ASSUME Types, NEW e \in {"resume", "callback"} \X Item, todos' = Append(todos, e)
    PROVE  /\ todos' \in Seq({"resume", "callback"} \X Item)
           /\ \A x : Contains(todos, x)' <=> x = e \/ Contains(todos, x)
           /\ Len(todos) \in Nat /\ Len(todos') = Len(todos) + 1 /\ todos'[Len(todos) + 1] = e
           /\ \A i \in 1 .. Len(todos) : todos'[i] = todos[i]
<1> DEFINE T == {"resume", "callback"} \X Item
<1>1. todos \in Seq(T) /\ Len(todos) \in Nat
  BY DEF Types, ServerTypes
<1> HIDE DEF T
<1>2. /\ todos' \in Seq(T) /\ Len(todos') = Len(todos) + 1 /\ todos'[Len(todos) + 1] = e
      /\ \A i \in 1 .. Len(todos) : todos'[i] = todos[i]
  BY <1>1, AppendOf DEF T
<1>3. \A i \in 1 .. Len(todos') : i \in 1 .. Len(todos) \/ i = Len(todos) + 1
  BY <1>1, <1>2
<1>4. \A i \in 1 .. Len(todos) : i \in 1 .. Len(todos')
  BY <1>1, <1>2
<1>5. Len(todos) + 1 \in 1 .. Len(todos')
  BY <1>1, <1>2
<1> QED
  BY <1>1, <1>2, <1>3, <1>4, <1>5 DEF Contains, T

\* Where the entries are that count counts.
LEMMA EntriesOf ==
    ASSUME Types
    PROVE  /\ DOMAIN pollfds = 1 .. Len(pollfds) /\ Len(pollfds) \in Nat /\ count \in Nat
           /\ 1 .. count \subseteq DOMAIN pollfds
           /\ \A i \in DOMAIN pollfds : pollfds[i] \in Entry /\ pollfds[i].fd \in Int
           /\ Entries \in Seq(Entry) /\ Len(Entries) = count
           /\ \A i \in 1 .. count : Entries[i] = pollfds[i]
<1>1. /\ pollfds \in Seq(Entry) /\ count \in Nat /\ count <= Len(pollfds)
      /\ DOMAIN pollfds = 1 .. Len(pollfds) /\ Len(pollfds) \in Nat
      /\ \A i \in DOMAIN pollfds : pollfds[i] \in Entry
  <2>1. pollfds \in Seq(Entry) /\ count \in 0 .. Len(pollfds)
    BY DEF Types, ServerTypes
  <2> QED
    BY <2>1, Seqs
<1>2. /\ SubSeq(pollfds, 1, count) \in Seq(Entry)
      /\ Len(SubSeq(pollfds, 1, count)) = IF 1 <= count THEN count - 1 + 1 ELSE 0
      /\ \A i \in 1 .. count - 1 + 1 : SubSeq(pollfds, 1, count)[i] = pollfds[1 + i - 1]
  <2>1. \A i \in 1 .. count : pollfds[i] \in Entry
    BY <1>1
  <2> QED
    BY <1>1, <2>1, SubSeqProperties
<1>3. \A i \in 1 .. count : Entries[i] = pollfds[i]
  <2>1. count - 1 + 1 = count /\ \A i \in 1 .. count : 1 + i - 1 = i
    BY <1>1
  <2> QED
    BY <1>2, <2>1 DEF Entries
<1>4. Entries \in Seq(Entry) /\ Len(Entries) = count
  BY <1>1, <1>2 DEF Entries
<1>5. \A i \in DOMAIN pollfds : pollfds[i].fd \in Int
  BY <1>1 DEF Entry
<1> QED
  BY <1>1, <1>3, <1>4, <1>5

\* What a change of one field of an entry leaves alone.
LEMMA EntryOf ==
    ASSUME NEW e \in Entry
    PROVE  /\ \A f \in Int : /\ [e EXCEPT !.fd = f] \in Entry /\ [e EXCEPT !.fd = f].fd = f
                             /\ [e EXCEPT !.fd = f].rev = e.rev
           /\ \A r \in SUBSET {"IN", "RDHUP"} :
                 /\ [e EXCEPT !.rev = r] \in Entry /\ [e EXCEPT !.rev = r].fd = e.fd
                 /\ [e EXCEPT !.rev = r].rev = r
  BY DEF Entry

\* The entries that are not negated stay, once each; the memory behind them as well.
LEMMA PruneOf ==
    ASSUME RelayAssumption, Types, NEW t, Prune(t)
    PROVE  /\ pollfds' \in Seq(Entry) /\ count' \in 0 .. Len(pollfds')
           /\ Len(pollfds') = Len(pollfds) /\ count' <= count
           /\ \A s \in Source : Single => \A i, j \in Where(s)' : i = j
           /\ \A f \in Descriptor : Where(f)' = {} <=> Where(f) = {}
           /\ \A i \in 1 .. count' :
                 pollfds'[i].fd > 0 /\ \E j \in 1 .. count : pollfds'[i] = pollfds[j]
           /\ \A i \in DOMAIN pollfds : i > count' => pollfds'[i] = pollfds[i]
<1> DEFINE kept == {i \in 1 .. count : pollfds[i].fd > 0}
<1>1. /\ DOMAIN pollfds = 1 .. Len(pollfds) /\ Len(pollfds) \in Nat /\ count \in Nat
      /\ 1 .. count \subseteq DOMAIN pollfds /\ count <= Len(pollfds)
      /\ \A i \in DOMAIN pollfds : pollfds[i] \in Entry /\ pollfds[i].fd \in Int
      /\ pollfds \in Seq(Entry)
  BY EntriesOf DEF Types, ServerTypes
<1>2. kept \in SUBSET DOMAIN pollfds /\ Kept = Picked(pollfds, kept)
  BY <1>1 DEF Kept
<1> DEFINE n == Cardinality(kept)
<1>3. /\ Kept \in Seq(Entry) /\ Len(Kept) = n /\ n \in 0 .. Len(pollfds)
      /\ \E at : PicksAt(Kept, pollfds, kept, at)
  <2> DEFINE p == Picked(pollfds, kept)
  <2>1. pollfds \in Seq(Entry) /\ kept \in SUBSET DOMAIN pollfds /\ Kept = p
    BY <1>1, <1>2
  <2> HIDE DEF kept
  <2>2. /\ p \in Seq(Entry) /\ Len(p) = n /\ n \in 0 .. Len(pollfds)
        /\ \E at : PicksAt(p, pollfds, kept, at)
    BY <2>1, PickedOf
  <2> HIDE DEF p, n
  <2> QED
    BY <2>1, <2>2
<1>4. PICK at :
            /\ at \in [1 .. n -> kept]
            /\ \A k \in 1 .. n : Kept[k] = pollfds[at[k]]
            /\ \A k, l \in 1 .. n : at[k] = at[l] => k = l
            /\ \A i \in kept : \E k \in 1 .. n : at[k] = i
  BY <1>3 DEF PicksAt
<1>5. n \in Nat /\ n <= count
  <2>1. IsFiniteSet(1 .. count) /\ Cardinality(1 .. count) = count
    BY <1>1, Counted
  <2>2. kept \in SUBSET (1 .. count)
    OBVIOUS
  <2> HIDE DEF kept
  <2>3. n <= Cardinality(1 .. count)
    BY <2>1, <2>2, FS_Subset
  <2>4. n \in Nat
    BY <1>1, <1>3
  <2> QED
    BY <2>1, <2>3, <2>4
<1> HIDE DEF n
<1> DEFINE rest == SubSeq(pollfds, n + 1, Len(pollfds))
<1>6. /\ rest \in Seq(Entry) /\ Len(rest) = Len(pollfds) - n
      /\ \A i \in 1 .. Len(pollfds) - n : rest[i] = pollfds[n + i]
  <2>1. \A i \in n + 1 .. Len(pollfds) : pollfds[i] \in Entry
    BY <1>1, <1>5
  <2>2. /\ rest \in Seq(Entry)
        /\ Len(rest) = IF n + 1 <= Len(pollfds) THEN Len(pollfds) - (n + 1) + 1 ELSE 0
        /\ \A i \in 1 .. Len(pollfds) - (n + 1) + 1 : rest[i] = pollfds[n + 1 + i - 1]
    BY <1>1, <1>5, <2>1, SubSeqProperties
  <2> HIDE DEF rest
  <2>3. Len(rest) = Len(pollfds) - n /\ Len(pollfds) - (n + 1) + 1 = Len(pollfds) - n
    BY <1>1, <1>5, <2>2
  <2>4. \A i \in 1 .. Len(pollfds) - n : n + 1 + i - 1 = n + i
    BY <1>1, <1>5
  <2> QED
    BY <2>2, <2>3, <2>4
<1>7. pollfds' = Kept \o rest /\ count' = n
  BY <1>3 DEF Prune
<1> HIDE DEF rest
<1>8. /\ pollfds' \in Seq(Entry) /\ Len(pollfds') = n + (Len(pollfds) - n)
      /\ \A i \in 1 .. n : pollfds'[i] = Kept[i]
      /\ \A i \in 1 .. Len(pollfds) - n : pollfds'[n + i] = rest[i]
  <2>1. /\ Kept \o rest \in Seq(Entry) /\ Len(Kept \o rest) = Len(Kept) + Len(rest)
        /\ \A i \in 1 .. Len(Kept) : (Kept \o rest)[i] = Kept[i]
        /\ \A i \in 1 .. Len(rest) : (Kept \o rest)[Len(Kept) + i] = rest[i]
    <3>1. Kept \in Seq(Entry) /\ rest \in Seq(Entry)
      BY <1>3, <1>6
    <3> QED
      BY <3>1, ConcatOf
  <2> QED
    BY <1>3, <1>6, <1>7, <2>1
<1>9. Len(pollfds') = Len(pollfds)
  BY <1>1, <1>5, <1>8
<1>10. \A i \in 1 .. n : at[i] \in 1 .. count /\ pollfds'[i] = pollfds[at[i]] /\ pollfds'[i].fd > 0
  BY <1>4, <1>8
<1>11. ASSUME NEW i \in DOMAIN pollfds, i > n
       PROVE  pollfds'[i] = pollfds[i]
  <2>1. i - n \in 1 .. Len(pollfds) - n /\ n + (i - n) = i
    BY <1>1, <1>5, <1>11
  <2> QED
    BY <1>6, <1>8, <2>1
<1>12. ASSUME NEW s \in Descriptor
       PROVE  /\ Single /\ s \in Source => \A i, j \in Where(s)' : i = j
              /\ Where(s)' = {} <=> Where(s) = {}
  <2>1. \A i \in Where(s)' : i \in 1 .. n /\ at[i] \in Where(s)
    BY <1>7, <1>10 DEF Where
  <2>2. Single /\ s \in Source => \A i, j \in Where(s)' : i = j
    BY <1>4, <2>1 DEF Single
  <2>3. ASSUME NEW i \in Where(s)
        PROVE  Where(s)' # {}
    <3>1. i \in kept
      BY Descriptors DEF Where
    <3>2. PICK k \in 1 .. n : at[k] = i
      BY <1>4, <3>1
    <3>3. k \in Where(s)'
      BY <1>7, <1>10, <3>2 DEF Where
    <3> QED
      BY <3>3
  <2> QED
    BY <2>1, <2>2, <2>3
<1>13. \A i \in 1 .. n : pollfds'[i].fd > 0 /\ \E j \in 1 .. count : pollfds'[i] = pollfds[j]
  BY <1>10
<1>14. n \in 0 .. Len(pollfds')
  BY <1>1, <1>5, <1>9
<1> QED
  BY <1>5, <1>7, <1>8, <1>9, <1>11, <1>12, <1>13, <1>14, Descriptors
-----------------------------------------------------------------------------
(***************************************************************************)
(* The entries                                                             *)
(***************************************************************************)
Table == Single /\ Apart /\ Listed /\ ReadOnce /\ Marked

\* A step that leaves entries, deputies and todos alone keeps what is said of them,
\* also when a source goes.
LEMMA TableSame ==
    ASSUME Table, UNCHANGED <<pollfds, count, mistaken, dpc, todos>>, eof \subseteq eof'
    PROVE  Table' /\ \A s : Where(s)' = Where(s) /\ (Reading(s)' <=> Reading(s))
<1>1. \A s : Where(s)' = Where(s)
  BY DEF Where
<1>2. \A id : (Resuming(id)' <=> Resuming(id)) /\ (Reads(id)' <=> Reads(id))
  BY DEF Resuming, Reads, Contains
<1>3. \A s : Reading(s)' <=> Reading(s)
  BY <1>2, ReadingIs
<1>4. Single' /\ Apart' /\ Listed'
  BY <1>1, <1>3 DEF Table, Single, Apart, Listed
<1>5. ReadOnce'
  BY <1>2 DEF Table, ReadOnce
<1>6. Marked'
  BY DEF Table, Marked
<1> QED
  BY <1>1, <1>3, <1>4, <1>5, <1>6 DEF Table

\* The entries change, and those who read stay the same.
LEMMA TableEntries ==
    ASSUME Table, UNCHANGED <<dpc, todos, eof>>, Marked', mistaken \in BOOLEAN,
           mistaken => mistaken',
           \A s \in Source : \A i, j \in Where(s)' : i = j,
           \A s \in Source : Where(s) = {} => Where(s)' = {},
           \A s \in Source : Where(s)' = {} => Where(s) = {} \/ s \in eof \/ mistaken'
    PROVE  Table' /\ \A s : Reading(s)' <=> Reading(s)
<1>1. \A id : (Resuming(id)' <=> Resuming(id)) /\ (Reads(id)' <=> Reads(id))
  BY DEF Resuming, Reads, Contains
<1>2. \A s : Reading(s)' <=> Reading(s)
  BY <1>1, ReadingIs
<1>3. Single' /\ Apart' /\ Listed'
  BY <1>2 DEF Table, Single, Apart, Listed
<1>4. ReadOnce'
  BY <1>1 DEF Table, ReadOnce
<1> QED
  BY <1>2, <1>3, <1>4 DEF Table

\* Who reads changes, but not from which sources anybody does.
LEMMA TableReaders ==
    ASSUME Table, UNCHANGED <<pollfds, count, mistaken, eof>>, ReadOnce',
           \A id \in Item : Reads(id)' <=> Reads(id)
    PROVE  Table' /\ (\A s : Where(s)' = Where(s)) /\ \A s : Reading(s)' <=> Reading(s)
<1>1. \A s : Where(s)' = Where(s)
  BY DEF Where
<1>2. \A s : Reading(s)' <=> Reading(s)
  BY ReadingIs
<1>3. Single' /\ Apart' /\ Listed'
  BY <1>1, <1>2 DEF Table, Single, Apart, Listed
<1>4. Marked'
  BY DEF Table, Marked
<1> QED
  BY <1>1, <1>2, <1>3, <1>4 DEF Table

\* Polls is about the table of entries, and about what the main thread has in hand.
LEMMA PollsParts == Polls <=> Table /\ Chosen
  BY DEF Polls, Table

\* A source that sends, or goes, changes nothing in the table.
LEMMA PollsPeer ==
    ASSUME Polls, Peer
    PROVE  Polls'
<1>1. Table' /\ \A s : Where(s)' = Where(s) /\ (Reading(s)' <=> Reading(s))
  BY TableSame, PollsParts DEF Peer, polled, deputy
<1>2. Chosen'
  BY <1>1, PollsParts DEF Peer, polled, main, Chosen
<1> QED
  BY <1>1, <1>2 DEF Polls, Table

\* Neither do the steps that move only sent messages and the places of threads.
LEMMA PollsMoves ==
    ASSUME Polls, Moves
    PROVE  Polls'
<1>1. Table' /\ \A s : Where(s)' = Where(s) /\ (Reading(s)' <=> Reading(s))
  BY TableSame, PollsParts DEF Moves, polled, deputy, source
<1>2. Chosen'
  BY <1>1, PollsParts DEF Moves, polled, source, Chosen, Relaying
<1> QED
  BY <1>1, <1>2 DEF Polls, Table

\* prunePollFds, of any thread, keeps each entry that is not negated once.
LEMMA PollsPrune ==
    ASSUME RelayAssumption, Types, Polls, NEW t, Prune(t)
    PROVE  Polls'
<1>1. /\ pollfds' \in Seq(Entry) /\ count' \in 0 .. Len(pollfds')
      /\ Len(pollfds') = Len(pollfds) /\ count' <= count
      /\ \A s \in Source : Single => \A i, j \in Where(s)' : i = j
      /\ \A f \in Descriptor : Where(f)' = {} <=> Where(f) = {}
      /\ \A i \in 1 .. count' : pollfds'[i].fd > 0 /\ \E j \in 1 .. count : pollfds'[i] = pollfds[j]
      /\ \A i \in DOMAIN pollfds : i > count' => pollfds'[i] = pollfds[i]
  BY PruneOf
<1>2. UNCHANGED <<dpc, todos, eof, mistaken, start, mpc, fd, curr>>
  BY DEF Prune, Idling, main, source, deputy
<1>3. /\ DOMAIN pollfds = 1 .. Len(pollfds) /\ Len(pollfds) \in Nat /\ count \in Nat
      /\ 1 .. count \subseteq DOMAIN pollfds /\ DOMAIN pollfds' = DOMAIN pollfds /\ count' \in Nat
      /\ \A i \in DOMAIN pollfds : pollfds[i].fd \in Int
  BY <1>1, EntriesOf
<1>4. \A i \in DOMAIN pollfds' : \E j \in DOMAIN pollfds : pollfds'[i] = pollfds[j]
  <2>1. \A i \in DOMAIN pollfds : i \in 1 .. count' \/ i > count'
    BY <1>3
  <2> QED
    BY <1>1, <1>3, <2>1
<1>5. Marked'
  BY <1>2, <1>4 DEF Polls, Marked
<1>6. Table' /\ \A s : Reading(s)' <=> Reading(s)
  <2>1. mistaken \in BOOLEAN
    BY DEF Types, ServerTypes
  <2>2. Table /\ Single
    BY DEF Polls, Table
  <2> QED
    BY <1>1, <1>2, <1>5, <2>1, <2>2, Descriptors, TableEntries
<1>7. Chosen'
  <2>1. ASSUME mpc = "recv"
        PROVE  /\ start \in DOMAIN pollfds'
               /\ \E f \in Descriptor : pollfds'[start].fd = f /\ Where(f)' # {}
    <3>1. PICK r \in Descriptor : start \in DOMAIN pollfds /\ pollfds[start].fd = r /\ Where(r) # {}
      BY <2>1 DEF Polls, Chosen
    <3>2. CASE start \in 1 .. count'
      <4>1. pollfds'[start].fd \in Descriptor
        <5>1. PICK j \in 1 .. count : pollfds'[start] = pollfds[j] /\ pollfds'[start].fd > 0
          BY <1>1, <3>2
        <5> QED
          BY <1>3, <5>1 DEF Polls, Marked
      <4>2. PICK s \in Descriptor : pollfds'[start].fd = s
        BY <4>1
      <4>3. start \in Where(s)'
        BY <3>2, <4>2 DEF Where
      <4> QED
        BY <1>3, <3>1, <4>2, <4>3
    <3>3. CASE start \notin 1 .. count'
      <4>1. start > count' /\ pollfds'[start] = pollfds[start]
        BY <1>1, <1>3, <3>1, <3>3
      <4> QED
        BY <1>1, <1>3, <3>1, <4>1
    <3> QED
      BY <3>2, <3>3
  <2>2. mpc = "negate" => start \in DOMAIN pollfds' /\ fd \in eof
    BY <1>3 DEF Polls, Chosen
  <2>3. mpc \in Relaying => curr \in Item /\ fd = curr[1] /\ ~Reading(fd)
    BY DEF Polls, Chosen
  <2> QED
    BY <1>2, <1>6, <2>1, <2>2, <2>3 DEF Chosen
<1> QED
  BY <1>6, <1>7 DEF Polls, Table

\* next_msg_now chooses the entry of a source that is polled.
LEMMA PollsPollSome ==
    ASSUME RelayAssumption, Types, Polls, PollSome
    PROVE  Polls' /\ pollfds' \in Seq(Entry) /\ Len(pollfds') = count /\ start' \in 1 .. count
<1>1. /\ DOMAIN pollfds = 1 .. Len(pollfds) /\ Len(pollfds) \in Nat /\ count \in Nat
      /\ 1 .. count \subseteq DOMAIN pollfds
      /\ \A i \in DOMAIN pollfds : pollfds[i] \in Entry /\ pollfds[i].fd \in Int
  BY EntriesOf
<1>2. /\ pollfds' = [i \in 1 .. count |-> [pollfds[i] EXCEPT !.rev = Revents(pollfds[i].fd)]]
      /\ mpc = "poll" /\ mpc' = "recv"
      /\ UNCHANGED <<dpc, todos, eof, mistaken, count, fd, curr>>
  BY DEF PollSome, MainAt, Goto, Aside, deputy
<1>3. \A f : Revents(f) \in SUBSET {"IN", "RDHUP"} /\ ("RDHUP" \in Revents(f) => f \in eof)
  BY DEF Revents
<1> DEFINE e(i) == [pollfds[i] EXCEPT !.rev = Revents(pollfds[i].fd)]
<1>4. ASSUME NEW i \in 1 .. count
       PROVE  e(i) \in Entry /\ e(i).fd = pollfds[i].fd /\ e(i).rev = Revents(pollfds[i].fd)
  <2>1. pollfds[i] \in Entry /\ Revents(pollfds[i].fd) \in SUBSET {"IN", "RDHUP"}
    BY <1>1, <1>3
  <2> QED
    BY <2>1, EntryOf
<1>5. pollfds' = [i \in 1 .. count |-> e(i)]
  BY <1>2
<1> HIDE DEF e
<1>6. \A i \in 1 .. count : /\ pollfds'[i] \in Entry /\ pollfds'[i].fd = pollfds[i].fd
                            /\ pollfds'[i].rev = Revents(pollfds[i].fd)
  BY <1>4, <1>5
<1>7. pollfds' \in Seq(Entry) /\ Len(pollfds') = count /\ DOMAIN pollfds' = 1 .. count
  BY <1>1, <1>4, <1>5
<1>8. \A s : Where(s)' = Where(s)
  BY <1>2, <1>6 DEF Where
<1>9. Marked'
  BY <1>1, <1>2, <1>3, <1>6, <1>7, SMTT(30) DEF Polls, Marked
<1>10. Table' /\ \A s : Reading(s)' <=> Reading(s)
  <2>1. mistaken \in BOOLEAN
    BY DEF Types, ServerTypes
  <2>2. Table
    BY DEF Polls, Table
  <2>3. \A s \in Source : \A i, j \in Where(s)' : i = j
    BY <1>8 DEF Polls, Single
  <2> QED
    BY <1>2, <1>8, <1>9, <2>1, <2>2, <2>3, TableEntries
<1>11. start' \in 1 .. count /\ Revents(pollfds[start'].fd) # {}
  BY DEF PollSome, Waits
<1>12. \E f \in Descriptor : pollfds'[start'].fd = f /\ Where(f)' # {}
  <2>1. pollfds[start'].fd \in Source
    BY <1>11 DEF Revents
  <2>2. PICK f \in Descriptor : pollfds'[start'].fd = f
    BY <1>6, <1>11, <2>1, Descriptors
  <2>3. start' \in Where(f)'
    BY <1>2, <1>11, <2>2 DEF Where
  <2> QED
    BY <2>2, <2>3
<1>13. Chosen'
  BY <1>2, <1>7, <1>11, <1>12 DEF Chosen, Relaying
<1> QED
  BY <1>7, <1>10, <1>11, <1>13 DEF Polls, Table

\* The main thread negates the entry it chose, or another's after a prune: then mistaken.
LEMMA PollsNegate ==
    ASSUME RelayAssumption, Types, Polls, Negate
    PROVE  Polls' /\ pollfds' \in Seq(Entry) /\ Len(pollfds') = Len(pollfds)
<1>1. /\ DOMAIN pollfds = 1 .. Len(pollfds) /\ Len(pollfds) \in Nat /\ count \in Nat
      /\ 1 .. count \subseteq DOMAIN pollfds /\ pollfds \in Seq(Entry)
      /\ \A i \in DOMAIN pollfds : pollfds[i] \in Entry /\ pollfds[i].fd \in Int
  BY EntriesOf DEF Types, ServerTypes
<1>2. /\ pollfds' = [pollfds EXCEPT ![start].fd = -fd]
      /\ mistaken' = (mistaken \/ pollfds[start].fd # fd)
      /\ mpc = "negate" /\ mpc' = "poll"
      /\ UNCHANGED <<dpc, todos, eof, count, fd, curr>>
  BY DEF Negate, MainAt, Goto, Aside, deputy
<1>3. start \in DOMAIN pollfds /\ fd \in eof /\ fd \in Source /\ fd \in Nat /\ fd > 0
  <2>1. start \in DOMAIN pollfds /\ fd \in eof /\ eof \subseteq Source
    BY <1>2 DEF Polls, Chosen, Types, PeerTypes
  <2> QED
    BY <2>1, Items
<1>4. /\ DOMAIN pollfds' = DOMAIN pollfds
      /\ pollfds'[start].fd = -fd /\ pollfds'[start].fd < 0
      /\ \A i \in DOMAIN pollfds : i # start => pollfds'[i] = pollfds[i]
      /\ pollfds' \in Seq(Entry) /\ Len(pollfds') = Len(pollfds)
  <2> DEFINE e == [pollfds[start] EXCEPT !.fd = -fd]
  <2>1. pollfds' = [pollfds EXCEPT ![start] = e]
    BY <1>2
  <2>2. -fd \in Int /\ -fd < 0
    BY <1>3
  <2>3. e \in Entry /\ e.fd = -fd
    BY <1>1, <1>3, <2>2, EntryOf
  <2> HIDE DEF e
  <2> QED
    BY <1>1, <1>3, <2>1, <2>2, <2>3
<1>5. pollfds' \in Seq(Entry) /\ Len(pollfds') = Len(pollfds)
  BY <1>4
<1>6. \A s \in Source : s > 0
  BY Items
<1>7. \A s \in Source : /\ Where(s)' \subseteq Where(s)
                        /\ \A i \in Where(s) : i # start => i \in Where(s)'
  BY <1>1, <1>2, <1>3, <1>4, <1>6 DEF Where
<1>8. Marked'
  BY <1>1, <1>2, <1>3, <1>4 DEF Polls, Marked
<1>9. ASSUME NEW s \in Source, Where(s)' = {}
      PROVE  Where(s) = {} \/ s \in eof \/ mistaken'
  <2>1. \A i \in Where(s) : i = start
    BY <1>7, <1>9
  <2>2. \A i \in Where(s) : pollfds[start].fd = s
    BY <2>1 DEF Where
  <2>3. Where(s) # {} => pollfds[start].fd = s
    BY <2>2
  <2>4. pollfds[start].fd = fd \/ mistaken'
    BY <1>2
  <2> QED
    BY <1>3, <2>3, <2>4
<1>10. Table' /\ \A s : Reading(s)' <=> Reading(s)
  <2>1. mistaken \in BOOLEAN
    BY DEF Types, ServerTypes
  <2>2. Table
    BY DEF Polls, Table
  <2>3. \A s \in Source : \A i, j \in Where(s)' : i = j
    BY <1>7 DEF Polls, Single
  <2>4. mistaken => mistaken'
    BY <1>2
  <2> QED
    BY <1>2, <1>7, <1>8, <1>9, <2>1, <2>2, <2>3, <2>4, TableEntries
<1>11. Chosen'
  BY <1>2 DEF Chosen, Relaying
<1> QED
  BY <1>5, <1>10, <1>11 DEF Polls, Table

\* An item is received from a source that no deputy reads from.
LEMMA PollsRecvItem ==
    ASSUME Polls, NEW f \in Source, RecvItem(f),
           NEW id \in Item, id[1] = f, Head(in[f]) = ItemMsg(id)
    PROVE  Polls' /\ mpc' = "item" /\ curr' = id /\ fd' = f /\ over' = over
           /\ mpc = "recv" /\ ~Reading(f)
<1>1. Type(Head(in[f])) = "item" /\ Of(Head(in[f])) = id
  BY DEF ItemMsg, Type, Of
<1>2. /\ mpc = "recv" /\ f = pollfds[start].fd /\ fd' = f
      /\ UNCHANGED <<pollfds, count, mistaken, dpc, todos, eof>>
  BY DEF RecvItem, MainAt, Recv, Aside, polled, deputy
<1>3. mpc' = "item" /\ curr' = id /\ over' = over
  BY <1>1 DEF RecvItem, Goto
<1>4. Table' /\ \A s : Where(s)' = Where(s) /\ (Reading(s)' <=> Reading(s))
  BY <1>2, TableSame, PollsParts
<1>5. ~Reading(f)
  <2>1. Where(f) # {}
    BY <1>2 DEF Polls, Chosen
  <2> QED
    BY <2>1 DEF Polls, Apart
<1>6. Chosen'
  BY <1>2, <1>3, <1>4, <1>5 DEF Chosen, Relaying
<1> QED
  BY <1>2, <1>3, <1>4, <1>5, <1>6 DEF Polls, Table

\* When recv finds nothing the entries stay; a source that hung up is to be negated.
LEMMA PollsRecvNothing ==
    ASSUME RelayAssumption, Polls, NEW f \in Descriptor, RecvNothing(f)
    PROVE  Polls' /\ mpc = "recv" /\ mpc' \in {"negate", "poll"}
<1>1. /\ mpc = "recv" /\ f = pollfds[start].fd /\ fd' = f
      /\ mpc' = IF "RDHUP" \in pollfds[start].rev THEN "negate" ELSE "poll"
      /\ UNCHANGED <<pollfds, count, start, mistaken, dpc, todos, eof>>
  BY DEF RecvNothing, MainAt, Recv, Goto, Aside, polled, deputy
<1>2. Table' /\ \A s : Where(s)' = Where(s) /\ (Reading(s)' <=> Reading(s))
  BY <1>1, TableSame, PollsParts
<1>3. start \in DOMAIN pollfds
  BY <1>1 DEF Polls, Chosen
<1>4. pollfds[start].fd > 0
  BY <1>1, Descriptors
<1>5. mpc' = "negate" => start \in DOMAIN pollfds /\ f \in eof
  BY <1>1, <1>3, <1>4 DEF Polls, Marked
<1>6. Chosen'
  BY <1>1, <1>5 DEF Chosen, Relaying
<1> QED
  BY <1>1, <1>2, <1>6 DEF Polls, Table

\* connect_to lists the target, and no source.
Lists(q, n) ==
    \/ q = pollfds /\ n = count
    \/ q = Append(Entries, Polling(target)) /\ n = count + 1

LEMMA ListsOf ==
    ASSUME RelayAssumption, Types, Marked, NEW q, NEW n, Lists(q, n)
    PROVE  /\ q \in Seq(Entry) /\ DOMAIN q = 1 .. Len(q) /\ Len(q) \in Nat
           /\ n \in Nat /\ n \in 0 .. Len(q) /\ 1 .. n \subseteq DOMAIN q
           /\ \A i \in DOMAIN q : q[i] \in Entry /\ q[i].fd \in Int
           /\ \A s \in Source : {i \in 1 .. n : q[i].fd = s} = Where(s)
           /\ \A i \in DOMAIN q : q[i].fd > 0 =>
                 /\ q[i].fd \in Descriptor
                 /\ "RDHUP" \in q[i].rev => q[i].fd \in eof
<1>1. /\ DOMAIN pollfds = 1 .. Len(pollfds) /\ Len(pollfds) \in Nat /\ count \in Nat
      /\ 1 .. count \subseteq DOMAIN pollfds
      /\ \A i \in DOMAIN pollfds : pollfds[i] \in Entry /\ pollfds[i].fd \in Int
      /\ Entries \in Seq(Entry) /\ Len(Entries) = count
      /\ \A i \in 1 .. count : Entries[i] = pollfds[i]
  BY EntriesOf
<1>2. CASE q = pollfds /\ n = count
  <2>1. q \in Seq(Entry) /\ n \in 0 .. Len(q)
    BY <1>2 DEF Types, ServerTypes
  <2> QED
    BY <1>1, <1>2, <2>1 DEF Marked, Where
<1>3. CASE q = Append(Entries, Polling(target)) /\ n = count + 1
  <2> DEFINE e == Polling(target)
  <2>1. e \in Entry /\ e.fd = target /\ e.rev = {}
    BY Descriptors DEF Polling, Entry
  <2>2. q = Append(Entries, e)
    BY <1>3
  <2> HIDE DEF e
  <2>3. /\ q \in Seq(Entry) /\ Len(q) = n /\ DOMAIN q = 1 .. n /\ n \in Nat
        /\ \A i \in 1 .. count : q[i] = pollfds[i]
        /\ q[n] = e
    <3>1. /\ Append(Entries, e) \in Seq(Entry) /\ Len(Append(Entries, e)) = Len(Entries) + 1
          /\ \A i \in 1 .. Len(Entries) : Append(Entries, e)[i] = Entries[i]
          /\ Append(Entries, e)[Len(Entries) + 1] = e
      BY <1>1, <2>1, AppendOf
    <3> QED
      BY <1>1, <1>3, <2>2, <3>1
  <2>4. \A i \in 1 .. n : i \in 1 .. count \/ i = n
    BY <1>1, <1>3
  <2>5. ASSUME NEW s \in Source
        PROVE  {i \in 1 .. n : q[i].fd = s} = Where(s)
    <3>1. q[n].fd # s
      BY <2>1, <2>3, Descriptors
    <3>2. 1 .. count \subseteq 1 .. n
      BY <1>1, <1>3
    <3> QED
      BY <2>3, <2>4, <3>1, <3>2 DEF Where
  <2>6. \A i \in 1 .. n : q[i] \in Entry /\ q[i].fd \in Int
    BY <1>1, <2>1, <2>3, <2>4 DEF Entry
  <2>7. \A i \in 1 .. n : q[i].fd > 0 =>
           /\ q[i].fd \in Descriptor
           /\ "RDHUP" \in q[i].rev => q[i].fd \in eof
    BY <1>1, <2>1, <2>3, <2>4, Descriptors DEF Marked
  <2> QED
    BY <2>3, <2>5, <2>6, <2>7
<1> QED
  BY <1>2, <1>3 DEF Lists

LEMMA Sends ==
    ASSUME NEW m, SendMsg(m) \/ SendMsgFails(m)
    PROVE  Lists(pollfds', count') /\ UNCHANGED <<start, mistaken>>
<1>1. CASE SendMsg(m)
  BY <1>1 DEF SendMsg, Connects, Listing, Lists
<1>2. CASE SendMsgFails(m)
  BY <1>2 DEF SendMsgFails, Refuses, Lists
<1> QED
  BY <1>1, <1>2

\* RelayItem and RelayText keep what is said of the entries.
LEMMA PollsRelay ==
    ASSUME RelayAssumption, Types, Polls, UNCHANGED <<mistaken, dpc, todos, eof>>,
           Lists(pollfds', count'),
           \/ mpc \in Relaying /\ mpc' \in Relaying /\ UNCHANGED <<fd, curr>>
           \/ mpc' = "todos"
    PROVE  Polls' /\ pollfds' \in Seq(Entry) /\ count' \in 0 .. Len(pollfds')
<1>1. PICK q, n : q = pollfds' /\ n = count'
  OBVIOUS
<1>2. /\ q \in Seq(Entry) /\ n \in 0 .. Len(q)
      /\ \A s \in Source : {i \in 1 .. n : q[i].fd = s} = Where(s)
      /\ \A i \in DOMAIN q : q[i].fd > 0 =>
            /\ q[i].fd \in Descriptor
            /\ "RDHUP" \in q[i].rev => q[i].fd \in eof
  <2>1. Lists(q, n) /\ Marked
    BY <1>1 DEF Polls
  <2> QED
    BY <2>1, ListsOf
<1>3. Marked'
  BY <1>1, <1>2 DEF Marked
<1>4. \A s \in Source : Where(s)' = Where(s)
  BY <1>1, <1>2 DEF Where
<1>5. Table' /\ \A s : Reading(s)' <=> Reading(s)
  <2>1. mistaken \in BOOLEAN
    BY DEF Types, ServerTypes
  <2>2. Table
    BY DEF Polls, Table
  <2>3. \A s \in Source : \A i, j \in Where(s)' : i = j
    BY <1>4 DEF Polls, Single
  <2> QED
    BY <1>3, <1>4, <2>1, <2>2, <2>3, TableEntries
<1>6. mpc \in Relaying => curr \in Item /\ fd = curr[1] /\ ~Reading(fd)
  BY DEF Polls, Chosen
<1>7. CASE mpc \in Relaying /\ mpc' \in Relaying /\ UNCHANGED <<fd, curr>>
  BY <1>1, <1>2, <1>5, <1>6, <1>7 DEF Polls, Table, Chosen, Relaying
<1>8. CASE mpc' = "todos"
  BY <1>1, <1>2, <1>5, <1>8 DEF Polls, Table, Chosen, Relaying
<1> QED
  BY <1>7, <1>8

\* net_suspend negates the one entry of the source as the deputy begins to read.
LEMMA PollsRelayFile ==
    ASSUME RelayAssumption, Types, Polls, RelayFile
    PROVE  Polls' /\ pollfds' \in Seq(Entry) /\ count' \in 0 .. Len(pollfds')
<1>1. PICK q, n : Lists(q, n) /\ pollfds' = Suspended(q) /\ count' = n
  <2>1. CASE Connects /\ pollfds' = Suspended(Listing)
    <3>1. Lists(Listing, count')
      BY <2>1 DEF Connects, Listing, Lists
    <3> QED
      BY <2>1, <3>1
  <2>2. CASE Refuses /\ pollfds' = Suspended(pollfds)
    BY <2>2 DEF Refuses, Lists
  <2> QED
    BY <2>1, <2>2 DEF RelayFile
<1>2. /\ mpc = "file" /\ mpc' = "todos"
      /\ dpc' = [dpc EXCEPT ![curr] = "header"]
      /\ pollfds' = IF Where(fd) = {} THEN q ELSE [q EXCEPT ![Min(Where(fd))].fd = -fd]
      /\ UNCHANGED <<todos, eof, mistaken>>
  BY <1>1 DEF RelayFile, MainAt, Goto, Suspended
<1>3. curr \in Item /\ fd = curr[1] /\ ~Reading(fd) /\ fd \in Source /\ fd \in Nat /\ fd > 0
  <2>1. curr \in Item /\ fd = curr[1] /\ ~Reading(fd)
    BY <1>2 DEF Polls, Chosen, Relaying
  <2> QED
    BY <2>1, Items
<1>4. /\ DOMAIN q = 1 .. Len(q) /\ Len(q) \in Nat /\ n \in Nat /\ n \in 0 .. Len(q)
      /\ 1 .. n \subseteq DOMAIN q /\ q \in Seq(Entry)
      /\ \A i \in DOMAIN q : q[i] \in Entry /\ q[i].fd \in Int
      /\ \A s \in Source : {i \in 1 .. n : q[i].fd = s} = Where(s)
      /\ \A i \in DOMAIN q : q[i].fd > 0 =>
            /\ q[i].fd \in Descriptor
            /\ "RDHUP" \in q[i].rev => q[i].fd \in eof
      /\ dpc \in [Item -> {"none", "header", "chunk", "resume", "callback", "ended"}]
  <2>1. Lists(q, n) /\ Marked
    BY <1>1 DEF Polls
  <2>2. dpc \in [Item -> {"none", "header", "chunk", "resume", "callback", "ended"}]
    BY DEF Types, ServerTypes
  <2> QED
    BY <2>1, <2>2, ListsOf
<1> DEFINE W == {i \in 1 .. n : q[i].fd = fd}
<1>15. W = Where(fd) /\ \A i \in W : i \in DOMAIN q /\ q[i].fd = fd
  BY <1>3, <1>4
<1> HIDE DEF W
<1>16. ASSUME W # {}
      PROVE  Min(W) \in W /\ \A i \in W : i = Min(W)
  <2>1. PICK i \in W : i \in Nat /\ \A j \in W : j = i
    BY <1>3, <1>4, <1>15, <1>16 DEF Polls, Single
  <2>2. i \in W /\ \A j \in W : i <= j
    BY <2>1
  <2>3. Min(W) \in W
    BY <2>2 DEF Min
  <2> QED
    BY <2>1, <2>3
<1>5. /\ DOMAIN pollfds' = DOMAIN q
      /\ pollfds' \in Seq(Entry) /\ Len(pollfds') = Len(q)
      /\ \A i \in DOMAIN q : i \in W => pollfds'[i].fd = -fd
      /\ \A i \in DOMAIN q : i \notin W => pollfds'[i] = q[i]
  <2>1. CASE W = {}
    BY <1>2, <1>4, <1>15, <2>1
  <2>2. CASE W # {}
    <3> DEFINE m == Min(W)
               e == [q[m] EXCEPT !.fd = -fd]
    <3>1. m \in W /\ m \in DOMAIN q /\ \A i \in W : i = m
      BY <1>15, <1>16, <2>2
    <3>2. pollfds' = [q EXCEPT ![m] = e]
      BY <1>2, <1>15, <2>2
    <3>3. -fd \in Int
      BY <1>3
    <3> HIDE DEF m
    <3>4. e \in Entry /\ e.fd = -fd
      BY <1>4, <3>1, <3>3, EntryOf
    <3> HIDE DEF e
    <3> QED
      BY <1>4, <3>1, <3>2, <3>4
  <2> QED
    BY <2>1, <2>2
<1>6. /\ \A s \in Source : s # fd => Where(s)' = Where(s)
      /\ \A i \in 1 .. n : pollfds'[i].fd # fd
  <2>1. -fd # fd /\ \A s \in Source : s # -fd
    BY <1>3, Items
  <2>2. \A i \in 1 .. n : i \in W <=> q[i].fd = fd
    BY DEF W
  <2>3. \A i \in 1 .. n : pollfds'[i].fd # fd
    BY <1>3, <1>4, <1>5, <2>1, <2>2
  <2>4. ASSUME NEW s \in Source, s # fd
        PROVE  Where(s)' = Where(s)
    <3>1. \A i \in 1 .. n : pollfds'[i].fd = s <=> q[i].fd = s
      BY <1>3, <1>4, <1>5, <2>1, <2>2, <2>4, SMTT(20)
    <3>2. Where(s)' = {i \in 1 .. n : q[i].fd = s}
      BY <1>1, <3>1 DEF Where
    <3> QED
      BY <1>4, <3>2
  <2> QED
    BY <2>3, <2>4
<1>7. /\ \A id \in Item : Reads(id)' <=> Reads(id) \/ id = curr
      /\ \A id : Resuming(id)' <=> Resuming(id)
      /\ \A id \in Item : dpc'[id] = IF id = curr THEN "header" ELSE dpc[id]
      /\ ~Reads(curr)
  <2>1. \A id : Resuming(id)' <=> Resuming(id)
    BY <1>2 DEF Resuming, Contains
  <2>2. \A id \in Item : dpc'[id] = IF id = curr THEN "header" ELSE dpc[id]
    BY <1>2, <1>4
  <2>3. ~Reads(curr)
    BY <1>3, ReadingIs
  <2> QED
    BY <1>3, <2>1, <2>2, <2>3 DEF Reads
<1>8. ReadOnce'
  <2>1. ASSUME NEW id \in Item, NEW jd \in Item, id[1] = jd[1], Reads(id)', Reads(jd)'
        PROVE  id = jd
    <3>1. \A kd \in Item : kd[1] = fd => ~Reads(kd)
      BY <1>3, ReadingIs
    <3> QED
      BY <1>3, <1>7, <2>1, <3>1 DEF Polls, ReadOnce
  <2>2. \A id \in Item : Resuming(id)' => dpc'[id] \in {"callback", "ended"}
    BY <1>7 DEF Polls, ReadOnce, Reads
  <2> QED
    BY <1>2, <2>1, <2>2 DEF Polls, ReadOnce
<1>9. \A s : Reading(s)' <=> Reading(s) \/ s = fd
  BY <1>3, <1>7, ReadingIs
<1>10. ASSUME NEW s \in Source
       PROVE  /\ \A i, j \in Where(s)' : i = j
              /\ Reading(s)' => Where(s)' = {}
              /\ Where(s)' = {} => Reading(s)' \/ s \in eof \/ mistaken
  <2>1. CASE s = fd
    <3>1. Where(s)' = {}
      BY <1>1, <1>6, <2>1 DEF Where
    <3> QED
      BY <1>9, <2>1, <3>1
  <2>2. CASE s # fd
    BY <1>6, <1>9, <2>2 DEF Polls, Single, Apart, Listed
  <2> QED
    BY <2>1, <2>2
<1>11. Marked'
  <2>1. SUFFICES ASSUME NEW i \in DOMAIN q, pollfds'[i].fd > 0
                 PROVE  /\ pollfds'[i].fd \in Descriptor
                        /\ "RDHUP" \in pollfds'[i].rev => pollfds'[i].fd \in eof
    BY <1>2, <1>5 DEF Marked
  <2>2. i \notin W
    <3>1. ~(-fd > 0)
      BY <1>3
    <3> QED
      BY <1>5, <2>1, <3>1
  <2>3. pollfds'[i] = q[i]
    BY <1>5, <2>2
  <2> QED
    BY <1>4, <2>1, <2>3
<1>12. Chosen'
  BY <1>2 DEF Chosen, Relaying
<1>13. count' \in 0 .. Len(pollfds')
  BY <1>1, <1>4, <1>5
<1> QED
  BY <1>2, <1>5, <1>13, <1>8, <1>10, <1>11, <1>12 DEF Polls, Single, Apart, Listed

\* A deputy goes on reading, or is done, and its source stays suspended.
LEMMA PollsDeputyGet ==
    ASSUME RelayAssumption, Types, Polls, NEW id \in Item, DeputyGet(id), over' # "mixed"
    PROVE  /\ Polls'
           /\ Type(Head(in[id[1]])) = dpc[id] /\ dpc[id] \in Getting
           /\ chunks' = [chunks EXCEPT ![id] = IF dpc[id] = "header" THEN Data(Head(in[id[1]]))
                                               ELSE chunks[id] - 1]
           /\ dpc' = [dpc EXCEPT ![id] = IF chunks'[id] = 0 THEN "resume" ELSE "chunk"]
<1>1. /\ dpc[id] \in Getting /\ Type(Head(in[id[1]])) = dpc[id]
      /\ UNCHANGED <<pollfds, count, start, mistaken, todos, eof, mpc, fd, curr>>
  BY DEF DeputyGet, DeputyAt, polled, main
<1>2. /\ chunks \in [Item -> Int]
      /\ dpc \in [Item -> {"none", "header", "chunk", "resume", "callback", "ended"}]
  BY DEF Types, ServerTypes
<1>3. /\ chunks' = [chunks EXCEPT ![id] = IF dpc[id] = "header" THEN Data(Head(in[id[1]]))
                                          ELSE chunks[id] - 1]
      /\ dpc' = [dpc EXCEPT ![id] = IF chunks'[id] = 0 THEN "resume" ELSE "chunk"]
  BY <1>1, <1>2 DEF DeputyGet
<1>4. /\ \A jd \in Item : jd # id => dpc'[jd] = dpc[jd]
      /\ dpc'[id] \in {"chunk", "resume"} /\ dpc[id] \in {"header", "chunk"}
  BY <1>1, <1>2, <1>3 DEF Getting
<1>5. /\ \A jd : Resuming(jd)' <=> Resuming(jd)
      /\ \A jd \in Item : Reads(jd)' <=> Reads(jd)
  <2>1. \A jd : Resuming(jd)' <=> Resuming(jd)
    BY <1>1 DEF Resuming, Contains
  <2> QED
    BY <1>4, <2>1 DEF Reads
<1>6. ReadOnce'
  BY <1>1, <1>4, <1>5 DEF Polls, ReadOnce
<1>7. Table' /\ \A s : Reading(s)' <=> Reading(s)
  <2>1. Table
    BY DEF Polls, Table
  <2> QED
    BY <1>1, <1>5, <1>6, <2>1, TableReaders
<1>8. (\A s : Where(s)' = Where(s)) /\ Chosen
  BY <1>1 DEF Where, Polls
<1>9. Chosen'
  BY <1>1, <1>7, <1>8 DEF Chosen
<1> QED
  BY <1>1, <1>3, <1>7, <1>9 DEF Polls, Table

\* The todos a deputy adds take over from it, the resume first.
LEMMA PollsAddTodo ==
    ASSUME RelayAssumption, Types, Polls, NEW id \in Item, AddTodo(id)
    PROVE  /\ Polls' /\ todos' \in Seq({"resume", "callback"} \X Item)
           /\ dpc[id] \in {"resume", "callback"}
           /\ dpc' = [dpc EXCEPT ![id] = IF dpc[id] = "resume" THEN "callback" ELSE "ended"]
<1>1. /\ dpc[id] \in {"resume", "callback"}
      /\ todos' = Append(todos, <<dpc[id], id>>)
      /\ UNCHANGED <<pollfds, count, start, mistaken, eof, mpc, fd, curr>>
  BY DEF AddTodo, DeputyAt, polled, main
<1>2. dpc \in [Item -> {"none", "header", "chunk", "resume", "callback", "ended"}]
  BY DEF Types, ServerTypes
<1>3. dpc' = [dpc EXCEPT ![id] = IF dpc[id] = "resume" THEN "callback" ELSE "ended"]
  BY <1>2 DEF AddTodo, Then
<1> DEFINE e == <<dpc[id], id>>
<1>4. e \in {"resume", "callback"} \X Item /\ todos' = Append(todos, e)
  BY <1>1
<1> HIDE DEF e
<1>5. /\ todos' \in Seq({"resume", "callback"} \X Item)
      /\ \A x : Contains(todos, x)' <=> x = e \/ Contains(todos, x)
      /\ Len(todos) \in Nat /\ Len(todos') = Len(todos) + 1 /\ todos'[Len(todos) + 1] = e
      /\ \A i \in 1 .. Len(todos) : todos'[i] = todos[i]
  BY <1>4, AddTodoOf
<1>6. \A jd \in Item : Resuming(jd)' <=> Resuming(jd) \/ (jd = id /\ dpc[id] = "resume")
  BY <1>5 DEF Resuming, e
<1>7. \A jd \in Item : dpc'[jd] = IF jd # id THEN dpc[jd]
                                  ELSE IF dpc[id] = "resume" THEN "callback" ELSE "ended"
  BY <1>2, <1>3
<1>8. \A jd \in Item : Reads(jd)' <=> Reads(jd)
  BY <1>1, <1>6, <1>7 DEF Reads
<1>9. \A jd \in Item : Resuming(jd) => dpc[jd] \in {"callback", "ended"}
  BY DEF Polls, ReadOnce
<1>10. ReadOnce'
  <2>1. \A jd, kd \in Item : jd[1] = kd[1] /\ Reads(jd)' /\ Reads(kd)' => jd = kd
    BY <1>8 DEF Polls, ReadOnce
  <2>2. \A jd \in Item : Resuming(jd)' => dpc'[jd] \in {"callback", "ended"}
    BY <1>1, <1>6, <1>7, <1>9
  <2>3. ASSUME NEW i \in 1 .. Len(todos'), NEW j \in 1 .. Len(todos'),
               todos'[i] = todos'[j], Type(todos'[i]) = "resume"
        PROVE  i = j
    <3>1. \A k \in 1 .. Len(todos') : k \in 1 .. Len(todos) \/ k = Len(todos) + 1
      BY <1>5
    <3>2. \A k, l \in 1 .. Len(todos) :
              todos[k] = todos[l] /\ Type(todos[k]) = "resume" => k = l
      BY DEF Polls, ReadOnce
    <3>3. ASSUME NEW k \in 1 .. Len(todos), todos[k] = e, Type(e) = "resume"
          PROVE  FALSE
      <4>1. dpc[id] = "resume" /\ e = <<"resume", id>>
        BY <3>3 DEF e, Type
      <4>2. Resuming(id)
        BY <3>3, <4>1 DEF Resuming, Contains
      <4> QED
        BY <1>9, <4>1, <4>2
    <3> QED
      BY <1>5, <2>3, <3>1, <3>2, <3>3
  <2> QED
    BY <2>1, <2>2, <2>3 DEF ReadOnce
<1>11. Table' /\ \A s : Reading(s)' <=> Reading(s)
  <2>1. Table
    BY DEF Polls, Table
  <2> QED
    BY <1>1, <1>8, <1>10, <2>1, TableReaders
<1>12. (\A s : Where(s)' = Where(s)) /\ Chosen
  BY <1>1 DEF Where, Polls
<1>13. Chosen'
  BY <1>1, <1>11, <1>12 DEF Chosen
<1> QED
  BY <1>1, <1>3, <1>5, <1>11, <1>13 DEF Polls, Table

\* The second todo of a deputy changes nothing in the entries.
LEMMA PollsOnFinished ==
    ASSUME RelayAssumption, Types, Polls, OnFinished
    PROVE  Polls' /\ todos' \in Seq({"resume", "callback"} \X Item) /\ mpc' = mpc /\ over' # "mixed"
<1>1. /\ todos # << >> /\ todos' = Tail(todos) /\ Type(Head(todos)) = "callback" /\ mpc = "todos"
      /\ UNCHANGED <<pollfds, count, start, mistaken, eof, mpc, fd, curr, dpc>>
  BY DEF OnFinished, Todo, MainAt, polled, deputy
<1>2. /\ Head(todos) \in {"resume", "callback"} \X Item
      /\ todos' \in Seq({"resume", "callback"} \X Item)
      /\ \A x : Contains(todos, x) <=> x = Head(todos) \/ Contains(todos, x)'
      /\ \A i \in 1 .. Len(todos') : i + 1 \in 2 .. Len(todos) /\ todos'[i] = todos[i + 1]
  BY <1>1, TodoOf
<1>3. \A jd : Resuming(jd)' <=> Resuming(jd)
  <2>1. \A jd : <<"resume", jd>> # Head(todos)
    BY <1>1 DEF Type
  <2> QED
    BY <1>2, <2>1 DEF Resuming
<1>4. \A jd \in Item : Reads(jd)' <=> Reads(jd)
  BY <1>1, <1>3 DEF Reads
<1>5. ReadOnce'
  <2>1. ASSUME NEW i \in 1 .. Len(todos'), NEW j \in 1 .. Len(todos'),
               todos'[i] = todos'[j], Type(todos'[i]) = "resume"
        PROVE  i = j
    <3>1. /\ i + 1 \in 1 .. Len(todos) /\ j + 1 \in 1 .. Len(todos) /\ i \in Nat /\ j \in Nat
          /\ todos'[i] = todos[i + 1] /\ todos'[j] = todos[j + 1]
      <4>1. i + 1 \in 2 .. Len(todos) /\ j + 1 \in 2 .. Len(todos)
        BY <1>2
      <4> QED
        BY <1>2, <4>1
    <3>2. i + 1 = j + 1
      BY <2>1, <3>1 DEF Polls, ReadOnce
    <3> QED
      BY <3>1, <3>2
  <2> QED
    BY <1>1, <1>3, <1>4, <2>1 DEF Polls, ReadOnce
<1>6. Table' /\ \A s : Reading(s)' <=> Reading(s)
  <2>1. Table
    BY DEF Polls, Table
  <2> QED
    BY <1>1, <1>4, <1>5, <2>1, TableReaders
<1>7. Chosen'
  BY <1>1 DEF Chosen, Relaying
<1>8. over' # "mixed"
  <2>1. over = NULL
    BY DEF OnFinished, Todo, MainAt, Running
  <2> QED
    BY <2>1 DEF OnFinished, RelayAssumption
<1> QED
  BY <1>1, <1>2, <1>6, <1>7, <1>8 DEF Polls, Table

\* The source of the file is polled again, by the one entry that is added.
LEMMA PollsFinisher ==
    ASSUME RelayAssumption, Types, Polls, Finisher
    PROVE  /\ Polls' /\ todos' \in Seq({"resume", "callback"} \X Item) /\ mpc' = mpc
           /\ pollfds' \in Seq(Entry) /\ Len(pollfds') = count' /\ count' \in Nat
<1>1. /\ todos # << >> /\ todos' = Tail(todos) /\ Type(Head(todos)) = "resume" /\ mpc = "todos"
      /\ pollfds' = Append(Entries, Polling(Of(Head(todos))[1])) /\ count' = count + 1
      /\ UNCHANGED <<start, mistaken, eof, mpc, fd, curr, dpc>>
  BY DEF Finisher, Todo, MainAt, Resumed, Aside, deputy
<1>2. /\ Head(todos) \in {"resume", "callback"} \X Item
      /\ todos' \in Seq({"resume", "callback"} \X Item)
      /\ \A x : Contains(todos, x) <=> x = Head(todos) \/ Contains(todos, x)'
      /\ \A i \in 1 .. Len(todos') : i + 1 \in 2 .. Len(todos) /\ todos'[i] = todos[i + 1]
  BY <1>1, TodoOf
<1>3. PICK id \in Item : Head(todos) = <<"resume", id>>
  BY <1>1, <1>2 DEF Type
<1> DEFINE e == Polling(id[1])
<1>4. /\ e \in Entry /\ e.fd = id[1] /\ e.rev = {}
      /\ pollfds' = Append(Entries, e) /\ id[1] \in Source
  <2>1. Of(Head(todos)) = id
    BY <1>3 DEF Of
  <2>2. id[1] \in Source /\ id[1] \in Int
    BY Items
  <2> QED
    BY <1>1, <2>1, <2>2 DEF Entry, Polling
<1> HIDE DEF e
<1>5. Resuming(id) /\ ~Resuming(id)'
  <2>1. Resuming(id)
    BY <1>2, <1>3 DEF Resuming
  <2>2. ASSUME NEW i \in 1 .. Len(todos'), todos'[i] = <<"resume", id>>
        PROVE  FALSE
    <3>1. /\ i + 1 \in 1 .. Len(todos) /\ i + 1 # 1 /\ 1 \in 1 .. Len(todos)
          /\ todos[i + 1] = todos'[i]
      <4>1. i + 1 \in 2 .. Len(todos) /\ todos'[i] = todos[i + 1]
        BY <1>2
      <4> QED
        BY <1>2, <4>1
    <3>2. todos[1] = <<"resume", id>>
      BY <1>1, <1>3, SMTT(30) DEF Types, ServerTypes
    <3>3. Type(todos[1]) = "resume"
      BY <3>2 DEF Type
    <3> QED
      BY <2>2, <3>1, <3>2, <3>3 DEF Polls, ReadOnce
  <2> QED
    BY <2>1, <2>2 DEF Resuming, Contains
<1>6. \A jd \in Item : jd # id => (Resuming(jd)' <=> Resuming(jd))
  <2>1. \A jd \in Item : jd # id => <<"resume", jd>> # Head(todos)
    BY <1>3
  <2> QED
    BY <1>2, <2>1 DEF Resuming
<1>7. \A jd \in Item : Reads(jd)' <=> Reads(jd) /\ jd # id
  <2>1. dpc[id] \in {"callback", "ended"}
    BY <1>3, <1>5 DEF Polls, ReadOnce
  <2> QED
    BY <1>1, <1>5, <1>6, <2>1 DEF Reads
<1>8. Reads(id)
  BY <1>5 DEF Reads
<1>9. ReadOnce'
  <2>1. ASSUME NEW i \in 1 .. Len(todos'), NEW j \in 1 .. Len(todos'),
               todos'[i] = todos'[j], Type(todos'[i]) = "resume"
        PROVE  i = j
    <3>1. /\ i + 1 \in 1 .. Len(todos) /\ j + 1 \in 1 .. Len(todos) /\ i \in Nat /\ j \in Nat
          /\ todos'[i] = todos[i + 1] /\ todos'[j] = todos[j + 1]
      <4>1. i + 1 \in 2 .. Len(todos) /\ j + 1 \in 2 .. Len(todos)
        BY <1>2
      <4> QED
        BY <1>2, <4>1
    <3>2. i + 1 = j + 1
      BY <2>1, <3>1 DEF Polls, ReadOnce
    <3> QED
      BY <3>1, <3>2
  <2>2. \A jd, kd \in Item : jd[1] = kd[1] /\ Reads(jd)' /\ Reads(kd)' => jd = kd
    BY <1>7 DEF Polls, ReadOnce
  <2>3. \A jd \in Item : Resuming(jd)' => dpc'[jd] \in {"callback", "ended"}
    BY <1>1, <1>5, <1>6 DEF Polls, ReadOnce
  <2> QED
    BY <2>1, <2>2, <2>3 DEF ReadOnce
<1>10. Reading(id[1]) /\ \A s : Reading(s)' <=> Reading(s) /\ s # id[1]
  <2>1. \A jd \in Item : jd[1] = id[1] /\ Reads(jd) => jd = id
    BY <1>3, <1>8 DEF Polls, ReadOnce
  <2> QED
    BY <1>3, <1>7, <1>8, <2>1, ReadingIs
<1>11. /\ Entries \in Seq(Entry) /\ Len(Entries) = count /\ count \in Nat
       /\ \A i \in 1 .. count : Entries[i] = pollfds[i]
       /\ 1 .. count \subseteq DOMAIN pollfds
  BY EntriesOf
<1>12. /\ pollfds' \in Seq(Entry) /\ Len(pollfds') = count + 1
       /\ DOMAIN pollfds' = 1 .. count + 1
       /\ \A i \in 1 .. count : pollfds'[i] = pollfds[i]
       /\ pollfds'[count + 1] = e
  <2>1. /\ Append(Entries, e) \in Seq(Entry) /\ Len(Append(Entries, e)) = Len(Entries) + 1
        /\ \A i \in 1 .. Len(Entries) : Append(Entries, e)[i] = Entries[i]
        /\ Append(Entries, e)[Len(Entries) + 1] = e
    BY <1>4, <1>11, AppendOf
  <2> QED
    BY <1>4, <1>11, <2>1
<1>13. \A i \in 1 .. count + 1 : i \in 1 .. count \/ i = count + 1
  BY <1>11
<1>14. Where(id[1]) = {} /\ \A i \in Where(id[1])' : i = count + 1
  <2>1. Where(id[1]) = {}
    BY <1>4, <1>10 DEF Polls, Apart
  <2> QED
    BY <1>1, <1>12, <1>13, <2>1 DEF Where
<1>15. count + 1 \in Where(id[1])'
  BY <1>1, <1>4, <1>11, <1>12 DEF Where
<1>16. ASSUME NEW s \in Source, s # id[1]
       PROVE  Where(s)' = Where(s)
  <2>1. \A i \in 1 .. count : i \in 1 .. count + 1
    BY <1>11
  <2> QED
    BY <1>1, <1>4, <1>12, <1>13, <1>16, <2>1 DEF Where
<1>17. ASSUME NEW s \in Source
       PROVE  /\ \A i, j \in Where(s)' : i = j
              /\ Reading(s)' => Where(s)' = {}
              /\ Where(s)' = {} => Reading(s)' \/ s \in eof \/ mistaken
  <2>1. CASE s = id[1]
    <3>1. Where(s)' # {} /\ ~Reading(s)' /\ \A i \in Where(s)' : i = count + 1
      BY <1>10, <1>14, <1>15, <2>1
    <3> QED
      BY <3>1
  <2>2. CASE s # id[1]
    BY <1>10, <1>16, <2>2 DEF Polls, Single, Apart, Listed
  <2> QED
    BY <2>1, <2>2
<1>18. Marked'
  BY <1>1, <1>4, <1>11, <1>12, <1>13, Descriptors DEF Polls, Marked
<1>19. Chosen'
  BY <1>1 DEF Chosen, Relaying
<1> QED
  BY <1>1, <1>2, <1>9, <1>11, <1>12, <1>17, <1>18, <1>19 DEF Polls, Single, Apart, Listed
-----------------------------------------------------------------------------
(***************************************************************************)
(* What a source has left to read                                          *)
(***************************************************************************)
LEMMA LeftIs ==
    ASSUME Types, NEW s \in Source
    PROVE  /\ in[s] \in Seq(Message) /\ snd[s] \in Seq(Message)
           /\ Left(s) \in Seq(Message) /\ Len(Left(s)) = Len(in[s]) + Len(snd[s])
           /\ Len(in[s]) \in Nat /\ Len(snd[s]) \in Nat /\ Len(Left(s)) \in Nat
           /\ \A i \in 1 .. Len(in[s]) : Left(s)[i] = in[s][i]
           /\ \A i \in 1 .. Len(snd[s]) : Left(s)[Len(in[s]) + i] = snd[s][i]
<1>1. in[s] \in Seq(Message) /\ snd[s] \in Seq(Message)
  BY DEF Types, PeerTypes
<1>2. Len(in[s]) \in Nat /\ Len(snd[s]) \in Nat
  BY <1>1, Seqs
<1> DEFINE a == in[s]
           b == snd[s]
<1>3. a \in Seq(Message) /\ b \in Seq(Message) /\ Left(s) = a \o b
  BY <1>1 DEF Left
<1>4. /\ Left(s) \in Seq(Message) /\ Len(Left(s)) = Len(a) + Len(b)
      /\ \A i \in 1 .. Len(a) : Left(s)[i] = a[i]
      /\ \A i \in 1 .. Len(b) : Left(s)[Len(a) + i] = b[i]
  <2> HIDE DEF a, b
  <2> DEFINE c == a \o b
  <2>1. /\ c \in Seq(Message) /\ Len(c) = Len(a) + Len(b)
        /\ \A i \in 1 .. Len(a) : c[i] = a[i]
        /\ \A i \in 1 .. Len(b) : c[Len(a) + i] = b[i]
    BY <1>3, ConcatOf
  <2> HIDE DEF c
  <2>2. Left(s) = c
    BY <1>3 DEF c
  <2> QED
    BY <2>1, <2>2
<1>5. Len(Left(s)) \in Nat
  BY <1>4, Seqs
<1> QED
  BY <1>1, <1>2, <1>4, <1>5

\* The messages of an item depend on its size alone.
LEMMA WholeSame ==
    ASSUME NEW id, size_of'[id] = size_of[id]
    PROVE  Whole(id)' = Whole(id)
  BY WholeIs

\* The places of what a source has left stay right while it sends and is read no further.
LEMMA LineSame ==
    ASSUME RelayAssumption, NEW s \in Source, NEW n \in 0 .. MaxItems[s], NEW at,
           \A id \in Item : id[1] = s => size_of'[id] = size_of[id],
           Left(s)' = Left(s), Sent(s, n), Line(s, n, at)
    PROVE  Sent(s, n)' /\ Line(s, n, at)'
<1>1. /\ MaxItems[s] \in Nat /\ n <= MaxItems[s] /\ n \in Nat
      /\ \A k \in 1 .. MaxItems[s] : <<s, k>> \in Item
  BY Items
<1>2. \A k \in 1 .. MaxItems[s] : size_of'[<<s, k>>] = size_of[<<s, k>>]
  BY <1>1
<1>3. Sent(s, n)'
  BY <1>2 DEF Sent
<1>4. \A k \in 1 .. n : Whole(<<s, k>>)' = Whole(<<s, k>>) /\ Places(s, k)' = Places(s, k)
  <2> TAKE k \in 1 .. n
  <2>1. size_of'[<<s, k>>] = size_of[<<s, k>>]
    BY <1>1, <1>2
  <2> QED
    BY <2>1, WholeSame DEF Places
<1>5. \A j \in 1 .. Len(Left(s)) :
         /\ at[j][1] \in 1 .. n /\ at[j][2] \in 1 .. Places(s, at[j][1])'
         /\ Left(s)[j] = Whole(<<s, at[j][1]>>)'[at[j][2]]
         /\ at[j + 1] = Succ(s, at[j])'
  <2> TAKE j \in 1 .. Len(Left(s))
  <2>1. /\ at[j][1] \in 1 .. n /\ at[j][2] \in 1 .. Places(s, at[j][1])
        /\ Left(s)[j] = Whole(<<s, at[j][1]>>)[at[j][2]]
        /\ at[j + 1] = Succ(s, at[j])
    BY DEF Line
  <2>2. Succ(s, at[j])' = Succ(s, at[j])
    BY <1>4, <2>1 DEF Succ
  <2> QED
    BY <1>4, <2>1, <2>2
<1> QED
  BY <1>3, <1>5 DEF Line

\* The place that is read next is in an item that was sent, or at the start of one.
LEMMA StartedOf ==
    ASSUME RelayAssumption, Types, NEW s \in Source, NEW n \in 0 .. MaxItems[s],
           NEW at \in Seq(Nat \X Nat), Sent(s, n), Line(s, n, at)
    PROVE  /\ n \in Nat /\ at[1] \in Nat \X Nat /\ Len(at) \in Nat \ {0} /\ at[1][1] \in 1 .. n + 1
           /\ at[1] = <<at[1][1], at[1][2]>>
           /\ at[1][2] # 1 => at[1][1] \in 1 .. n
           /\ at[1][1] \in 1 .. n => /\ <<s, at[1][1]>> \in Item
                                     /\ size_of[<<s, at[1][1]>>] \in Nat \cup {Text}
<1>1. /\ MaxItems[s] \in Nat /\ n \in Nat /\ \A k \in 1 .. MaxItems[s] : <<s, k>> \in Item
      /\ n <= MaxItems[s]
  BY Items
<1>2. Len(Left(s)) \in Nat
  BY LeftIs
<1>3. Len(at) = Len(Left(s)) + 1 /\ at[Len(at)] = <<n + 1, 1>>
  BY DEF Line
<1>4. at[1] \in Nat \X Nat /\ Len(at) \in Nat \ {0}
  <2>1. 1 \in 1 .. Len(at)
    BY <1>2, <1>3
  <2> QED
    BY <1>2, <1>3, <2>1, Seqs
<1>5. at[1] = <<at[1][1], at[1][2]>>
  BY <1>4
<1>6. at[1][1] \in 1 .. n => /\ <<s, at[1][1]>> \in Item
                             /\ size_of[<<s, at[1][1]>>] \in Nat \cup {Text}
  <2>1. ASSUME at[1][1] \in 1 .. n
        PROVE  /\ <<s, at[1][1]>> \in Item /\ size_of[<<s, at[1][1]>>] # NULL
    <3>1. at[1][1] \in 1 .. MaxItems[s] /\ at[1][1] <= n
      BY <1>1, <2>1
    <3> QED
      BY <1>1, <3>1 DEF Sent
  <2>2. size_of \in [Item -> Nat \cup {Text, NULL}]
    BY DEF Types, PeerTypes
  <2> QED
    BY <2>1, <2>2
<1>7. at[1][1] \in 1 .. n + 1 /\ (at[1][2] # 1 => at[1][1] \in 1 .. n)
  <2>1. CASE Len(Left(s)) = 0
    <3>1. at[1] = <<n + 1, 1>>
      BY <1>3, <2>1
    <3> QED
      BY <1>1, <3>1
  <2>2. CASE Len(Left(s)) # 0
    <3>1. 1 \in 1 .. Len(Left(s))
      BY <1>2, <2>2
    <3>2. at[1][1] \in 1 .. n
      BY <3>1 DEF Line
    <3> QED
      BY <1>1, <3>2
  <2> QED
    BY <2>1, <2>2
<1> QED
  BY <1>1, <1>4, <1>5, <1>6, <1>7

\* The first message in the socket of s is the one at the first place.
LEMMA FirstOf ==
    ASSUME RelayAssumption, Types, NEW s \in Source, NEW n \in 0 .. MaxItems[s],
           NEW at \in Seq(Nat \X Nat), Sent(s, n), Line(s, n, at), in[s] # << >>
    PROVE  /\ at[1][1] \in 1 .. n /\ at[1][2] \in 1 .. Places(s, at[1][1])
           /\ Head(in[s]) = Whole(<<s, at[1][1]>>)[at[1][2]]
<1>1. /\ in[s] \in Seq(Message) /\ snd[s] \in Seq(Message) /\ in \in [Source -> Seq(Message)]
      /\ Left(s) \in Seq(Message) /\ Len(Left(s)) = Len(in[s]) + Len(snd[s])
      /\ Len(in[s]) \in Nat /\ Len(snd[s]) \in Nat /\ Len(Left(s)) \in Nat
      /\ \A i \in 1 .. Len(in[s]) : Left(s)[i] = in[s][i]
      /\ \A i \in 1 .. Len(snd[s]) : Left(s)[Len(in[s]) + i] = snd[s][i]
  BY LeftIs DEF Types, PeerTypes
<1>2. Head(in[s]) = in[s][1] /\ Len(in[s]) > 0
  BY <1>1, TailOf
<1>3. /\ Len(at) = Len(Left(s)) + 1 /\ at[Len(at)] = <<n + 1, 1>>
      /\ \A j \in 1 .. Len(Left(s)) :
            /\ at[j][1] \in 1 .. n /\ at[j][2] \in 1 .. Places(s, at[j][1])
            /\ Left(s)[j] = Whole(<<s, at[j][1]>>)[at[j][2]]
            /\ at[j + 1] = Succ(s, at[j])
  BY DEF Line
<1>4. 1 \in 1 .. Len(Left(s)) /\ 1 \in 1 .. Len(in[s]) /\ 1 + 1 = 2
  BY <1>1, <1>2
<1>5. /\ at[1][1] \in 1 .. n /\ at[1][2] \in 1 .. Places(s, at[1][1])
      /\ Head(in[s]) = Whole(<<s, at[1][1]>>)[at[1][2]]
  BY <1>1, <1>2, <1>3, <1>4
<1> QED
  BY <1>5

\* Somebody takes it: the places after the first one are left.
LEMMA NextOf ==
    ASSUME RelayAssumption, Types, NEW s \in Source, NEW n \in 0 .. MaxItems[s],
           NEW at \in Seq(Nat \X Nat), Sent(s, n), Line(s, n, at), in[s] # << >>,
           in' = [in EXCEPT ![s] = Tail(@)], UNCHANGED <<snd, size_of>>
    PROVE  /\ Tail(at) \in Seq(Nat \X Nat) /\ Tail(at)[1] = Succ(s, at[1])
           /\ Sent(s, n)' /\ Line(s, n, Tail(at))'
<1>1. /\ in[s] \in Seq(Message) /\ snd[s] \in Seq(Message) /\ in \in [Source -> Seq(Message)]
      /\ Left(s) \in Seq(Message) /\ Len(Left(s)) = Len(in[s]) + Len(snd[s])
      /\ Len(in[s]) \in Nat /\ Len(snd[s]) \in Nat /\ Len(Left(s)) \in Nat
      /\ \A i \in 1 .. Len(in[s]) : Left(s)[i] = in[s][i]
      /\ \A i \in 1 .. Len(snd[s]) : Left(s)[Len(in[s]) + i] = snd[s][i]
  BY LeftIs DEF Types, PeerTypes
<1>2. Head(in[s]) = in[s][1] /\ Len(in[s]) > 0
  BY <1>1, TailOf
<1>3. /\ Len(at) = Len(Left(s)) + 1 /\ at[Len(at)] = <<n + 1, 1>>
      /\ \A j \in 1 .. Len(Left(s)) :
            /\ at[j][1] \in 1 .. n /\ at[j][2] \in 1 .. Places(s, at[j][1])
            /\ Left(s)[j] = Whole(<<s, at[j][1]>>)[at[j][2]]
            /\ at[j + 1] = Succ(s, at[j])
  BY DEF Line
<1>4. 1 \in 1 .. Len(Left(s)) /\ 1 \in 1 .. Len(in[s]) /\ 1 + 1 = 2
  BY <1>1, <1>2
<1>5. Succ(s, at[1]) = at[2]
  BY <1>1, <1>3, <1>4
<1> DEFINE bt == Tail(at)
           l == Tail(Left(s))
<1>6. at # << >>
  BY <1>1, <1>3
<1>7. /\ bt \in Seq(Nat \X Nat) /\ Len(bt) = Len(Left(s))
      /\ \A j \in 1 .. Len(Left(s)) : bt[j] = at[j + 1]
  <2>1. /\ bt \in Seq(Nat \X Nat) /\ Len(bt) = Len(at) - 1
        /\ \A j \in 1 .. Len(at) - 1 : bt[j] = at[j + 1]
    BY <1>6, TailOf
  <2> HIDE DEF bt
  <2> QED
    BY <1>1, <1>3, <2>1
<1> HIDE DEF bt
<1>8. Left(s)' = l
  <2>1. in'[s] = Tail(in[s]) /\ snd'[s] = snd[s]
    BY <1>1
  <2>2. Left(s)' = Tail(in[s]) \o snd[s]
    BY <2>1 DEF Left
  <2>3. PICK i, o : i = in[s] /\ o = snd[s]
    OBVIOUS
  <2>4. i \in Seq(Message) /\ o \in Seq(Message) /\ i # << >>
    BY <1>1, <2>3
  <2>5. Tail(i) \o o = Tail(i \o o)
    BY <2>4, TailConcat, SMTT(20)
  <2> QED
    BY <2>2, <2>3, <2>5 DEF Left
<1>9. /\ Len(l) = Len(Left(s)) - 1
      /\ \A j \in 1 .. Len(Left(s)) - 1 : l[j] = Left(s)[j + 1]
  <2>1. Left(s) # << >>
    BY <1>1, <1>2
  <2> QED
    BY <1>1, <2>1, TailOf
<1> HIDE DEF l
<1>10. \A id : Whole(id)' = Whole(id)
  BY WholeSame
<1>11. (\A k : Places(s, k)' = Places(s, k)) /\ \A a : Succ(s, a)' = Succ(s, a)
  BY <1>10 DEF Places, Succ
<1>12. Sent(s, n)'
  BY DEF Sent
<1>13. Len(bt) = Len(l) + 1 /\ bt[Len(bt)] = <<n + 1, 1>> /\ bt[1] = at[2]
  <2>1. Len(bt) = Len(l) + 1
    BY <1>1, <1>2, <1>7, <1>9
  <2>2. Len(bt) \in 1 .. Len(Left(s)) /\ Len(bt) + 1 = Len(at)
    BY <1>1, <1>2, <1>3, <1>7
  <2>3. bt[Len(bt)] = at[Len(bt) + 1] /\ bt[1] = at[1 + 1]
    BY <1>4, <1>7, <2>2
  <2> QED
    BY <1>3, <1>4, <2>1, <2>2, <2>3
<1>14. ASSUME NEW j \in 1 .. Len(l)
      PROVE  /\ bt[j][1] \in 1 .. n /\ bt[j][2] \in 1 .. Places(s, bt[j][1])
             /\ l[j] = Whole(<<s, bt[j][1]>>)[bt[j][2]]
             /\ bt[j + 1] = Succ(s, bt[j])
  <2>1. j \in 1 .. Len(Left(s)) - 1 /\ j + 1 \in 1 .. Len(Left(s)) /\ j \in 1 .. Len(Left(s))
    BY <1>1, <1>9
  <2>2. bt[j] = at[j + 1] /\ bt[j + 1] = at[(j + 1) + 1] /\ l[j] = Left(s)[j + 1]
    BY <1>7, <1>9, <2>1
  <2> QED
    BY <1>3, <2>1, <2>2
<1>15. Line(s, n, bt)'
  <2>1. \A j \in 1 .. Len(l) : /\ bt[j][1] \in 1 .. n /\ bt[j][2] \in 1 .. Places(s, bt[j][1])'
                                /\ l[j] = Whole(<<s, bt[j][1]>>)[bt[j][2]]'
                                /\ bt[j + 1] = Succ(s, bt[j])'
    BY <1>10, <1>11, <1>14
  <2> QED
    BY <1>8, <1>13, <2>1 DEF Line
<1> QED
  BY <1>5, <1>7, <1>12, <1>13, <1>15 DEF bt

-----------------------------------------------------------------------------
(***************************************************************************)
(* Where the threads are while a source is read                            *)
(***************************************************************************)
LEMMA ItemIs ==
    ASSUME RelayAssumption, NEW id \in Item
    PROVE  /\ id = <<id[1], id[2]>> /\ id[1] \in Source /\ id[2] \in 1 .. MaxItems[id[1]]
           /\ id[2] \in Nat /\ Places(id[1], id[2]) = Len(Whole(id))
           /\ Whole(id) \in Seq(Message) /\ Len(Whole(id)) \in Nat /\ Len(Whole(id)) >= 2
           /\ Whole(id)[1] = ItemMsg(id)
           /\ size_of[id] \notin Nat => IsText(id, Whole(id))
           /\ size_of[id] \in Nat => IsFile(id, size_of[id], Whole(id))
<1>1. /\ id = <<id[1], id[2]>> /\ id[1] \in Source /\ id[2] \in 1 .. MaxItems[id[1]]
      /\ id[2] \in Nat
  BY Items
<1>2. Places(id[1], id[2]) = Len(Whole(id))
  BY <1>1 DEF Places
<1>3. PICK z, w : z = size_of[id] /\ w = Whole(id)
  OBVIOUS
<1>4. w = <<ItemMsg(id)>> \o Content_of(id, z)
  BY <1>3, WholeIs
<1>5. /\ w \in Seq(Message) /\ Len(w) >= 2 /\ w[1] = ItemMsg(id)
      /\ z \notin Nat => IsText(id, w)
      /\ z \in Nat => IsFile(id, z, w)
  BY <1>4, WholeOf, ZenonT(30)
<1>6. Len(w) \in Nat
  BY <1>5, Seqs
<1> QED
  BY <1>1, <1>2, <1>3, <1>5, <1>6

\* What a step leaves of the items and deputies of s, and of the main thread as to s.
Over == {"resume", "callback", "ended"}
DeputySame(id) ==
    /\ size_of'[id] = size_of[id] /\ chunks'[id] = chunks[id] /\ file'[id] = file[id]
    /\ dpc'[id] = dpc[id] \/ (dpc[id] \in Over /\ dpc'[id] \in Over)
DeputiesSame(s) == \A id \in Item : id[1] = s => DeputySame(id)
Busy(s) == mpc \in Relaying /\ curr[1] = s
MainSame(s) == UNCHANGED <<mpc, curr>> \/ (~Busy(s) /\ ~Busy(s)')

\* A deputy that does not step is where it was, also when its todos are done.
LEMMA DeputyStageSame ==
    ASSUME RelayAssumption, NEW id \in Item, NEW a, DeputyStage(id, a), DeputySame(id)
    PROVE  DeputyStage(id, a)'
<1>1. /\ Places(id[1], id[2]) = Len(Whole(id)) /\ Places(id[1], id[2])' = Len(Whole(id))'
      /\ Whole(id)' = Whole(id)
  <2>1. id = <<id[1], id[2]>>
    BY Items
  <2>2. Whole(id)' = Whole(id)
    BY WholeSame DEF DeputySame
  <2> QED
    BY <2>1, <2>2 DEF Places
<1>2. Places(id[1], id[2])' = Places(id[1], id[2])
  BY <1>1
<1> QED
  BY <1>2 DEF DeputyStage, DeputySame, Over

\* Main thread and deputies stay at their place while they do not step.
LEMMA StageSame ==
    ASSUME RelayAssumption, Chosen, NEW s \in Source, NEW a, Stage(s, a),
           DeputiesSame(s), MainSame(s)
    PROVE  Stage(s, a)'
<1>1. MainStage(s, a)'
  <2>1. CASE UNCHANGED <<mpc, curr>>
    <3>1. mpc \in Relaying => curr \in Item
      BY DEF Chosen
    <3> QED
      BY <2>1, <3>1 DEF Stage, MainStage, DeputiesSame, DeputySame
  <2>2. CASE ~Busy(s)'
    BY <2>2 DEF Busy, MainStage
  <2> QED
    BY <2>1, <2>2 DEF MainSame
<1>2. SomeoneAt(s, a)'
  <2>1. CASE a[2] = 1
    BY <2>1 DEF SomeoneAt
  <2>2. CASE mpc \in Relaying /\ curr = <<s, a[1]>>
    <3>1. Busy(s)
      BY <2>2 DEF Busy
    <3>2. UNCHANGED <<mpc, curr>>
      BY <3>1 DEF MainSame
    <3> QED
      BY <2>2, <3>2 DEF SomeoneAt
  <2>3. CASE \E id \in Item : id[1] = s /\ dpc[id] \in Getting
    BY <2>3 DEF SomeoneAt, DeputiesSame, DeputySame, Over, Getting
  <2> QED
    BY <2>1, <2>2, <2>3 DEF Stage, SomeoneAt
<1>3. ASSUME NEW id \in Item, id[1] = s
      PROVE  DeputyStage(id, a)'
  <2>1. DeputyStage(id, a)
    BY <1>3 DEF Stage
  <2> QED
    BY <1>3, <2>1, DeputyStageSame DEF DeputiesSame
<1> QED
  BY <1>1, <1>2, <1>3 DEF Stage

\* A source whose messages and readers do not change stays in step.
LEMMA SourceSame ==
    ASSUME RelayAssumption, Chosen, NEW s \in Source, NEW n \in 0 .. MaxItems[s], NEW at,
           SourceAt(s, n, at), DeputiesSame(s), MainSame(s), Left(s)' = Left(s)
    PROVE  SourceAt(s, n, at)'
<1>1. Sent(s, n)' /\ Line(s, n, at)'
  <2>1. \A id \in Item : id[1] = s => size_of'[id] = size_of[id]
    BY DEF DeputiesSame, DeputySame
  <2> QED
    BY <2>1, LineSame DEF SourceAt
<1>2. Stage(s, at[1])'
  BY StageSame DEF SourceAt
<1> QED
  BY <1>1, <1>2 DEF SourceAt

\* s is in step.
Found(s) == \E n \in 0 .. MaxItems[s], at \in Seq(Nat \X Nat) : SourceAt(s, n, at)

\* The same, for whatever places there are.
LEMMA FoundSame ==
    ASSUME RelayAssumption, Chosen, InStep, NEW s \in Source,
           DeputiesSame(s), MainSame(s), Left(s)' = Left(s)
    PROVE  Found(s)'
<1>1. PICK n \in 0 .. MaxItems[s], at \in Seq(Nat \X Nat) : SourceAt(s, n, at)
  BY DEF InStep
<1>2. SourceAt(s, n, at)'
  BY <1>1, SourceSame
<1> QED
  BY <1>2 DEF Found

\* InStep says of each source that it is Found.
LEMMA InStepIs ==
    /\ InStep <=> \A s \in Source : Found(s)
    /\ InStep' <=> \A s \in Source : Found(s)'
  BY DEF InStep, Found

\* A step that takes no message and moves nobody between places keeps InStep.
LEMMA InStepRests ==
    ASSUME RelayAssumption, Chosen, InStep, UNCHANGED <<size_of, chunks, file>>,
           \A s \in Source : Left(s)' = Left(s),
           \A id \in Item : dpc'[id] = dpc[id] \/ (dpc[id] \in Over /\ dpc'[id] \in Over),
           UNCHANGED <<mpc, curr>> \/ (mpc \notin Relaying /\ mpc' \notin Relaying)
    PROVE  InStep'
<1>1. \A s \in Source : DeputiesSame(s) /\ MainSame(s) /\ Left(s)' = Left(s)
  BY DEF DeputiesSame, DeputySame, MainSame, Busy
<1> QED
  BY <1>1, FoundSame, InStepIs

\* A step at one source leaves the others in step.
LEMMA InStepBut ==
    ASSUME RelayAssumption, Chosen, InStep, NEW s \in Source, Found(s)',
           \A r \in Source \ {s} : DeputiesSame(r) /\ MainSame(r) /\ Left(r)' = Left(r)
    PROVE  InStep'
<1>1. ASSUME NEW r \in Source
      PROVE  Found(r)'
  <2>1. CASE r = s
    BY <2>1
  <2>2. CASE r # s
    BY <2>2, FoundSame
  <2> QED
    BY <2>1, <2>2
<1> QED
  BY <1>1, InStepIs

\* After a message is taken the places begin with the next one, so who took it must be there.
LEMMA FoundTaken ==
    ASSUME RelayAssumption, Types, NEW s \in Source, NEW n \in 0 .. MaxItems[s],
           NEW at \in Seq(Nat \X Nat), SourceAt(s, n, at), in[s] # << >>,
           in' = [in EXCEPT ![s] = Tail(@)], UNCHANGED <<snd, size_of>>,
           Stage(s, Succ(s, at[1]))'
    PROVE  Found(s)' /\ \A r \in Source \ {s} : Left(r)' = Left(r)
<1> DEFINE bt == Tail(at)
<1>1. bt \in Seq(Nat \X Nat) /\ bt[1] = Succ(s, at[1]) /\ Sent(s, n)' /\ Line(s, n, bt)'
  BY NextOf DEF SourceAt
<1>2. Succ(s, at[1])' = Succ(s, at[1])
  <2>1. \A id : Whole(id)' = Whole(id)
    BY WholeSame
  <2> QED
    BY <2>1 DEF Succ, Places
<1> HIDE DEF bt
<1>3. Stage(s, bt[1])'
  BY <1>1, <1>2
<1>4. SourceAt(s, n, bt)'
  BY <1>1, <1>3 DEF SourceAt
<1>5. \A r \in Source \ {s} : Left(r)' = Left(r)
  BY DEF Left, Types, PeerTypes
<1> QED
  BY <1>1, <1>4, <1>5 DEF Found

\* An item is at the head of the socket of f when the main thread reads from f.
LEMMA InStepRecvItem ==
    ASSUME RelayAssumption, Types, Polls, InStep, NEW f \in Source, RecvItem(f)
    PROVE  InStep' /\ Polls' /\ over' = over /\ curr' \in Item /\ mpc' = "item"
<1>1. /\ mpc = "recv" /\ f = pollfds[start].fd /\ fd' = f /\ in[f] # << >>
      /\ in' = [in EXCEPT ![f] = Tail(@)]
      /\ UNCHANGED <<size_of, snd, dpc, chunks, file>>
  BY DEF RecvItem, MainAt, Recv, Aside, deputy
<1>2. ~Reading(f)
  <2>1. PICK s \in Source : pollfds[start].fd = s /\ Where(s) # {}
    BY <1>1 DEF Polls, Chosen
  <2> QED
    BY <1>1, <2>1 DEF Polls, Apart
<1>3. PICK n \in 0 .. MaxItems[f], at \in Seq(Nat \X Nat) : SourceAt(f, n, at)
  BY DEF InStep
<1> DEFINE a == at[1]
           id == <<f, a[1]>>
<1>4. /\ n \in Nat /\ a \in Nat \X Nat /\ a = <<a[1], a[2]>> /\ a[1] \in 1 .. n /\ id \in Item
      /\ Head(in[f]) = Whole(id)[a[2]]
  <2>1. Sent(f, n) /\ Line(f, n, at)
    BY <1>3 DEF SourceAt
  <2>2. /\ n \in Nat /\ at[1] \in Nat \X Nat /\ at[1] = <<at[1][1], at[1][2]>>
        /\ at[1][1] \in 1 .. n => <<f, at[1][1]>> \in Item
    BY <2>1, StartedOf, SMTT(30)
  <2>3. at[1][1] \in 1 .. n /\ Head(in[f]) = Whole(<<f, at[1][1]>>)[at[1][2]]
    BY <1>1, <2>1, FirstOf
  <2> QED
    BY <2>2, <2>3
<1>5. \A jd \in Item : jd[1] = f => ~Reads(jd)
  BY <1>2, ReadingIs
<1>6. a[2] = 1
  <2>1. \A jd \in Item : jd[1] = f => dpc[jd] \notin Getting
    BY <1>5 DEF Reads, Getting
  <2>2. SomeoneAt(f, a)
    BY <1>3 DEF SourceAt, Stage
  <2> QED
    BY <1>1, <2>1, <2>2 DEF SomeoneAt, Relaying
<1> HIDE DEF id, a
<1>7. /\ id[1] = f /\ id[2] = a[1]
  BY DEF id
<1>8. Whole(id)[1] = ItemMsg(id) /\ Places(f, a[1]) = Len(Whole(id)) /\ Len(Whole(id)) >= 2
      /\ Len(Whole(id)) \in Nat
  BY <1>4, <1>7, ItemIs
<1>9. Head(in[f]) = ItemMsg(id)
  BY <1>4, <1>6, <1>8
<1>10. Polls' /\ mpc' = "item" /\ curr' = id /\ over' = over
  BY <1>4, <1>7, <1>9, PollsRecvItem
<1>11. Succ(f, a)' = <<a[1], 2>>
  <2>1. Places(f, a[1])' = Places(f, a[1])
    BY <1>1, WholeSame DEF Places
  <2> QED
    BY <1>6, <1>8, <2>1, SMTT(20) DEF Succ
<1>12. Stage(f, <<a[1], 2>>)'
  <2>1. MainStage(f, <<a[1], 2>>)'
    BY <1>7, <1>10 DEF MainStage
  <2>2. SomeoneAt(f, <<a[1], 2>>)'
    BY <1>10 DEF SomeoneAt, Relaying, id
  <2>3. ASSUME NEW jd \in Item, jd[1] = f
        PROVE  DeputyStage(jd, <<a[1], 2>>)'
    <3>1. DeputyStage(jd, a)
      BY <1>3, <2>3 DEF SourceAt, Stage, a
    <3>2. dpc[jd] \notin {"header", "chunk", "resume"}
      BY <1>5, <2>3 DEF Reads
    <3> QED
      BY <1>1, <3>1, <3>2 DEF DeputyStage
  <2> QED
    BY <2>1, <2>2, <2>3 DEF Stage
<1>13. Found(f)' /\ \A r \in Source \ {f} : Left(r)' = Left(r)
  <2>1. Stage(f, Succ(f, at[1]))'
    BY <1>11, <1>12 DEF a
  <2> QED
    BY <1>1, <1>3, <2>1, FoundTaken
<1>14. \A r \in Source \ {f} : DeputiesSame(r) /\ MainSame(r)
  BY <1>1, <1>7, <1>10 DEF DeputiesSame, DeputySame, MainSame, Busy, Relaying
<1>15. InStep'
  BY <1>13, <1>14, InStepBut DEF Polls
<1> QED
  BY <1>4, <1>10, <1>15

\* handle_item_relay passes to the text or to the file its item announced.
LEMMA InStepRelayItem ==
    ASSUME RelayAssumption, Types, Polls, InStep, RelayItem
    PROVE  /\ InStep' /\ Polls' /\ mpc' \in {"text", "file"} /\ UNCHANGED curr
           /\ pollfds' \in Seq(Entry) /\ count' \in 0 .. Len(pollfds')
<1>1. /\ mpc = "item" /\ mpc' = (IF size_of[curr] = Text THEN "text" ELSE "file")
      /\ UNCHANGED <<size_of, snd, in, eof, dpc, chunks, file, curr, fd, todos>>
      /\ SendMsg(ItemMsg(curr)) \/ SendMsgFails(ItemMsg(curr))
  BY DEF RelayItem, MainAt, Goto, Calm, deputy
<1>2. Polls' /\ pollfds' \in Seq(Entry) /\ count' \in 0 .. Len(pollfds')
  <2>1. Lists(pollfds', count') /\ mistaken' = mistaken
    BY <1>1, Sends
  <2> QED
    BY <1>1, <2>1, PollsRelay DEF Relaying
<1>3. PICK s \in Source, k \in Nat : curr = <<s, k>> /\ curr \in Item
  <2>1. curr \in Item
    BY <1>1 DEF Polls, Chosen, Relaying
  <2> QED
    BY <2>1, Items
<1>4. curr[1] = s /\ curr[2] = k
  BY <1>3
<1>5. PICK n \in 0 .. MaxItems[s], at \in Seq(Nat \X Nat) : SourceAt(s, n, at)
  BY DEF InStep
<1>6. at[1] = <<k, 2>>
  BY <1>1, <1>4, <1>5 DEF SourceAt, Stage, MainStage, Relaying
<1>7. size_of[curr] \in Nat \cup {Text}
  <2>1. at[1][1] = k /\ at[1][2] = 2
    BY <1>6
  <2>2. Sent(s, n) /\ Line(s, n, at)
    BY <1>5 DEF SourceAt
  <2>3. /\ at[1][1] \in 1 .. n => size_of[<<s, at[1][1]>>] \in Nat \cup {Text}
        /\ at[1][2] # 1 => at[1][1] \in 1 .. n
    BY <2>2, StartedOf
  <2> QED
    BY <1>3, <2>1, <2>3
<1>8. Stage(s, at[1])'
  <2>1. MainStage(s, at[1])'
    BY <1>1, <1>4, <1>6, <1>7 DEF MainStage
  <2>2. SomeoneAt(s, at[1])'
    BY <1>1, <1>3, <1>6 DEF SomeoneAt, Relaying
  <2>3. ASSUME NEW id \in Item, id[1] = s
        PROVE  DeputyStage(id, at[1])'
    <3>1. DeputyStage(id, at[1]) /\ DeputySame(id)
      BY <1>1, <1>5, <2>3 DEF SourceAt, Stage, DeputySame
    <3> QED
      BY <3>1, DeputyStageSame
  <2> QED
    BY <2>1, <2>2, <2>3 DEF Stage
<1>9. Found(s)'
  <2>1. Left(s)' = Left(s)
    BY <1>1 DEF Left
  <2>2. Sent(s, n)' /\ Line(s, n, at)'
    <3>1. Sent(s, n) /\ Line(s, n, at)
      BY <1>5 DEF SourceAt
    <3>2. \A id \in Item : id[1] = s => size_of'[id] = size_of[id]
      BY <1>1
    <3> QED
      BY <2>1, <3>1, <3>2, LineSame
  <2>3. SourceAt(s, n, at)'
    BY <1>8, <2>2 DEF SourceAt
  <2> QED
    BY <2>3 DEF Found
<1>10. \A r \in Source \ {s} : DeputiesSame(r) /\ MainSame(r) /\ Left(r)' = Left(r)
  BY <1>1, <1>4 DEF DeputiesSame, DeputySame, MainSame, Busy, Left
<1>11. InStep'
  BY <1>9, <1>10, InStepBut DEF Polls
<1> QED
  BY <1>1, <1>2, <1>11

\* The source that the main thread relays from, and the item.
LEMMA RelayedOf ==
    ASSUME RelayAssumption, Polls, InStep, mpc \in Relaying
    PROVE  \E s \in Source, k \in Nat :
              /\ curr = <<s, k>> /\ curr \in Item /\ fd = s
              /\ \A id \in Item : id[1] = s => ~Reads(id)
              /\ \E n \in 0 .. MaxItems[s], at \in Seq(Nat \X Nat) :
                    SourceAt(s, n, at) /\ at[1] = <<k, 2>>
<1>1. curr \in Item /\ fd = curr[1] /\ ~Reading(fd)
  BY DEF Polls, Chosen
<1>2. PICK s \in Source, k \in Nat : curr = <<s, k>>
  BY <1>1, Items
<1>3. curr[1] = s /\ curr[2] = k
  BY <1>2
<1>4. PICK n \in 0 .. MaxItems[s], at \in Seq(Nat \X Nat) : SourceAt(s, n, at)
  BY DEF InStep
<1>5. at[1] = <<k, 2>>
  BY <1>3, <1>4 DEF SourceAt, Stage, MainStage
<1>6. \A id \in Item : id[1] = s => ~Reads(id)
  BY <1>1, <1>3, ReadingIs
<1> QED
  BY <1>1, <1>2, <1>3, <1>4, <1>5, <1>6

\* The text the main thread takes for one is the text of its item.
LEMMA InStepRelayText ==
    ASSUME RelayAssumption, Types, Polls, InStep, RelayText
    PROVE  /\ InStep' /\ Polls' /\ over' = over /\ mpc' = "todos" /\ UNCHANGED <<start, mistaken>>
           /\ pollfds' \in Seq(Entry) /\ count' \in 0 .. Len(pollfds')
<1>1. /\ mpc = "text" /\ in[fd] # << >> /\ in' = [in EXCEPT ![fd] = Tail(@)]
      /\ UNCHANGED <<size_of, snd, eof, dpc, chunks, file, fd, todos>>
      /\ Head(in[fd]) = TextMsg(curr) =>
            /\ mpc' = "todos" /\ over' = over
            /\ SendMsg(TextMsg(curr)) \/ SendMsgFails(TextMsg(curr))
  BY DEF RelayText, MainAt, Goto, deputy
<1>2. PICK s \in Source, k \in Nat :
          /\ curr = <<s, k>> /\ curr \in Item /\ fd = s
          /\ \A id \in Item : id[1] = s => ~Reads(id)
          /\ \E n \in 0 .. MaxItems[s], at \in Seq(Nat \X Nat) :
                SourceAt(s, n, at) /\ at[1] = <<k, 2>>
  BY <1>1, RelayedOf DEF Relaying
<1>3. PICK n \in 0 .. MaxItems[s], at \in Seq(Nat \X Nat) : SourceAt(s, n, at) /\ at[1] = <<k, 2>>
  BY <1>2
<1>4. curr[1] = s /\ curr[2] = k /\ at[1][1] = k /\ at[1][2] = 2
  BY <1>2, <1>3
<1>5. size_of[curr] \notin Nat
  BY <1>1, <1>3, <1>4 DEF SourceAt, Stage, MainStage, Relaying, RelayAssumption
<1>6. Len(Whole(curr)) = 2 /\ Whole(curr)[2] = TextMsg(curr) /\ Places(s, k) = Len(Whole(curr))
  BY <1>2, <1>4, <1>5, ItemIs DEF IsText
<1>7. Head(in[s]) = Whole(curr)[2]
  <2>1. Sent(s, n) /\ Line(s, n, at)
    BY <1>3 DEF SourceAt
  <2>2. Head(in[s]) = Whole(<<s, at[1][1]>>)[at[1][2]]
    BY <1>1, <1>2, <2>1, FirstOf
  <2> QED
    BY <1>2, <1>4, <2>2
<1>8. /\ mpc' = "todos" /\ over' = over
      /\ SendMsg(TextMsg(curr)) \/ SendMsgFails(TextMsg(curr))
  BY <1>1, <1>2, <1>6, <1>7
<1>9. /\ Polls' /\ pollfds' \in Seq(Entry) /\ count' \in 0 .. Len(pollfds')
      /\ UNCHANGED <<start, mistaken>>
  <2>1. Lists(pollfds', count') /\ UNCHANGED <<start, mistaken>>
    BY <1>8, Sends
  <2> QED
    BY <1>1, <1>8, <2>1, PollsRelay
<1>10. Succ(s, at[1])' = <<k + 1, 1>>
  <2>1. Places(s, k)' = Places(s, k)
    BY <1>1, WholeSame DEF Places
  <2> QED
    BY <1>4, <1>6, <2>1 DEF Succ
<1>11. Stage(s, Succ(s, at[1]))'
  <2>1. MainStage(s, <<k + 1, 1>>)'
    BY <1>8 DEF MainStage, Relaying
  <2>2. SomeoneAt(s, <<k + 1, 1>>)'
    BY DEF SomeoneAt
  <2>3. ASSUME NEW jd \in Item, jd[1] = s
        PROVE  DeputyStage(jd, <<k + 1, 1>>)'
    <3>1. DeputyStage(jd, at[1])
      BY <1>3, <2>3 DEF SourceAt, Stage
    <3>2. dpc[jd] \notin {"header", "chunk", "resume"}
      BY <1>2, <2>3 DEF Reads
    <3>3. jd[2] \in Nat
      BY Items
    <3> QED
      BY <1>1, <1>4, <3>1, <3>2, <3>3 DEF DeputyStage
  <2>4. Stage(s, <<k + 1, 1>>)'
    BY <2>1, <2>2, <2>3 DEF Stage
  <2> QED
    BY <1>10, <2>4
<1>12. Found(s)' /\ \A r \in Source \ {s} : Left(r)' = Left(r)
  BY <1>1, <1>2, <1>3, <1>11, FoundTaken
<1>13. \A r \in Source \ {s} : DeputiesSame(r) /\ MainSame(r)
  BY <1>1, <1>4, <1>8 DEF DeputiesSame, DeputySame, MainSame, Busy, Relaying
<1>14. InStep'
  BY <1>12, <1>13, InStepBut DEF Polls
<1> QED
  BY <1>8, <1>9, <1>14

\* The deputy that begins is at the header of its file.
LEMMA InStepRelayFile ==
    ASSUME RelayAssumption, Types, Polls, InStep, RelayFile
    PROVE  InStep' /\ \E id \in Item : dpc' = [dpc EXCEPT ![id] = "header"]
<1>1. /\ mpc = "file" /\ mpc' = "todos" /\ dpc' = [dpc EXCEPT ![curr] = "header"]
      /\ UNCHANGED <<size_of, snd, in, chunks, file>>
  BY DEF RelayFile, MainAt, Goto
<1>2. PICK s \in Source, k \in Nat :
          /\ curr = <<s, k>> /\ curr \in Item /\ fd = s
          /\ \A id \in Item : id[1] = s => ~Reads(id)
          /\ \E n \in 0 .. MaxItems[s], at \in Seq(Nat \X Nat) :
                SourceAt(s, n, at) /\ at[1] = <<k, 2>>
  BY <1>1, RelayedOf DEF Relaying
<1>3. PICK n \in 0 .. MaxItems[s], at \in Seq(Nat \X Nat) : SourceAt(s, n, at) /\ at[1] = <<k, 2>>
  BY <1>2
<1>4. curr[1] = s /\ curr[2] = k /\ at[1][1] = k /\ at[1][2] = 2
  BY <1>2, <1>3
<1>5. size_of[curr] \in Nat
  BY <1>1, <1>3, <1>4 DEF SourceAt, Stage, MainStage, Relaying
<1>6. /\ dpc'[curr] = "header" /\ \A id \in Item : id # curr => dpc'[id] = dpc[id]
  BY <1>1, <1>2 DEF Types, ServerTypes
<1>7. ASSUME NEW id \in Item, id[1] = s
      PROVE  DeputyStage(id, at[1])'
  <2>1. DeputyStage(id, at[1])
    BY <1>3, <1>7 DEF SourceAt, Stage
  <2>2. CASE id = curr
    <3>1. dpc[curr] \notin {"header", "chunk", "resume"}
      BY <1>2, <1>7, <2>2 DEF Reads
    <3>2. dpc[curr] \in {"none", "header", "chunk", "resume", "callback", "ended"}
      BY <1>2 DEF Types, ServerTypes
    <3>3. dpc[curr] \notin {"callback", "ended"}
      BY <1>4, <2>1, <2>2 DEF DeputyStage
    <3>4. file[curr] = << >>
      BY <2>1, <2>2, <3>1, <3>2, <3>3 DEF DeputyStage
    <3> QED
      BY <1>1, <1>3, <1>4, <1>5, <1>6, <2>2, <3>4 DEF DeputyStage
  <2>3. CASE id # curr
    BY <1>1, <1>6, <2>1, <2>3, DeputyStageSame DEF DeputySame
  <2> QED
    BY <2>2, <2>3
<1>8. Stage(s, at[1])'
  <2>1. MainStage(s, at[1])'
    BY <1>1 DEF MainStage, Relaying
  <2>2. SomeoneAt(s, at[1])'
    BY <1>2, <1>4, <1>6 DEF SomeoneAt, Getting
  <2> QED
    BY <1>7, <2>1, <2>2 DEF Stage
<1>9. Found(s)'
  <2>1. Left(s)' = Left(s)
    BY <1>1 DEF Left
  <2>2. Sent(s, n)' /\ Line(s, n, at)'
    <3>1. Sent(s, n) /\ Line(s, n, at)
      BY <1>3 DEF SourceAt
    <3>2. \A id \in Item : id[1] = s => size_of'[id] = size_of[id]
      BY <1>1
    <3> QED
      BY <2>1, <3>1, <3>2, LineSame
  <2>3. SourceAt(s, n, at)'
    BY <1>8, <2>2 DEF SourceAt
  <2> QED
    BY <2>3 DEF Found
<1>10. \A r \in Source \ {s} : DeputiesSame(r) /\ MainSame(r) /\ Left(r)' = Left(r)
  BY <1>1, <1>4, <1>6 DEF DeputiesSame, DeputySame, MainSame, Busy, Left, Relaying
<1>11. InStep'
  BY <1>9, <1>10, InStepBut DEF Polls
<1>12. PICK id \in Item : id = curr
  BY <1>2
<1> QED
  BY <1>1, <1>11, <1>12

\* The deputy of id now waits for c chunks, has written q, and b is next.
Gets(s, id, a, c, q, pc, b) ==
    /\ chunks' = [chunks EXCEPT ![id] = c] /\ file' = [file EXCEPT ![id] = q]
    /\ dpc' = [dpc EXCEPT ![id] = pc] /\ b = Succ(s, a)'
    /\ b[1] >= a[1] /\ a[1] = id[2] /\ (b[2] = 1 \/ pc = "chunk")
    /\ DeputyStage(id, b)'
Got(s, id, a) ==
    \E c \in Int, q \in Seq(Nat), pc \in {"resume", "chunk"}, b \in Nat \X Nat :
        Gets(s, id, a, c, q, pc, b)

\* A deputy takes a message for what it is, and stays in step.
LEMMA DeputyGets ==
    ASSUME RelayAssumption, Types, NEW s \in Source, NEW k \in Nat, NEW id \in Item,
           id = <<s, k>>, id[1] = s, id[2] = k, DeputyGet(id),
           NEW n \in 0 .. MaxItems[s], NEW at \in Seq(Nat \X Nat), SourceAt(s, n, at)
    PROVE  /\ over' = over /\ dpc[id] \in Getting /\ in[s] # << >>
           /\ in' = [in EXCEPT ![s] = Tail(@)] /\ UNCHANGED <<size_of, snd, mpc, curr>>
           /\ Got(s, id, at[1])
<1>1. /\ dpc[id] \in Getting /\ in[s] # << >> /\ in' = [in EXCEPT ![s] = Tail(@)]
      /\ UNCHANGED <<size_of, snd, mpc, curr>>
  BY DEF DeputyGet, DeputyAt, main
<1>2. /\ Places(s, k) = Len(Whole(id)) /\ Len(Whole(id)) \in Nat /\ Len(Whole(id)) >= 2
      /\ size_of[id] \in Nat => IsFile(id, size_of[id], Whole(id))
  BY ItemIs
<1>3. Sent(s, n) /\ Line(s, n, at) /\ DeputyStage(id, at[1])
  BY DEF SourceAt, Stage
<1>4. PICK w, z, m : w = Whole(id) /\ z = size_of[id] /\ m = Head(in[s])
  OBVIOUS
<1>5. at[1] \in Nat \X Nat /\ at[1] = <<at[1][1], at[1][2]>>
  <2>1. Sent(s, n) /\ Line(s, n, at)
    BY <1>3
  <2>2. /\ n \in Nat /\ at[1] \in Nat \X Nat /\ at[1] = <<at[1][1], at[1][2]>>
        /\ at[1][1] \in 1 .. n => <<s, at[1][1]>> \in Item
    BY <2>1, StartedOf, SMTT(30)
  <2> QED
    BY <2>2
<1>6. PICK p \in Nat : p = at[1][2]
  BY <1>5
<1>7. at[1][1] = k /\ z \in Nat /\ at[1] = <<k, p>>
  BY <1>1, <1>3, <1>4, <1>5, <1>6 DEF DeputyStage, Getting
<1>8. p \in 1 .. Len(w) /\ m = w[p]
  <2>1. at[1][2] \in 1 .. Places(s, at[1][1]) /\ m = Whole(<<s, at[1][1]>>)[at[1][2]]
    BY <1>1, <1>3, <1>4, FirstOf
  <2> QED
    BY <1>2, <1>4, <1>6, <1>7, <2>1
<1>9. IsFile(id, z, w) /\ Len(w) \in Nat
  BY <1>2, <1>4, <1>7
<1>10. Places(s, k)' = Len(w)
  <2>1. Places(s, k)' = Len(Whole(id))'
    BY DEF Places
  <2> QED
    BY <1>1, <1>4, <2>1, WholeSame
<1>11. PICK b : b = Succ(s, at[1])' /\ b = IF p = Len(w) THEN <<k + 1, 1>> ELSE <<k, p + 1>>
  BY <1>6, <1>7, <1>10 DEF Succ
<1>12. b \in Nat \X Nat /\ b[1] >= k
  BY <1>6, <1>11, SMTT(30)
<1>13. /\ dpc \in [Item -> {"none", "header", "chunk", "resume", "callback", "ended"}]
       /\ chunks \in [Item -> Int] /\ file \in [Item -> Seq(Nat)]
       /\ CHUNK_SIZE \in Nat \ {0}
  BY Items DEF Types, ServerTypes
<1>14. CASE dpc[id] = "header"
  <2>1. /\ p = 2 /\ file[id] = << >> /\ m = Header(id, NumChunks(z)) /\ NumChunks(z) \in Nat
        /\ Len(w) = NumChunks(z) + 2 /\ (NumChunks(z) = 0 => z = 0)
    BY <1>3, <1>6, <1>7, <1>8, <1>9, <1>14 DEF DeputyStage, IsFile
  <2>2. PICK c \in Nat : c = NumChunks(z) /\ m = Header(id, c) /\ Len(w) = c + 2
    BY <2>1
  <2>3. Type(m) = "header" /\ Data(m) = c
    BY <2>2 DEF Header, Type, Data
  <2>4. PICK pc \in {"resume", "chunk"}, q \in Seq(Nat) :
            pc = (IF c = 0 THEN "resume" ELSE "chunk") /\ q = << >>
    <3>1. << >> \in Seq(Nat) /\ (IF c = 0 THEN "resume" ELSE "chunk") \in {"resume", "chunk"}
      OBVIOUS
    <3> QED
      BY <3>1, Zenon
  <2>5. /\ chunks' = [chunks EXCEPT ![id] = c] /\ file' = file /\ over' = over
        /\ dpc' = [dpc EXCEPT ![id] = pc]
    BY <1>4, <1>13, <1>14, <2>3, <2>4, ZenonT(30) DEF DeputyGet
  <2>6. /\ chunks'[id] = c /\ dpc'[id] = pc /\ file'[id] = << >>
        /\ file' = [file EXCEPT ![id] = q]
    BY <1>13, <2>1, <2>4, <2>5
  <2>7. Bytes(0) = << >> /\ CHUNK_SIZE * 0 = 0
    BY <1>13 DEF Bytes
  <2>8. DeputyStage(id, b)'
    <3>1. CASE c = 0
      <4>1. b = <<k + 1, 1>> /\ pc = "resume" /\ z = 0
        BY <1>11, <2>1, <2>2, <2>4, <3>1
      <4>2. id[2] < k + 1 /\ size_of'[id] = 0 /\ file'[id] = Bytes(0)
        BY <1>1, <1>4, <2>6, <2>7, <4>1
      <4> QED
        BY <2>6, <4>1, <4>2 DEF DeputyStage
    <3>2. CASE c # 0
      <4>1. b = <<k, 3>> /\ pc = "chunk"
        BY <1>11, <2>1, <2>2, <2>4, <3>2
      <4>2. /\ c = Places(s, k)' - 3 + 1 /\ c > 0
            /\ file'[id] = Bytes(CHUNK_SIZE * (3 - 3)) /\ size_of'[id] \in Nat
        <5>1. c = Len(w) - 3 + 1 /\ c > 0
          BY <2>2, <3>2, SMTT(20)
        <5>2. CHUNK_SIZE * (3 - 3) = 0
          BY <2>7
        <5> QED
          BY <1>1, <1>4, <1>7, <1>10, <2>6, <2>7, <5>1, <5>2
      <4> QED
        BY <2>6, <4>1, <4>2 DEF DeputyStage
    <3> QED
      BY <3>1, <3>2
  <2>9. b[2] = 1 \/ pc = "chunk"
    BY <1>11, <2>1, <2>2, <2>4
  <2>10. Gets(s, id, at[1], c, q, pc, b)
    BY <1>7, <1>11, <1>12, <2>5, <2>6, <2>8, <2>9 DEF Gets
  <2>11. c \in Int
    OBVIOUS
  <2>12. Got(s, id, at[1])
    BY <1>12, <2>10, <2>11, ZenonT(60) DEF Got
  <2> QED
    BY <1>1, <2>5, <2>12
<1>15. CASE dpc[id] = "chunk"
  <2>1. /\ p > 2 /\ chunks[id] = Len(w) - p + 1 /\ file[id] = Bytes(CHUNK_SIZE * (p - 3))
    BY <1>2, <1>3, <1>4, <1>7, <1>15 DEF DeputyStage
  <2>2. NumChunks(z) = Len(w) - 2 /\ Piece(id, z, m, p - 2)
    <3>1. NumChunks(z) \in Nat /\ Len(w) = NumChunks(z) + 2
      BY <1>9 DEF IsFile
    <3>2. p \in 3 .. Len(w)
      BY <1>8, <1>9, <2>1
    <3>3. \A i \in 3 .. Len(w) : Piece(id, z, w[i], i - 2)
      BY <1>9 DEF IsFile
    <3>4. NumChunks(z) = Len(w) - 2
      BY <1>9, <3>1
    <3> QED
      BY <1>8, <3>2, <3>3, <3>4
  <2>3. PICK e \in Seq(Nat) :
            /\ m = Chunk(id, e)
            /\ Bytes(CHUNK_SIZE * (p - 3)) \o e =
                   Bytes(IF p = Len(w) THEN z ELSE CHUNK_SIZE * (p - 2))
    <3>1. (p - 2) - 1 = p - 3 /\ (p - 2 = NumChunks(z) <=> p = Len(w))
      <4>1. Len(w) \in Nat
        BY <1>9
      <4>2. NumChunks(z) = Len(w) - 2
        BY <2>2
      <4> QED
        BY <4>1, <4>2
    <3> QED
      BY <2>2, <3>1 DEF Piece
  <2>4. Type(m) = "chunk" /\ Data(m) = e
    BY <2>3 DEF Chunk, Type, Data
  <2>5. PICK c \in Nat : c = Len(w) - p /\ chunks[id] - 1 = c
    <3>1. Len(w) - p \in Nat
      BY <1>8, <1>9
    <3>2. chunks[id] - 1 = Len(w) - p
      BY <1>9, <2>1
    <3> QED
      BY <3>1, <3>2
  <2>6. PICK pc \in {"resume", "chunk"}, q \in Seq(Nat) :
            pc = (IF c = 0 THEN "resume" ELSE "chunk") /\ q = file[id] \o e
    <3>1. file[id] \o e \in Seq(Nat)
      BY <1>13, ConcatOf
    <3> QED
      BY <3>1
  <2>7. /\ chunks' = [chunks EXCEPT ![id] = c] /\ over' = over
        /\ file' = [file EXCEPT ![id] = q] /\ dpc' = [dpc EXCEPT ![id] = pc]
    BY <1>4, <1>13, <1>15, <2>4, <2>5, <2>6 DEF DeputyGet
  <2>8. /\ chunks'[id] = c /\ dpc'[id] = pc
        /\ file'[id] = Bytes(IF p = Len(w) THEN z ELSE CHUNK_SIZE * (p - 2))
    BY <1>13, <2>1, <2>3, <2>6, <2>7
  <2>9. DeputyStage(id, b)'
    <3>1. CASE c = 0
      <4>1. b = <<k + 1, 1>> /\ pc = "resume" /\ file'[id] = Bytes(z)
        BY <1>9, <1>11, <2>5, <2>6, <2>8, <3>1
      <4>2. id[2] < k + 1 /\ size_of'[id] = z
        BY <1>1, <1>4
      <4> QED
        BY <1>7, <2>8, <4>1, <4>2 DEF DeputyStage
    <3>2. CASE c # 0
      <4>1. b = <<k, p + 1>> /\ pc = "chunk"
        <5>1. p # Len(w)
          BY <1>9, <2>5, <3>2
        <5> QED
          BY <1>11, <2>6, <3>2, <5>1
      <4>2. (p + 1) - 3 = p - 2 /\ p + 1 > 2 /\ p # Len(w)
        <5>1. p \in Nat /\ p > 2
          BY <1>8, <1>9, <2>1
        <5> QED
          BY <1>9, <2>5, <3>2, <5>1
      <4>3. /\ c = Places(s, k)' - (p + 1) + 1 /\ c > 0
            /\ file'[id] = Bytes(CHUNK_SIZE * ((p + 1) - 3)) /\ size_of'[id] \in Nat
        BY <1>1, <1>4, <1>7, <1>9, <1>10, <2>5, <2>8, <3>2, <4>2
      <4> QED
        BY <2>8, <4>1, <4>2, <4>3 DEF DeputyStage
    <3> QED
      BY <3>1, <3>2
  <2>10. b[2] = 1 \/ pc = "chunk"
    BY <1>9, <1>11, <2>5, <2>6
  <2>11. Gets(s, id, at[1], c, q, pc, b)
    BY <1>7, <1>11, <1>12, <2>7, <2>9, <2>10 DEF Gets
  <2>12. c \in Int
    OBVIOUS
  <2>13. Got(s, id, at[1])
    BY <1>12, <2>11, <2>12, ZenonT(60) DEF Got
  <2> QED
    BY <1>1, <2>7, <2>13
<1> QED
  BY <1>1, <1>14, <1>15 DEF Getting

\* What a deputy takes is the header or the next chunk of its file, never another message;
\* with the last chunk it has all bytes.
LEMMA InStepDeputyGet ==
    ASSUME RelayAssumption, Types, Polls, InStep, NEW id \in Item, DeputyGet(id)
    PROVE  /\ InStep' /\ over' = over
           /\ chunks' \in [Item -> Int] /\ file' \in [Item -> Seq(Nat)]
           /\ dpc' \in [Item -> {"none", "header", "chunk", "resume", "callback", "ended"}]
<1>1. PICK s \in Source, k \in Nat : id = <<s, k>> /\ id[1] = s /\ id[2] = k
  BY Items
<1>2. PICK n \in 0 .. MaxItems[s], at \in Seq(Nat \X Nat) : SourceAt(s, n, at)
  BY DEF InStep
<1>3. /\ over' = over /\ dpc[id] \in Getting /\ in[s] # << >> /\ Got(s, id, at[1])
      /\ in' = [in EXCEPT ![s] = Tail(@)] /\ UNCHANGED <<size_of, snd, mpc, curr>>
  BY <1>1, <1>2, DeputyGets
<1>4. PICK c \in Int, q \in Seq(Nat), pc \in {"resume", "chunk"}, b \in Nat \X Nat :
          Gets(s, id, at[1], c, q, pc, b)
  BY <1>3 DEF Got
<1>5. /\ dpc \in [Item -> {"none", "header", "chunk", "resume", "callback", "ended"}]
      /\ chunks \in [Item -> Int] /\ file \in [Item -> Seq(Nat)]
  BY DEF Types, ServerTypes
<1>6. /\ chunks' \in [Item -> Int] /\ file' \in [Item -> Seq(Nat)]
      /\ dpc' \in [Item -> {"none", "header", "chunk", "resume", "callback", "ended"}]
  BY <1>3, <1>4, <1>5 DEF Gets
<1>7. \A jd \in Item : jd # id => /\ chunks'[jd] = chunks[jd] /\ file'[jd] = file[jd]
                                  /\ dpc'[jd] = dpc[jd] /\ size_of'[jd] = size_of[jd]
  BY <1>3, <1>4, <1>5 DEF Gets
<1>8. Reads(id) /\ Reading(s) /\ \A jd \in Item : jd[1] = s /\ jd # id => ~Reads(jd)
  <2>1. Reads(id)
    BY <1>3 DEF Reads, Getting
  <2> QED
    BY <1>1, <2>1, ReadingIs DEF Polls, ReadOnce
<1>9. ~Busy(s)
  BY <1>8 DEF Busy, Polls, Chosen
<1>10. Stage(s, b)'
  <2>1. MainStage(s, b)'
    BY <1>3, <1>9 DEF MainStage, Busy
  <2>2. SomeoneAt(s, b)'
    BY <1>1, <1>4, <1>5 DEF Gets, SomeoneAt, Getting
  <2>3. ASSUME NEW jd \in Item, jd[1] = s
        PROVE  DeputyStage(jd, b)'
    <3>1. CASE jd = id
      BY <1>4, <3>1 DEF Gets
    <3>2. CASE jd # id
      <4>1. DeputyStage(jd, at[1])
        BY <1>2, <2>3 DEF SourceAt, Stage
      <4>2. dpc[jd] \notin {"header", "chunk", "resume"}
        BY <1>8, <2>3, <3>2 DEF Reads
      <4>3. jd[2] < at[1][1] => jd[2] < b[1]
        BY <1>1, <1>4, Items, SMTT(30) DEF Gets
      <4> QED
        BY <1>7, <3>2, <4>1, <4>2, <4>3 DEF DeputyStage
    <3> QED
      BY <3>1, <3>2
  <2> QED
    BY <2>1, <2>2, <2>3 DEF Stage
<1>11. Found(s)' /\ \A r \in Source \ {s} : Left(r)' = Left(r)
  <2>1. Stage(s, Succ(s, at[1]))'
    BY <1>4, <1>10 DEF Gets
  <2> QED
    BY <1>2, <1>3, <2>1, FoundTaken
<1>12. \A r \in Source \ {s} : DeputiesSame(r) /\ MainSame(r)
  BY <1>1, <1>3, <1>7 DEF DeputiesSame, DeputySame, MainSame
<1>13. InStep'
  BY <1>11, <1>12, InStepBut DEF Polls
<1> QED
  BY <1>3, <1>6, <1>13

Grown(s, k, a) == \E bt \in Seq(Nat \X Nat) : Line(s, k, bt)' /\ bt[1] = a

\* The places of an item and what it brings go behind those of the items before it.
LEMMA LineGrows ==
    ASSUME RelayAssumption, Types, NEW s \in Source, NEW n \in Nat, NEW k \in Nat, k = n + 1,
           NEW at \in Seq(Nat \X Nat), Line(s, n, at), Left(s) = in[s],
           \A j \in 1 .. n : size_of'[<<s, j>>] = size_of[<<s, j>>],
           NEW w \in Seq(Message), Len(w) >= 2, Whole(<<s, k>>)' = w,
           Left(s)' = in[s] \o w
    PROVE  Grown(s, k, at[1])
<1>1. PICK i \in Seq(Message) : i = in[s]
  BY DEF Types, PeerTypes
<1>2. PICK p \in Nat : p = Len(w) /\ p >= 2
  BY Seqs
<1>3. PICK l \in Nat : l = Len(i)
  BY Seqs
<1>4. /\ Len(at) = l + 1 /\ at[l + 1] = <<k, 1>>
      /\ \A j \in 1 .. l :
            /\ at[j][1] \in 1 .. n /\ at[j][2] \in 1 .. Places(s, at[j][1])
            /\ i[j] = Whole(<<s, at[j][1]>>)[at[j][2]]
            /\ at[j + 1] = Succ(s, at[j])
  BY <1>1, <1>3 DEF Line
<1> DEFINE ct == [j \in 1 .. p |-> IF j = p THEN <<k + 1, 1>> ELSE <<k, j + 1>>]
<1>5. ct \in Seq(Nat \X Nat) /\ Len(ct) = p /\ ct[p] = <<k + 1, 1>>
      /\ \A j \in 1 .. p : j # p => ct[j] = <<k, j + 1>>
  <2>1. \A j \in 1 .. p : ct[j] \in Nat \X Nat
    BY <1>2, SMTT(30)
  <2> QED
    BY <1>2, <2>1, SMTT(30)
<1> HIDE DEF ct
<1>6. PICK bt \in Seq(Nat \X Nat) :
          /\ Len(bt) = Len(at) + Len(ct) /\ \A j \in 1 .. Len(at) : bt[j] = at[j]
          /\ \A j \in 1 .. Len(ct) : bt[Len(at) + j] = ct[j]
  <2>1. PICK P : P = Nat \X Nat
    OBVIOUS
  <2>2. at \in Seq(P) /\ ct \in Seq(P)
    BY <1>5, <2>1
  <2> DEFINE c == at \o ct
  <2>3. /\ c \in Seq(P)
        /\ Len(c) = Len(at) + Len(ct) /\ \A j \in 1 .. Len(at) : c[j] = at[j]
        /\ \A j \in 1 .. Len(ct) : c[Len(at) + j] = ct[j]
    BY <2>2, ConcatOf
  <2> HIDE DEF c
  <2> QED
    BY <2>3, <2>1
<1>7. /\ Len(bt) = (l + 1) + p /\ \A j \in 1 .. l + 1 : bt[j] = at[j]
      /\ \A j \in 1 .. p : bt[(l + 1) + j] = ct[j]
  BY <1>4, <1>5, <1>6
<1>8. PICK left \in Seq(Message) : left = i \o w
  BY ConcatOf
<1>9. /\ Len(left) = l + p /\ \A j \in 1 .. l : left[j] = i[j]
      /\ \A j \in 1 .. p : left[l + j] = w[j]
  <2>1. /\ Len(left) = Len(i) + Len(w) /\ \A j \in 1 .. Len(i) : left[j] = i[j]
        /\ \A j \in 1 .. Len(w) : left[Len(i) + j] = w[j]
    BY <1>8, ConcatOf
  <2> QED
    BY <1>2, <1>3, <2>1
<1>10. Left(s)' = left
  BY <1>1, <1>8
<1>11. \A j \in 1 .. n : Whole(<<s, j>>)' = Whole(<<s, j>>) /\ Places(s, j)' = Places(s, j)
  BY WholeSame DEF Places
<1>12. Places(s, k)' = p
  BY <1>2 DEF Places
<1>13. \A j \in 1 .. p : bt[l + j] = <<k, j>>
  <2> TAKE j \in 1 .. p
  <2>1. CASE j = 1
    <3>1. l + 1 \in 1 .. l + 1
      BY <1>3
    <3> QED
      BY <1>4, <1>7, <2>1, <3>1
  <2>2. CASE j # 1
    <3>1. j - 1 \in 1 .. p /\ j - 1 # p /\ (l + 1) + (j - 1) = l + j /\ (j - 1) + 1 = j
      BY <1>2, <1>3, <2>2, SMTT(20)
    <3>2. bt[(l + 1) + (j - 1)] = ct[j - 1] /\ ct[j - 1] = <<k, (j - 1) + 1>>
      BY <1>5, <1>7, <3>1
    <3> QED
      BY <3>1, <3>2
  <2> QED
    BY <2>1, <2>2
<1>14. ASSUME NEW j \in 1 .. l
       PROVE  /\ bt[j][1] \in 1 .. k /\ bt[j][2] \in 1 .. Places(s, bt[j][1])'
              /\ left[j] = Whole(<<s, bt[j][1]>>)'[bt[j][2]]
              /\ bt[j + 1] = Succ(s, bt[j])'
  <2>1. j \in 1 .. l + 1 /\ j + 1 \in 1 .. l + 1
    BY <1>3
  <2>2. bt[j] = at[j] /\ bt[j + 1] = at[j + 1]
    BY <1>7, <2>1
  <2>3. /\ at[j][1] \in 1 .. n /\ at[j][2] \in 1 .. Places(s, at[j][1])
        /\ i[j] = Whole(<<s, at[j][1]>>)[at[j][2]]
        /\ at[j + 1] = Succ(s, at[j])
    BY <1>4
  <2>4. Succ(s, at[j])' = Succ(s, at[j])
    BY <1>11, <2>3 DEF Succ
  <2>5. at[j][1] \in 1 .. k
    BY <2>3, SMTT(30)
  <2>6. Whole(<<s, at[j][1]>>)' = Whole(<<s, at[j][1]>>) /\ Places(s, at[j][1])' = Places(s, at[j][1])
    BY <1>11, <2>3
  <2>7. left[j] = i[j]
    BY <1>9, SMTT(30)
  <2>8. bt[j][1] \in 1 .. k /\ bt[j][2] \in 1 .. Places(s, bt[j][1])'
    BY <2>2, <2>3, <2>5, <2>6
  <2>9. left[j] = Whole(<<s, bt[j][1]>>)'[bt[j][2]]
    BY <2>2, <2>3, <2>6, <2>7
  <2>10. bt[j + 1] = Succ(s, bt[j])'
    BY <2>2, <2>3, <2>4
  <2> QED
    BY <2>8, <2>9, <2>10
<1>15. ASSUME NEW j \in 1 .. p
       PROVE  /\ bt[l + j] = <<k, j>> /\ left[l + j] = Whole(<<s, k>>)'[j]
              /\ bt[(l + j) + 1] = Succ(s, <<k, j>>)'
  <2>1. bt[(l + 1) + j] = ct[j] /\ (l + 1) + j = (l + j) + 1
    BY <1>2, <1>3, <1>7
  <2>2. ct[j] = Succ(s, <<k, j>>)'
    BY <1>5, <1>12 DEF Succ
  <2> QED
    BY <1>9, <1>13, <2>1, <2>2
<1>16. ASSUME NEW j \in 1 .. l + p
       PROVE  /\ bt[j][1] \in 1 .. k /\ bt[j][2] \in 1 .. Places(s, bt[j][1])'
              /\ left[j] = Whole(<<s, bt[j][1]>>)'[bt[j][2]]
              /\ bt[j + 1] = Succ(s, bt[j])'
  <2>1. CASE j \in 1 .. l
    BY <1>14, <2>1
  <2>2. CASE j \notin 1 .. l
    <3>1. PICK m \in 1 .. p : j = l + m
      <4>1. j - l \in 1 .. p /\ j = l + (j - l)
        BY <1>2, <1>3, <2>2
      <4> QED
        BY <4>1
    <3>2. bt[j] = <<k, m>> /\ left[j] = Whole(<<s, k>>)'[m] /\ bt[j + 1] = Succ(s, <<k, m>>)'
      BY <1>15, <3>1
    <3>3. bt[j][1] = k /\ bt[j][2] = m /\ k \in 1 .. k
      BY <3>2
    <3> QED
      BY <1>12, <3>2, <3>3
  <2> QED
    BY <2>1, <2>2
<1>17. Line(s, k, bt)'
  <2>1. Len(bt) = Len(left) + 1 /\ bt[Len(bt)] = <<k + 1, 1>>
    <3>1. Len(bt) = (l + p) + 1 /\ p \in 1 .. p
      BY <1>2, <1>3, <1>7
    <3>2. bt[(l + 1) + p] = ct[p]
      BY <1>7, <3>1
    <3> QED
      BY <1>5, <1>7, <1>9, <3>1, <3>2
  <2> QED
    BY <1>9, <1>10, <1>16, <2>1 DEF Line
<1>18. bt[1] = at[1]
  <2>1. 1 \in 1 .. l + 1
    BY <1>3
  <2> QED
    BY <1>7, <2>1
<1> QED
  BY <1>17, <1>18 DEF Grown

\* A message moves from what a source has to send to what it has sent.
LEMMA AppendConcat ==
    ASSUME NEW S, NEW i \in Seq(S), NEW x \in S, NEW c \in Seq(S), NEW a, a = Append(i, x) \o c
    PROVE  a = i \o (<<x>> \o c)
  OBVIOUS

\* A source begins an item behind all it has sent before.
LEMMA InStepPeerItem ==
    ASSUME RelayAssumption, Types, Polls, InStep, NEW s \in Source, NEW z \in Sizes[s],
           PeerItem(s, z)
    PROVE  InStep' /\ PeerTypes'
<1>1. PICK id \in Item :
          /\ id[1] = s /\ size_of[id] = NULL
          /\ \A k \in 1 .. id[2] - 1 : size_of[<<s, k>>] # NULL
          /\ size_of' = [size_of EXCEPT ![id] = z]
          /\ in' = [in EXCEPT ![s] = Append(@, ItemMsg(id))]
          /\ snd' = [snd EXCEPT ![s] = Content(id)']
  BY DEF PeerItem
<1>2. snd[s] = << >> /\ UNCHANGED <<eof, dpc, chunks, file, mpc, curr>>
  BY DEF PeerItem, deputy, main
<1>3. /\ size_of \in [Item -> Nat \cup {Text, NULL}]
      /\ snd \in [Source -> Seq(Message)] /\ in \in [Source -> Seq(Message)]
      /\ eof \subseteq Source
  BY DEF Types, PeerTypes
<1>4. z \in Nat \cup {Text} /\ z # NULL
  BY DEF RelayAssumption
<1>5. /\ size_of'[id] = z /\ \A jd \in Item : jd # id => size_of'[jd] = size_of[jd]
      /\ size_of' \in [Item -> Nat \cup {Text, NULL}]
  BY <1>1, <1>3, <1>4
<1>6. PICK k \in Nat \ {0} : k = id[2] /\ id = <<s, k>> /\ k <= MaxItems[s]
  BY <1>1, Items
<1>7. PICK n \in 0 .. MaxItems[s], at \in Seq(Nat \X Nat) : SourceAt(s, n, at)
  BY DEF InStep
<1>8. Sent(s, n) /\ Line(s, n, at) /\ Stage(s, at[1])
  BY <1>7 DEF SourceAt
<1>9. MaxItems[s] \in Nat /\ n \in Nat /\ n <= MaxItems[s]
      /\ \A j \in 1 .. MaxItems[s] : <<s, j>> \in Item
  BY Items
<1>10. k = n + 1
  <2>1. ~(k <= n)
    <3>1. k \in 1 .. MaxItems[s]
      BY <1>6, <1>9
    <3> QED
      BY <1>1, <1>6, <1>8, <3>1 DEF Sent
  <2>2. CASE k = 1
    BY <1>9, <2>1, <2>2
  <2>3. CASE k # 1
    <3>1. k \in Nat /\ k >= 1 /\ k <= MaxItems[s] /\ k # 1
      BY <1>6, <2>3
    <3>2. k - 1 \in 1 .. (k - 1) /\ k - 1 \in 1 .. MaxItems[s]
      BY <1>9, <3>1
    <3>3. k - 1 <= n
      BY <1>1, <1>6, <1>8, <3>2 DEF Sent
    <3> QED
      BY <1>6, <1>9, <2>1, <3>3
  <2> QED
    BY <2>2, <2>3
<1>11. \A j \in 1 .. n : size_of'[<<s, j>>] = size_of[<<s, j>>] /\ size_of[<<s, j>>] # NULL
  <2> TAKE j \in 1 .. n
  <2>1. j \in 1 .. MaxItems[s] /\ <<s, j>> \in Item /\ j # k /\ j <= n
    BY <1>9, <1>10
  <2>2. <<s, j>> # id
    BY <1>6, <2>1
  <2> QED
    BY <1>5, <1>8, <2>1, <2>2 DEF Sent
<1>12. k \in 0 .. MaxItems[s] /\ Sent(s, k)'
  <2>1. ASSUME NEW j \in 1 .. MaxItems[s]
        PROVE  size_of'[<<s, j>>] # NULL <=> j <= k
    <3>1. CASE j = k
      BY <1>4, <1>5, <1>6, <3>1
    <3>2. CASE j # k
      <4>1. <<s, j>> \in Item /\ <<s, j>> # id
        BY <1>6, <1>9, <3>2
      <4>2. size_of'[<<s, j>>] # NULL <=> j <= n
        BY <1>5, <1>8, <4>1 DEF Sent
      <4> QED
        BY <1>9, <1>10, <3>2, <4>2
    <3> QED
      BY <3>1, <3>2
  <2>2. k \in 0 .. MaxItems[s]
    BY <1>6, <1>9
  <2> QED
    BY <2>1, <2>2 DEF Sent
<1>13. PICK c, w : c = Content_of(id, z) /\ w = <<ItemMsg(id)>> \o c
  OBVIOUS
<1>14. c \in Seq(Message) /\ w \in Seq(Message) /\ Len(w) >= 2 /\ ItemMsg(id) \in Message
  BY <1>13, WholeOf, MessageOf
<1>15. Whole(id)' = w /\ Content(id)' = c
  BY <1>5, <1>13, WholeIs
<1>16. in'[s] = Append(in[s], ItemMsg(id)) /\ snd'[s] = c
  BY <1>1, <1>3, <1>15
<1>17. Left(s) = in[s] /\ Left(s)' = in[s] \o w
  <2>1. PICK i \in Seq(Message) : i = in[s]
    BY <1>3
  <2>2. i \o << >> = i
    OBVIOUS
  <2>3. Append(i, ItemMsg(id)) \o c = i \o w
    <3>1. PICK x \in Message : x = ItemMsg(id)
      BY <1>14
    <3>2. PICK a : a = Append(i, x) \o c
      OBVIOUS
    <3>3. a = i \o (<<x>> \o c)
      BY <1>14, <3>2, AppendConcat, SMTT(30)
    <3> QED
      BY <1>13, <3>1, <3>2, <3>3
  <2> QED
    BY <1>2, <1>16, <2>1, <2>2, <2>3 DEF Left
<1>18. PICK bt \in Seq(Nat \X Nat) : Line(s, k, bt)' /\ bt[1] = at[1]
  <2>1. /\ k \in Nat /\ \A j \in 1 .. n : size_of'[<<s, j>>] = size_of[<<s, j>>]
        /\ Whole(<<s, k>>)' = w
    BY <1>6, <1>11, <1>15
  <2>2. Grown(s, k, at[1])
    BY <1>8, <1>9, <1>10, <1>14, <1>17, <2>1, LineGrows
  <2> QED
    BY <2>2 DEF Grown
<1>19. Stage(s, at[1])'
  <2>1. MainStage(s, at[1])'
    <3>1. mpc \in Relaying => curr \in Item
      BY DEF Polls, Chosen
    <3>2. mpc \in {"text", "file"} /\ curr[1] = s => curr # id
      BY <1>1, <1>8 DEF Stage, MainStage, Relaying, RelayAssumption
    <3> QED
      BY <1>2, <1>5, <1>8, <3>1, <3>2 DEF Stage, MainStage, Relaying
  <2>2. SomeoneAt(s, at[1])'
    BY <1>2, <1>8 DEF Stage, SomeoneAt
  <2>3. ASSUME NEW jd \in Item, jd[1] = s
        PROVE  DeputyStage(jd, at[1])'
    <3>1. DeputyStage(jd, at[1])
      BY <1>8, <2>3 DEF Stage
    <3>2. CASE jd # id
      BY <1>2, <1>5, <3>1, <3>2, DeputyStageSame DEF DeputySame
    <3>3. CASE jd = id
      <4>1. size_of[jd] \notin Nat
        BY <1>1, <3>3 DEF RelayAssumption
      <4>2. dpc[jd] \notin {"header", "chunk", "resume", "callback", "ended"}
        BY <3>1, <4>1 DEF DeputyStage
      <4> QED
        BY <1>2, <3>1, <4>2 DEF DeputyStage
    <3> QED
      BY <3>2, <3>3
  <2> QED
    BY <2>1, <2>2, <2>3 DEF Stage
<1>20. Found(s)'
  <2>1. SourceAt(s, k, bt)'
    BY <1>12, <1>18, <1>19 DEF SourceAt
  <2> QED
    BY <1>12, <2>1 DEF Found
<1>21. \A r \in Source \ {s} : DeputiesSame(r) /\ MainSame(r) /\ Left(r)' = Left(r)
  <2>1. \A r \in Source \ {s} : Left(r)' = Left(r)
    BY <1>1, <1>3 DEF Left
  <2>2. \A jd \in Item : jd[1] # s => size_of'[jd] = size_of[jd]
    BY <1>1, <1>5
  <2> QED
    BY <1>2, <2>1, <2>2 DEF DeputiesSame, DeputySame, MainSame
<1>22. InStep'
  BY <1>20, <1>21, InStepBut DEF Polls
<1>23. PeerTypes'
  <2>1. in[s] \in Seq(Message) /\ Append(in[s], ItemMsg(id)) \in Seq(Message)
    BY <1>3, <1>14, AppendOf
  <2>2. in' \in [Source -> Seq(Message)]
    BY <1>1, <1>3, <2>1
  <2>3. snd' \in [Source -> Seq(Message)]
    BY <1>1, <1>3, <1>14, <1>15
  <2> QED
    BY <1>2, <1>3, <1>5, <2>2, <2>3 DEF PeerTypes
<1> QED
  BY <1>22, <1>23

-----------------------------------------------------------------------------
(***************************************************************************)
(* The steps                                                               *)
(***************************************************************************)
Idle == {"poll", "idle", "recv", "negate", "todos"}

\* A step that takes no message, and after which the threads are where they were.
LEMMA StepRests ==
    ASSUME RelayAssumption, IInv, Polls', over' # "mixed", PeerTypes',
           UNCHANGED <<size_of, chunks, file>>, \A s \in Source : Left(s)' = Left(s),
           pollfds' \in Seq(Entry), count' \in 0 .. Len(pollfds'), start' \in Nat \ {0},
           mistaken' \in BOOLEAN, todos' \in Seq({"resume", "callback"} \X Item),
           dpc' = dpc \/ \E id \in Item, pc \in Over :
                            dpc[id] \in Over /\ dpc' = [dpc EXCEPT ![id] = pc],
           UNCHANGED <<mpc, curr>> \/ (mpc \in Idle /\ mpc' \in Idle)
    PROVE  IInv'
<1>1. /\ dpc \in [Item -> {"none", "header", "chunk", "resume", "callback", "ended"}]
      /\ chunks \in [Item -> Int] /\ file \in [Item -> Seq(Nat)]
      /\ mpc \in {"poll", "idle", "recv", "negate", "todos"} \cup Relaying
  BY DEF IInv, Types, ServerTypes
<1>2. /\ dpc' \in [Item -> {"none", "header", "chunk", "resume", "callback", "ended"}]
      /\ \A id \in Item : dpc'[id] = dpc[id] \/ (dpc[id] \in Over /\ dpc'[id] \in Over)
  BY <1>1 DEF Over
<1>3. UNCHANGED <<mpc, curr>> \/ (mpc \notin Relaying /\ mpc' \notin Relaying)
  BY DEF Idle, Relaying
<1>4. InStep'
  BY <1>2, <1>3, InStepRests DEF IInv, Polls
<1>5. ServerTypes'
  <2>1. mpc' \in {"poll", "idle", "recv", "negate", "todos"} \cup Relaying
    BY <1>1 DEF Idle
  <2> QED
    BY <1>1, <1>2, <2>1 DEF ServerTypes
<1> QED
  BY <1>4, <1>5 DEF IInv, Types

\* The rest of the state is as it was.
LEMMA TypesAre ==
    ASSUME Types
    PROVE  /\ PeerTypes /\ pollfds \in Seq(Entry) /\ count \in 0 .. Len(pollfds)
           /\ start \in Nat \ {0} /\ mistaken \in BOOLEAN
           /\ todos \in Seq({"resume", "callback"} \X Item)
  BY DEF Types, ServerTypes

\* The steps that move only sent messages and the places of threads keep the invariant.
LEMMA StepMoves ==
    ASSUME RelayAssumption, IInv, Moves, over' # "mixed"
    PROVE  IInv'
<1>1. /\ UNCHANGED <<size_of, snd, in, eof, pollfds, count, start, mistaken, dpc, chunks, file,
                     todos, fd, curr>>
      /\ mpc' = mpc \/ (mpc \notin Relaying /\ mpc' \in {"poll", "idle", "todos"})
  BY DEF Moves, source, polled, deputy
<1>2. Polls'
  BY PollsMoves DEF IInv
<1>3. /\ PeerTypes /\ pollfds \in Seq(Entry) /\ count \in 0 .. Len(pollfds)
      /\ start \in Nat \ {0} /\ mistaken \in BOOLEAN
      /\ todos \in Seq({"resume", "callback"} \X Item)
  BY TypesAre DEF IInv
<1>4. PeerTypes' /\ \A s \in Source : Left(s)' = Left(s)
  BY <1>1, <1>3 DEF PeerTypes, Left
<1>5. mpc \in {"poll", "idle", "recv", "negate", "todos"} \cup Relaying
  BY DEF IInv, Types, ServerTypes
<1>6. UNCHANGED <<mpc, curr>> \/ (mpc \in Idle /\ mpc' \in Idle)
  BY <1>1, <1>5 DEF Idle
<1> QED
  BY <1>1, <1>2, <1>3, <1>4, <1>6, StepRests

\* The source writes, or goes.
LEMMA StepPeer ==
    ASSUME RelayAssumption, IInv, NEW s \in Source, PeerSends(s) \/ PeerCloses(s)
    PROVE  IInv'
<1>1. UNCHANGED <<size_of, pollfds, count, start, mistaken, dpc, chunks, file, todos, mpc, curr,
                  fd, over>>
  BY DEF PeerSends, PeerCloses, polled, main, deputy
<1>2. Peer /\ PeerTypes' /\ \A r \in Source : Left(r)' = Left(r)
  <2>1. CASE PeerSends(s)
    <3>1. /\ in \in [Source -> Seq(Message)] /\ snd \in [Source -> Seq(Message)]
          /\ size_of \in [Item -> Nat \cup {Text, NULL}] /\ eof \subseteq Source
      BY DEF IInv, Types, PeerTypes
    <3>2. /\ snd[s] # << >> /\ UNCHANGED <<size_of, eof, polled, main, deputy, todos>>
          /\ in' = [in EXCEPT ![s] = Append(@, Head(snd[s]))]
          /\ snd' = [snd EXCEPT ![s] = Tail(@)]
      BY <2>1 DEF PeerSends
    <3>3. PICK i \in Seq(Message), o \in Seq(Message), x \in Message, t \in Seq(Message) :
              i = in[s] /\ o = snd[s] /\ x = Head(snd[s]) /\ t = Tail(snd[s])
      <4>1. PICK i \in Seq(Message), o \in Seq(Message) : i = in[s] /\ o = snd[s]
        BY <3>1
      <4>2. Head(o) \in Message /\ Tail(o) \in Seq(Message)
        BY <3>2, <4>1, TailOf
      <4> QED
        BY <4>1, <4>2
    <3>4. PICK a : a = Append(i, x) \o t /\ a = i \o (<<x>> \o t)
      <4>1. PICK a : a = Append(i, x) \o t
        OBVIOUS
      <4>2. a = i \o (<<x>> \o t)
        BY <4>1, AppendConcat, SMTT(30)
      <4> QED
        BY <4>1, <4>2
    <3>5. <<x>> \o t = o
      BY <3>2, <3>3
    <3>6. Append(i, x) \in Seq(Message)
      BY <3>3, AppendOf
    <3>7. /\ in' \in [Source -> Seq(Message)] /\ snd' \in [Source -> Seq(Message)]
          /\ in'[s] = Append(i, x) /\ snd'[s] = t
          /\ \A r \in Source : r # s => in'[r] = in[r] /\ snd'[r] = snd[r]
      BY <3>1, <3>2, <3>3, <3>6
    <3>8. \A r \in Source : Left(r)' = Left(r)
      <4>1. Left(s)' = Left(s)
        BY <3>3, <3>4, <3>5, <3>7 DEF Left
      <4> QED
        BY <3>7, <4>1 DEF Left
    <3> QED
      BY <3>1, <3>2, <3>7, <3>8 DEF Peer, PeerTypes
  <2>2. CASE PeerCloses(s)
    BY <2>2 DEF PeerCloses, Peer, PeerTypes, IInv, Types, Left
  <2> QED
    BY <2>1, <2>2
<1>3. Polls'
  BY <1>2, PollsPeer DEF IInv
<1>4. /\ pollfds \in Seq(Entry) /\ count \in 0 .. Len(pollfds)
      /\ start \in Nat \ {0} /\ mistaken \in BOOLEAN
      /\ todos \in Seq({"resume", "callback"} \X Item)
  BY TypesAre DEF IInv
<1> QED
  BY <1>1, <1>2, <1>3, <1>4, StepRests DEF IInv

\* The entries change, and the main thread is where it does not relay.
LEMMA StepEntries ==
    ASSUME RelayAssumption, IInv,
           \/ \E t : Prune(t)
           \/ PollSome \/ Negate \/ \E f \in Source \cup {target} : RecvNothing(f)
    PROVE  IInv'
<1>1. /\ PeerTypes /\ pollfds \in Seq(Entry) /\ count \in 0 .. Len(pollfds)
      /\ start \in Nat \ {0} /\ mistaken \in BOOLEAN
      /\ todos \in Seq({"resume", "callback"} \X Item) /\ over # "mixed"
  BY TypesAre DEF IInv
<1>2. ASSUME UNCHANGED <<size_of, snd, in, eof>>
      PROVE  PeerTypes' /\ \A s \in Source : Left(s)' = Left(s)
  BY <1>1, <1>2 DEF PeerTypes, Left
<1>3. ASSUME NEW t, Prune(t)
      PROVE  IInv'
  <2>1. UNCHANGED <<size_of, snd, in, eof, dpc, chunks, file, todos, start, mistaken, mpc, curr,
                    over>>
    BY <1>3 DEF Prune, Idling, source, deputy, main
  <2>2. Polls' /\ pollfds' \in Seq(Entry) /\ count' \in 0 .. Len(pollfds')
    BY <1>3, PollsPrune, PruneOf DEF IInv
  <2> QED
    BY <1>1, <1>2, <2>1, <2>2, StepRests
<1>4. CASE PollSome
  <2>1. /\ UNCHANGED <<size_of, snd, in, eof, dpc, chunks, file, todos, mistaken, curr>>
        /\ UNCHANGED <<over, count>>
        /\ mpc = "poll" /\ mpc' = "recv"
    BY <1>4 DEF PollSome, MainAt, Aside, Goto, deputy
  <2>2. Polls' /\ pollfds' \in Seq(Entry) /\ Len(pollfds') = count /\ start' \in 1 .. count
    BY <1>4, PollsPollSome DEF IInv
  <2>3. start' \in Nat \ {0} /\ count' \in 0 .. Len(pollfds')
    BY <1>1, <2>1, <2>2, Seqs
  <2>4. mpc \in Idle /\ mpc' \in Idle
    BY <2>1 DEF Idle
  <2> QED
    BY <1>1, <1>2, <2>1, <2>2, <2>3, <2>4, StepRests
<1>5. CASE Negate
  <2>1. /\ UNCHANGED <<size_of, snd, in, eof, dpc, chunks, file, todos, start, curr, over, count>>
        /\ mpc = "negate" /\ mpc' = "poll" /\ mistaken' = (mistaken \/ pollfds[start].fd # fd)
    BY <1>5 DEF Negate, MainAt, Aside, Goto, deputy
  <2>2. Polls' /\ pollfds' \in Seq(Entry) /\ Len(pollfds') = Len(pollfds)
    BY <1>5, PollsNegate DEF IInv
  <2>3. mistaken' \in BOOLEAN
    BY <2>1
  <2>4. mpc \in Idle /\ mpc' \in Idle
    BY <2>1 DEF Idle
  <2>5. count' \in 0 .. Len(pollfds')
    BY <1>1, <2>1, <2>2
  <2> QED
    BY <1>1, <1>2, <2>1, <2>2, <2>3, <2>4, <2>5, StepRests
<1>6. ASSUME NEW f \in Descriptor, RecvNothing(f)
      PROVE  IInv'
  <2>1. /\ UNCHANGED <<size_of, snd, in, eof, dpc, chunks, file, todos, start, mistaken, curr, over,
                       count, pollfds>>
    BY <1>6 DEF RecvNothing, MainAt, Aside, polled, deputy
  <2>2. Polls' /\ mpc = "recv" /\ mpc' \in {"negate", "poll"}
    BY <1>6, PollsRecvNothing DEF IInv
  <2>3. mpc \in Idle /\ mpc' \in Idle
    BY <2>2 DEF Idle
  <2> QED
    BY <1>1, <1>2, <2>1, <2>2, <2>3, StepRests
<1> QED
  BY <1>3, <1>4, <1>5, <1>6, Descriptors

\* A todo is added, or run.
LEMMA StepTodos ==
    ASSUME RelayAssumption, IInv,
           Finisher \/ OnFinished \/ \E id \in Item : AddTodo(id)
    PROVE  IInv'
<1>1. /\ PeerTypes /\ pollfds \in Seq(Entry) /\ count \in 0 .. Len(pollfds)
      /\ start \in Nat \ {0} /\ mistaken \in BOOLEAN
      /\ todos \in Seq({"resume", "callback"} \X Item) /\ over # "mixed"
  BY TypesAre DEF IInv
<1>2. ASSUME UNCHANGED <<size_of, snd, in, eof>>
      PROVE  PeerTypes' /\ \A s \in Source : Left(s)' = Left(s)
  BY <1>1, <1>2 DEF PeerTypes, Left
<1>3. CASE Finisher
  <2>1. UNCHANGED <<size_of, snd, in, eof, dpc, chunks, file, start, mistaken, mpc, curr, over>>
    BY <1>3 DEF Finisher, Todo, MainAt, Aside, deputy
  <2>2. /\ Polls' /\ todos' \in Seq({"resume", "callback"} \X Item)
        /\ pollfds' \in Seq(Entry) /\ Len(pollfds') = count' /\ count' \in Nat
    BY <1>3, PollsFinisher DEF IInv
  <2>3. count' \in 0 .. Len(pollfds')
    BY <2>2
  <2> QED
    BY <1>1, <1>2, <2>1, <2>2, <2>3, StepRests
<1>4. CASE OnFinished
  <2>1. UNCHANGED <<size_of, snd, in, eof, dpc, chunks, file, start, mistaken, mpc, curr, count,
                    pollfds>>
    BY <1>4 DEF OnFinished, Todo, MainAt, polled, deputy
  <2>2. Polls' /\ todos' \in Seq({"resume", "callback"} \X Item) /\ over' # "mixed"
    BY <1>4, PollsOnFinished DEF IInv
  <2> QED
    BY <1>1, <1>2, <2>1, <2>2, StepRests
<1>5. ASSUME NEW id \in Item, AddTodo(id)
      PROVE  IInv'
  <2>1. UNCHANGED <<size_of, snd, in, eof, chunks, file, start, mistaken, mpc, curr, count,
                    pollfds, over>>
    BY <1>5 DEF AddTodo, DeputyAt, polled, main
  <2>2. /\ Polls' /\ todos' \in Seq({"resume", "callback"} \X Item)
        /\ dpc[id] \in {"resume", "callback"}
        /\ dpc' = [dpc EXCEPT ![id] = IF dpc[id] = "resume" THEN "callback" ELSE "ended"]
    BY <1>5, PollsAddTodo DEF IInv
  <2>3. PICK pc \in Over : pc = IF dpc[id] = "resume" THEN "callback" ELSE "ended"
    BY DEF Over
  <2>4. dpc[id] \in Over /\ dpc' = [dpc EXCEPT ![id] = pc]
    BY <2>2, <2>3 DEF Over
  <2> QED
    BY <1>1, <1>2, <2>1, <2>2, <2>4, StepRests
<1> QED
  BY <1>3, <1>4, <1>5

\* The main thread or a deputy takes a message, or another source is heard of.
LEMMA StepTakes ==
    ASSUME RelayAssumption, IInv,
           \/ \E f \in Source : RecvItem(f)
           \/ RelayItem \/ RelayText \/ RelayFile
           \/ \E id \in Item : DeputyGet(id)
           \/ \E s \in Source : \E z \in Sizes[s] : PeerItem(s, z)
    PROVE  IInv'
<1>1. /\ PeerTypes /\ pollfds \in Seq(Entry) /\ count \in 0 .. Len(pollfds)
      /\ start \in Nat \ {0} /\ mistaken \in BOOLEAN
      /\ mpc \in {"poll", "idle", "recv", "negate", "todos"} \cup Relaying
      /\ dpc \in [Item -> {"none", "header", "chunk", "resume", "callback", "ended"}]
      /\ chunks \in [Item -> Int] /\ file \in [Item -> Seq(Nat)]
      /\ todos \in Seq({"resume", "callback"} \X Item) /\ over # "mixed"
  BY DEF IInv, Types, ServerTypes
<1>2. ASSUME NEW f, in[f] # << >>, UNCHANGED <<size_of, snd, eof>>,
             in' = in \/ in' = [in EXCEPT ![f] = Tail(@)]
      PROVE  PeerTypes'
  <2>1. in \in [Source -> Seq(Message)]
    BY <1>1 DEF PeerTypes
  <2>2. f \in Source => Tail(in[f]) \in Seq(Message)
    BY <1>2, <2>1, TailOf
  <2>3. in' \in [Source -> Seq(Message)]
    BY <1>2, <2>1, <2>2
  <2> QED
    BY <1>1, <1>2, <2>3 DEF PeerTypes
<1>3. ASSUME NEW f \in Source, RecvItem(f)
      PROVE  IInv'
  <2>1. /\ UNCHANGED <<size_of, snd, eof, pollfds, count, start, mistaken, dpc>>
        /\ UNCHANGED <<chunks, file, todos>>
        /\ in[f] # << >> /\ in' = [in EXCEPT ![f] = Tail(@)]
    BY <1>3 DEF RecvItem, MainAt, Aside, polled, deputy
  <2>2. InStep' /\ Polls' /\ over' = over /\ mpc' = "item"
    BY <1>3, InStepRecvItem DEF IInv
  <2>3. PeerTypes'
    BY <1>2, <2>1
  <2>4. ServerTypes'
    BY <1>1, <2>1, <2>2 DEF ServerTypes, Relaying
  <2> QED
    BY <1>1, <2>2, <2>3, <2>4 DEF IInv, Types
<1>4. CASE RelayItem
  <2>1. UNCHANGED <<size_of, snd, in, eof, start, mistaken, dpc, chunks, file, todos, over>>
    BY <1>4, Sends DEF RelayItem, MainAt, Calm, deputy
  <2>2. /\ InStep' /\ Polls' /\ mpc' \in {"text", "file"}
        /\ pollfds' \in Seq(Entry) /\ count' \in 0 .. Len(pollfds')
    BY <1>4, InStepRelayItem DEF IInv
  <2>3. PeerTypes' /\ ServerTypes'
    BY <1>1, <2>1, <2>2 DEF PeerTypes, ServerTypes, Relaying
  <2> QED
    BY <1>1, <2>1, <2>2, <2>3 DEF IInv, Types
<1>5. CASE RelayText
  <2>1. /\ UNCHANGED <<size_of, snd, eof, dpc, chunks, file, todos>>
        /\ in[fd] # << >> /\ in' = [in EXCEPT ![fd] = Tail(@)]
    BY <1>5 DEF RelayText, MainAt, deputy
  <2>2. /\ InStep' /\ Polls' /\ over' = over /\ mpc' = "todos" /\ UNCHANGED <<start, mistaken>>
        /\ pollfds' \in Seq(Entry) /\ count' \in 0 .. Len(pollfds')
    BY <1>5, InStepRelayText DEF IInv
  <2>3. PeerTypes'
    <3>1. PICK f : f = fd
      OBVIOUS
    <3> QED
      BY <1>2, <2>1, <3>1
  <2>4. ServerTypes'
    BY <1>1, <2>1, <2>2 DEF ServerTypes, Relaying
  <2> QED
    BY <1>1, <2>2, <2>3, <2>4 DEF IInv, Types
<1>6. CASE RelayFile
  <2>1. /\ UNCHANGED <<size_of, snd, in, eof, start, mistaken, chunks, file, todos, over>>
        /\ mpc' = "todos"
    BY <1>6 DEF RelayFile, MainAt, Goto
  <2>2. Polls' /\ pollfds' \in Seq(Entry) /\ count' \in 0 .. Len(pollfds')
    BY <1>6, PollsRelayFile DEF IInv
  <2>3. PICK id \in Item : InStep' /\ dpc' = [dpc EXCEPT ![id] = "header"]
    BY <1>6, InStepRelayFile DEF IInv
  <2>4. dpc' \in [Item -> {"none", "header", "chunk", "resume", "callback", "ended"}]
    BY <1>1, <2>3
  <2>5. PeerTypes' /\ ServerTypes'
    BY <1>1, <2>1, <2>2, <2>4 DEF PeerTypes, ServerTypes, Relaying
  <2> QED
    BY <1>1, <2>1, <2>2, <2>3, <2>5 DEF IInv, Types
<1>7. ASSUME NEW id \in Item, DeputyGet(id)
      PROVE  IInv'
  <2>1. /\ UNCHANGED <<size_of, snd, eof, pollfds, count, start, mistaken, mpc, curr, fd, todos>>
        /\ in[id[1]] # << >> /\ in' = [in EXCEPT ![id[1]] = Tail(@)]
    BY <1>7 DEF DeputyGet, DeputyAt, polled, main
  <2>2. /\ InStep' /\ over' = over
        /\ chunks' \in [Item -> Int] /\ file' \in [Item -> Seq(Nat)]
        /\ dpc' \in [Item -> {"none", "header", "chunk", "resume", "callback", "ended"}]
    BY <1>7, InStepDeputyGet DEF IInv
  <2>3. Polls'
    BY <1>1, <1>7, <2>2, PollsDeputyGet DEF IInv
  <2>4. PeerTypes'
    BY <1>2, <2>1
  <2>5. ServerTypes'
    BY <1>1, <2>1, <2>2 DEF ServerTypes
  <2> QED
    BY <1>1, <2>2, <2>3, <2>4, <2>5 DEF IInv, Types
<1>8. ASSUME NEW s \in Source, NEW z \in Sizes[s], PeerItem(s, z)
      PROVE  IInv'
  <2>1. UNCHANGED <<eof, pollfds, count, start, mistaken, dpc, chunks, file, todos, mpc, fd, curr,
                    over>>
    BY <1>8 DEF PeerItem, polled, main, deputy
  <2>2. InStep' /\ PeerTypes'
    BY <1>8, InStepPeerItem DEF IInv
  <2>3. Peer
    BY <2>1 DEF Peer, polled, main, deputy
  <2>4. Polls'
    BY <2>3, PollsPeer DEF IInv
  <2>5. ServerTypes'
    BY <1>1, <2>1 DEF ServerTypes
  <2> QED
    BY <1>1, <2>1, <2>2, <2>4, <2>5 DEF IInv, Types
<1> QED
  BY <1>3, <1>4, <1>5, <1>6, <1>7, <1>8

\* At first there is one entry for the server and for each source, and nobody reads.
LEMMA InitPolls ==
    ASSUME RelayAssumption, Init
    PROVE  Types /\ Polls
<1>1. /\ Cardinality(Source) \in Nat
      /\ SetToSeq(Source) \in [1 .. Cardinality(Source) -> Source]
      /\ \A s \in Source : \E i \in 1 .. Cardinality(Source) : SetToSeq(Source)[i] = s
      /\ \A i, j \in 1 .. Cardinality(Source) : SetToSeq(Source)[i] = SetToSeq(Source)[j] => i = j
  BY SetToSeqOf DEF RelayAssumption
<1>2. PICK n, q :
          /\ n \in Nat /\ n = Cardinality(Source)
          /\ q = SetToSeq(Source) /\ q \in [1 .. n -> Source]
  BY <1>1
<1>3. /\ Source \subseteq Int
  BY Items
<1>4. /\ pollfds = <<Polling(server_fd)>> \o [i \in 1 .. n |-> Polling(q[i])] /\ count = n + 1
      /\ start = 1 /\ mistaken = FALSE /\ eof = {} /\ mpc = "poll" /\ todos = << >>
      /\ dpc = [id \in Item |-> "none"]
  BY <1>2 DEF Init
<1>5. /\ pollfds \in Seq(Entry) /\ Len(pollfds) = n + 1 /\ DOMAIN pollfds = 1 .. n + 1
      /\ pollfds[1].fd = server_fd /\ pollfds[1].rev = {}
      /\ \A i \in 1 .. n : pollfds[i + 1].fd = q[i] /\ pollfds[i + 1].rev = {}
  <2> DEFINE e(i) == Polling(q[i])
             h == Polling(server_fd)
             t == [i \in 1 .. n |-> e(i)]
  <2>1. /\ \A i \in 1 .. n : e(i) \in Entry /\ e(i).fd = q[i] /\ e(i).rev = {}
        /\ h \in Entry /\ h.fd = server_fd /\ h.rev = {}
    <3>1. ASSUME NEW f \in Int
          PROVE  Polling(f) \in Entry /\ Polling(f).fd = f /\ Polling(f).rev = {}
      BY DEF Entry, Polling
    <3>2. server_fd \in Int /\ \A i \in 1 .. n : q[i] \in Int
      <4>1. server_fd \in Int
        BY DEF RelayAssumption
      <4>2. \A i \in 1 .. n : q[i] \in Source
        BY <1>2
      <4> QED
        BY <1>3, <4>1, <4>2
    <3>3. h \in Entry /\ h.fd = server_fd /\ h.rev = {}
      BY <3>1, <3>2, Zenon
    <3>4. ASSUME NEW i \in 1 .. n
          PROVE  e(i) \in Entry /\ e(i).fd = q[i] /\ e(i).rev = {}
      BY <3>1, <3>2, <3>4, Zenon
    <3> QED
      BY <3>3, <3>4
  <2>2. pollfds = <<h>> \o t /\ n \in Nat
    BY <1>2, <1>4
  <2> HIDE DEF e, h
  <2>3. t \in Seq(Entry) /\ Len(t) = n /\ \A i \in 1 .. n : t[i] = e(i)
    BY <1>2, <2>1
  <2> HIDE DEF t
  <2>4. <<h>> \in Seq(Entry) /\ Len(<<h>>) = 1 /\ <<h>>[1] = h
    BY <2>1
  <2>5. /\ pollfds \in Seq(Entry) /\ Len(pollfds) = 1 + n
        /\ \A i \in 1 .. 1 : pollfds[i] = <<h>>[i]
        /\ \A i \in 1 .. n : pollfds[1 + i] = t[i]
    <3>1. /\ <<h>> \o t \in Seq(Entry) /\ Len(<<h>> \o t) = Len(<<h>>) + Len(t)
          /\ \A i \in 1 .. Len(<<h>>) : (<<h>> \o t)[i] = <<h>>[i]
          /\ \A i \in 1 .. Len(t) : (<<h>> \o t)[Len(<<h>>) + i] = t[i]
      BY <2>3, <2>4, ConcatOf
    <3> QED
      BY <2>2, <2>3, <2>4, <3>1
  <2>6. pollfds[1] = h /\ \A i \in 1 .. n : pollfds[i + 1] = t[i]
    BY <2>2, <2>4, <2>5
  <2> QED
    BY <2>1, <2>2, <2>3, <2>5, <2>6
<1>15. \A i \in 1 .. n + 1 : i = 1 \/ (i - 1 \in 1 .. n /\ i = (i - 1) + 1)
  BY <1>2
<1>6. Types
  <2>1. PeerTypes
    BY DEF Init, PeerTypes
  <2>2. ServerTypes
    <3>1. /\ dpc \in [Item -> {"none", "header", "chunk", "resume", "callback", "ended"}]
          /\ chunks \in [Item -> Int] /\ file \in [Item -> Seq(Nat)]
      BY DEF Init
    <3>2. count \in 0 .. Len(pollfds)
      BY <1>2, <1>4, <1>5
    <3>3. mistaken \in BOOLEAN
      BY <1>4
    <3>4. /\ start \in Nat \ {0}
          /\ mpc \in {"poll", "idle", "recv", "negate", "todos"} \cup Relaying
      BY <1>4
    <3>5. todos \in Seq({"resume", "callback"} \X Item)
      BY <1>4
    <3> QED
      BY <1>5, <3>1, <3>4, <3>5, <3>2, <3>3 DEF ServerTypes
  <2> QED
    BY <2>1, <2>2 DEF Types
<1>7. \A id : ~Resuming(id)
  BY <1>4 DEF Resuming, Contains
<1>8. \A id \in Item : ~Reads(id)
  BY <1>4, <1>7 DEF Reads
<1>9. \A s : ~Reading(s)
  BY <1>8, ReadingIs
<1>10. \A s \in Source : Where(s) # {} /\ \A i, j \in Where(s) : i = j
  <2> TAKE s \in Source
  <2>1. \A i \in Where(s) : i - 1 \in 1 .. n /\ i \in Nat /\ q[i - 1] = s
    <3>1. pollfds[1].fd # s
      BY <1>5, Descriptors
    <3>2. \A i \in Where(s) : i \in 1 .. n + 1 /\ pollfds[i].fd = s
      BY <1>4 DEF Where
    <3>3. \A i \in Where(s) : i \in 1 .. n + 1 /\ i # 1
      BY <3>1, <3>2
    <3>4. \A i \in Where(s) : i - 1 \in 1 .. n /\ i \in Nat /\ i = (i - 1) + 1
      BY <1>2, <3>3
    <3> QED
      BY <1>5, <3>2, <3>4
  <2>2. PICK i \in 1 .. n : q[i] = s
    BY <1>1, <1>2
  <2>3. i + 1 \in Where(s)
    BY <1>2, <1>4, <1>5, <2>2 DEF Where
  <2>4. ASSUME NEW j \in Where(s), NEW k \in Where(s)
        PROVE  j = k
    <3>1. j - 1 = k - 1
      BY <1>1, <1>2, <2>1
    <3> QED
      BY <2>1, <3>1
  <2> QED
    BY <2>3, <2>4
<1>11. Single /\ Apart /\ Listed
  BY <1>9, <1>10 DEF Single, Apart, Listed
<1>12. ReadOnce
  BY <1>4, <1>7, <1>8 DEF ReadOnce
<1>13. Marked
  <2>1. \A i \in 1 .. n + 1 : pollfds[i].fd \in Descriptor /\ pollfds[i].rev = {}
    <3>1. \A i \in 1 .. n : q[i] \in Descriptor
      BY <1>2, Descriptors
    <3>2. \A i \in 1 .. n : pollfds[i + 1].fd \in Descriptor /\ pollfds[i + 1].rev = {}
      BY <1>5, <3>1
    <3>3. pollfds[1].fd \in Descriptor /\ pollfds[1].rev = {}
      BY <1>5, Descriptors
    <3> TAKE i \in 1 .. n + 1
    <3>4. CASE i = 1
      BY <3>3, <3>4
    <3>5. CASE i - 1 \in 1 .. n /\ i = (i - 1) + 1
      BY <3>2, <3>5
    <3> QED
      BY <1>15, <3>4, <3>5
  <2> QED
    BY <1>5, <2>1 DEF Marked
<1>14. Chosen
  BY <1>4 DEF Chosen, Relaying
<1> QED
  BY <1>6, <1>11, <1>12, <1>13, <1>14 DEF Polls

\* The invariant holds at first: nothing is sent, and the place of each source is its first.
LEMMA InitInv ==
    ASSUME RelayAssumption, Init
    PROVE  IInv
<1>1. Types /\ Polls
  BY InitPolls
<1>2. over # "mixed"
  BY DEF Init, RelayAssumption
<1>3. ASSUME NEW s \in Source
      PROVE  Found(s)
  <2>1. PICK at \in Seq(Nat \X Nat) : at = << <<1, 1>> >>
    <3>1. << <<1, 1>> >> \in Seq(Nat \X Nat)
      OBVIOUS
    <3> QED
      BY <3>1, Zenon
  <2>2. MaxItems[s] \in Nat /\ 0 \in 0 .. MaxItems[s]
    BY Items
  <2>3. Len(at) = 1 /\ at[1] = <<1, 1>> /\ at[1][2] = 1
    BY <2>1
  <2>4. Left(s) = << >> /\ Len(Left(s)) = 0
    BY DEF Init, Left
  <2>5. Line(s, 0, at)
    BY <2>3, <2>4 DEF Line
  <2>6. Sent(s, 0)
    <3>1. \A k \in 1 .. MaxItems[s] : size_of[<<s, k>>] = NULL /\ ~(k <= 0)
      BY <2>2, Items, SMTT(20) DEF Init
    <3> QED
      BY <3>1 DEF Sent
  <2>7. Stage(s, at[1])
    BY <2>3 DEF Init, Stage, MainStage, SomeoneAt, DeputyStage, Relaying
  <2>8. SourceAt(s, 0, at)
    BY <2>5, <2>6, <2>7 DEF SourceAt
  <2> QED
    BY <2>2, <2>8 DEF Found
<1>4. InStep
  BY <1>3, InStepIs
<1> QED
  BY <1>1, <1>2, <1>4 DEF IInv

\* The actions that take no message and add no todo only move the main thread.
LEMMA MovesAre ==
    ASSUME RelayAssumption, over # "mixed",
           \/ UNCHANGED vars
           \/ \E t : SendGet(t) \/ SendNow(t) \/ IdleDone(t)
           \/ PollNothing \/ TextWait \/ TextGone \/ TodosDone \/ Race
           \/ \E id \in Item : DeputyWait(id) \/ DeputyGone(id) \/ Sender(id)
    PROVE  Moves /\ over' # "mixed"
<1>1. CASE UNCHANGED vars
  BY <1>1 DEF vars, Moves, source, polled, main, deputy
<1>2. ASSUME NEW t, SendGet(t) \/ SendNow(t)
      PROVE  Moves /\ over' # "mixed"
  BY <1>2 DEF SendGet, SendNow, Idling, Moves, main
<1>3. ASSUME NEW t, IdleDone(t)
      PROVE  Moves /\ over' # "mixed"
  BY <1>3 DEF IdleDone, Idling, Moves, Relaying
<1>4. CASE PollNothing \/ TodosDone
  BY <1>4 DEF PollNothing, TodosDone, MainAt, Goto, Aside, Moves, Relaying, source
<1>5. CASE TextWait \/ TextGone
  BY <1>5 DEF TextWait, TextGone, MainAt, Calm, Aside, Moves, source, main
<1>6. CASE Race
  BY <1>6 DEF Race, Moves, main
<1>7. ASSUME NEW id \in Item, DeputyWait(id) \/ DeputyGone(id)
      PROVE  Moves /\ over' # "mixed"
  BY <1>7 DEF DeputyWait, DeputyGone, DeputyAt, Moves, source, main
<1>8. ASSUME NEW id \in Item, Sender(id)
      PROVE  Moves /\ over' # "mixed"
  BY <1>8 DEF Sender, SenderPut, SenderClose, Moves, main
<1> QED
  BY <1>1, <1>2, <1>3, <1>4, <1>5, <1>6, <1>7, <1>8

\* Each step keeps the invariant.
LEMMA Inductive ==
    ASSUME RelayAssumption, IInv, [Next]_vars
    PROVE  IInv'
<1>1. CASE \/ UNCHANGED vars
           \/ \E t : SendGet(t) \/ SendNow(t) \/ IdleDone(t)
           \/ PollNothing \/ TextWait \/ TextGone \/ TodosDone \/ Race
           \/ \E id \in Item : DeputyWait(id) \/ DeputyGone(id) \/ Sender(id)
  BY <1>1, MovesAre, StepMoves DEF IInv
<1>2. CASE \E s \in Source : PeerSends(s) \/ PeerCloses(s)
  BY <1>2, StepPeer
<1>3. CASE \/ \E t : Prune(t)
           \/ PollSome \/ Negate \/ \E f \in Source \cup {target} : RecvNothing(f)
  BY <1>3, StepEntries
<1>4. CASE Finisher \/ OnFinished \/ \E id \in Item : AddTodo(id)
  BY <1>4, StepTodos
<1>5. CASE \/ \E f \in Source : RecvItem(f)
           \/ RelayItem \/ RelayText \/ RelayFile
           \/ \E id \in Item : DeputyGet(id)
           \/ \E s \in Source : \E z \in Sizes[s] : PeerItem(s, z)
  BY <1>5, StepTakes
<1> QED
  BY <1>1, <1>2, <1>3, <1>4, <1>5 DEF Next, MainLoop, Deputy, NetIdle

-----------------------------------------------------------------------------
(***************************************************************************)
(* The theorems                                                            *)
(***************************************************************************)
\* Of every reachable state: the types are right, a source has one entry or somebody who
\* reads from it, and what is left to read is what those who read it wait for.
THEOREM Invariant == Spec => []IInv
<1>1. Init => IInv
  BY RelayAssumption, InitInv
<1>2. IInv /\ [Next]_vars => IInv'
  BY RelayAssumption, Inductive
<1> QED
  BY <1>1, <1>2, PTL DEF Spec

\* The main thread, the text it waits for and the deputies of one connection share its
\* messages rightly (next_msg_from of file.cpp and relay.cpp), and a file that is reported
\* is complete, for any number of sources, items and chunks.
THEOREM TakesRight == Spec => []TakenRight
<1>1. IInv => TakenRight
  <2>1. ASSUME IInv, NEW id \in Item, dpc[id] \in {"resume", "callback", "ended"}
        PROVE  file[id] = Bytes(size_of[id])
    <3>1. id[1] \in Source
      BY RelayAssumption, Items
    <3>2. PICK n \in 0 .. MaxItems[id[1]], at \in Seq(Nat \X Nat) : SourceAt(id[1], n, at)
      BY <2>1, <3>1 DEF IInv, InStep
    <3> QED
      BY <2>1, <3>2 DEF SourceAt, Stage, DeputyStage
  <2> QED
    BY <2>1 DEF TakenRight, IInv
<1> QED
  BY <1>1, Invariant, PTL

\* net_suspend and net_resume keep one entry for a source that no deputy reads from, and
\* none while one does, for any number of sources and wherever prunePollFds comes between.
THEOREM PollsOnce == Spec => []PolledOnce
<1>1. IInv => PolledOnce
  <2>1. ASSUME IInv, NEW s \in Source
        PROVE  /\ Cardinality(Where(s)) <= (IF Reading(s) THEN 0 ELSE 1)
               /\ Where(s) = {} => Reading(s) \/ s \in eof \/ mistaken
    <3>1. /\ Reading(s) => Where(s) = {}
          /\ \A i, j \in Where(s) : i = j
          /\ Where(s) = {} => Reading(s) \/ s \in eof \/ mistaken
      BY <2>1 DEF IInv, Polls, Single, Apart, Listed
    <3>2. CASE Where(s) = {}
      BY <3>1, <3>2, FS_EmptySet
    <3>3. CASE Where(s) # {}
      <4>1. PICK i : Where(s) = {i}
        BY <3>1, <3>3
      <4>2. Cardinality(Where(s)) = 1
        BY <4>1, FS_Singleton
      <4> QED
        BY <3>1, <3>3, <4>2
    <3> QED
      BY <3>2, <3>3
  <2> QED
    BY <2>1 DEF PolledOnce
<1> QED
  BY <1>1, Invariant, PTL
=============================================================================
