----------------------------- MODULE RelayOrder -----------------------------
(***************************************************************************)
(* For any sources, items, sizes and refusals: what a server relays to a   *)
(* target arrives item by item, each with the whole of its content.        *)
(***************************************************************************)
EXTENDS RelayProofs

-----------------------------------------------------------------------------
(***************************************************************************)
(* The places of messages in what an item is sent in                       *)
(***************************************************************************)
Length(id) == Len(Whole(id))

\* The messages of an item name it, and their types say where in it they are.
LEMMA KindOf ==
    ASSUME RelayAssumption, NEW id \in Item, NEW k \in 1 .. Length(id)
    PROVE  LET m == Whole(id)[k] IN
           /\ m \in Message /\ Of(m) = id
           /\ k = 1 => m = ItemMsg(id) /\ Type(m) = "item"
           /\ k = 2 => Type(m) \in {"text", "header"}
           /\ k > 2 => /\ size_of[id] \in Nat /\ m = Chunk(id, Data(m))
                       /\ Piece(id, size_of[id], m, k - 2)
<1> DEFINE w == Whole(id)
           z == size_of[id]
<1>1. /\ w \in Seq(Message) /\ Len(w) \in Nat /\ w[1] = ItemMsg(id)
      /\ z \notin Nat => IsText(id, w)
      /\ z \in Nat => IsFile(id, z, w)
  BY ItemIs
<1>2. k \in 1 .. Len(w)
  BY DEF Length
<1> HIDE DEF w, z
<1>3. w[k] \in Message /\ k \in Nat
  BY <1>1, <1>2
<1>4. CASE k = 1
  BY <1>1, <1>3, <1>4 DEF ItemMsg, Type, Of, w, z
<1>5. CASE k = 2
  <2>1. w[k] = TextMsg(id) \/ \E n : w[k] = Header(id, n)
    BY <1>1, <1>5 DEF IsText, IsFile
  <2>2. Of(w[k]) = id /\ Type(w[k]) \in {"text", "header"}
    BY <2>1 DEF TextMsg, Header, Of, Type
  <2> QED
    BY <1>3, <1>5, <2>2 DEF w, z
<1>6. CASE k > 2
  <2>1. z \in Nat
    <3>1. z \notin Nat => Len(w) = 2
      BY <1>1 DEF IsText
    <3>2. Len(w) # 2
      <4>1. PICK l \in Nat : l = Len(w)
        BY <1>1
      <4>2. k \in 1 .. l
        BY <1>2, <4>1
      <4>3. l # 2
        BY <1>6, <4>2
      <4> QED
        BY <4>1, <4>3
    <3> QED
      BY <3>1, <3>2
  <2>2. k \in 3 .. Len(w)
    BY <1>1, <1>2, <1>6
  <2>3. Piece(id, z, w[k], k - 2)
    BY <1>1, <2>1, <2>2 DEF IsFile
  <2>4. PICK e \in Seq(Nat) : w[k] = Chunk(id, e)
    BY <2>3 DEF Piece
  <2>5. Of(w[k]) = id /\ w[k] = Chunk(id, Data(w[k]))
    BY <2>4 DEF Chunk, Of, Data
  <2> QED
    BY <1>3, <1>6, <2>1, <2>3, <2>5 DEF w, z
<1> QED
  BY <1>3, <1>4, <1>5, <1>6

\* The first byte of a chunk that is not empty says which chunk it is.
LEMMA ChunkBegins ==
    ASSUME RelayAssumption, NEW a \in Nat, NEW b \in Nat, NEW e \in Seq(Nat),
           Bytes(a) \o e = Bytes(b)
    PROVE  Len(e) = b - a /\ (Len(e) > 0 => e[1] = a + 1)
<1> DEFINE p == Bytes(a)
           q == Bytes(b)
<1>1. /\ p \in Seq(Nat) /\ Len(p) = a /\ q \in Seq(Nat) /\ Len(q) = b
      /\ \A i \in 1 .. b : q[i] = i
  BY DEF Bytes
<1> HIDE DEF p, q
<1>2. /\ Len(p \o e) = Len(p) + Len(e)
      /\ \A i \in 1 .. Len(e) : (p \o e)[Len(p) + i] = e[i]
  <2>1. p \in Seq(Nat) /\ e \in Seq(Nat)
    BY <1>1
  <2> QED
    BY ONLY <2>1, ConcatOf
<1>3. p \o e = q /\ Len(e) \in Nat
  BY DEF p, q
<1>4. Len(e) = b - a
  BY <1>1, <1>2, <1>3
<1>5. ASSUME Len(e) > 0
      PROVE  e[1] = a + 1
  <2>1. 1 \in 1 .. Len(e) /\ a + 1 \in 1 .. b
    BY <1>3, <1>4, <1>5
  <2>2. q[a + 1] = e[1]
    BY <1>1, <1>2, <1>3, <2>1
  <2> QED
    BY <1>1, <2>1, <2>2
<1> QED
  BY <1>4, <1>5

\* No message occurs twice in what an item is sent in.
LEMMA Different ==
    ASSUME RelayAssumption, NEW id \in Item,
           NEW i \in 1 .. Length(id), NEW j \in 1 .. Length(id), i < j
    PROVE  Whole(id)[i] # Whole(id)[j]
<1> DEFINE m == Whole(id)[i]
           n == Whole(id)[j]
           z == size_of[id]
           c == CHUNK_SIZE
<1>1. Length(id) \in Nat
  BY ItemIs DEF Length
<1>2. i \in Nat /\ j \in Nat /\ j > 1
  BY <1>1
<1>3. /\ i = 1 => Type(m) = "item"
      /\ i = 2 => Type(m) \in {"text", "header"}
      /\ i > 2 => z \in Nat /\ m = Chunk(id, Data(m)) /\ Piece(id, z, m, i - 2)
  BY KindOf
<1>4. /\ j = 2 => Type(n) \in {"text", "header"}
      /\ j > 2 => z \in Nat /\ n = Chunk(id, Data(n)) /\ Piece(id, z, n, j - 2)
  BY KindOf
<1>5. c \in Nat \ {0}
  BY Items
<1>6. (Length(id) = NumChunks(z) + 2 /\ NumChunks(z) \in Nat) \/ z \notin Nat
  BY ItemIs DEF Length, IsFile
<1> HIDE DEF m, n, z, c
<1>7. CASE i <= 2
  <2>1. Type(n) \in {"text", "header"} \/ Type(n) = "chunk"
    BY <1>2, <1>4 DEF Chunk, Type
  <2> QED
    BY <1>2, <1>3, <1>4, <1>7, <2>1 DEF Chunk, Type, m, n
<1>8. CASE i > 2
  <2>1. SUFFICES ASSUME m = n
                 PROVE  FALSE
    BY DEF m, n
  <2>2. j > 2 /\ z \in Nat
    BY <1>2, <1>3, <1>8
  <2>3. PICK e \in Seq(Nat) :
            m = Chunk(id, e) /\ Bytes(c * (i - 3)) \o e = Bytes(IF i - 2 = NumChunks(z) THEN z ELSE c * (i - 2))
    <3>1. (i - 2) - 1 = i - 3
      BY <1>2
    <3> QED
      BY <1>3, <1>8, <3>1 DEF Piece, c
  <2>4. PICK d \in Seq(Nat) :
            n = Chunk(id, d) /\ Bytes(c * (j - 3)) \o d = Bytes(IF j - 2 = NumChunks(z) THEN z ELSE c * (j - 2))
    <3>1. (j - 2) - 1 = j - 3
      BY <1>2
    <3> QED
      BY <1>4, <2>2, <3>1 DEF Piece, c
  <2>5. d = e
    <3>1. Chunk(id, d) = Chunk(id, e)
      BY <2>1, <2>3, <2>4
    <3> QED
      BY ONLY <3>1 DEF Chunk
  <2>6. i - 2 # NumChunks(z)
    BY <1>1, <1>2, <1>6, <2>2
  <2>7. PICK a \in Nat, b \in Nat, f \in Nat :
            a = c * (i - 3) /\ b = c * (i - 2) /\ f = c * (j - 3) /\ b = a + c /\ b <= f
    <3>1. PICK x \in Nat, y \in Nat : i - 3 = x /\ j - 3 = y /\ x < y /\ i - 2 = x + 1
      BY <1>2, <1>8
    <3>2. c * (x + 1) = c * x + c /\ c * x \in Nat /\ c * y \in Nat /\ c * (x + 1) <= c * y
      BY <1>5, <3>1, Times, SMTT(30)
    <3> QED
      BY <1>5, <3>1, <3>2
  <2>8. Len(e) = b - a /\ (Len(e) > 0 => e[1] = a + 1)
    <3>1. Bytes(a) \o e = Bytes(b)
      BY <2>3, <2>6, <2>7
    <3> QED
      BY <3>1, ChunkBegins
  <2>9. PICK g \in Nat : g = IF j - 2 = NumChunks(z) THEN z ELSE c * (j - 2)
    <3>1. j - 2 \in Nat
      BY <1>2, <2>2
    <3>2. c * (j - 2) \in Nat
      BY <1>5, <3>1
    <3> QED
      BY <2>2, <3>2
  <2>10. Len(d) > 0 => d[1] = f + 1
    BY <2>4, <2>7, <2>9, ChunkBegins
  <2>11. b = a + c /\ b <= f
    BY <2>7
  <2> QED
    BY ONLY <1>5, <2>5, <2>8, <2>10, <2>11, a \in Nat, b \in Nat, f \in Nat
<1> QED
  BY <1>2, <1>7, <1>8

\* So the place of a message is where it is.
LEMMA PlaceOf ==
    ASSUME RelayAssumption, NEW id \in Item, NEW k \in 1 .. Length(id)
    PROVE  Place(Whole(id)[k]) = k
<1> DEFINE m == Whole(id)[k]
           w == Whole(id)
           I == {i \in 1 .. Len(w) : w[i] = m}
<1>1. Of(m) = id
  BY KindOf
<1>2. k \in 1 .. Len(w) /\ Len(w) \in Nat
  BY ItemIs DEF Length
<1>3. ASSUME NEW i \in I
      PROVE  i = k
  <2>1. i \in 1 .. Length(id) /\ w[i] = w[k]
    BY <1>3 DEF Length
  <2>2. ~(i < k) /\ ~(k < i)
    BY <2>1, Different
  <2> QED
    BY <1>2, <2>1, <2>2 DEF Length
<1>4. I = {k}
  BY <1>2, <1>3
<1> HIDE DEF m, w
<1>5. Min(I) = k
  BY <1>2, <1>4 DEF Min
<1>6. SelectInSeq(w, LAMBDA x : x = m) = k
  BY <1>4, <1>5 DEF SelectInSeq
<1> QED
  BY <1>1, <1>6 DEF Place, w, m

-----------------------------------------------------------------------------
(***************************************************************************)
(* What goes to the target, in its order                                   *)
(***************************************************************************)
\* A place <<item, number>>, or << >> before the first message.
Pos(m) == <<Of(m), Place(m)>>
Complete(c) == c = << >> \/ c[2] = Length(c[1])
\* Message number p of id may come after the one at c.
Follows(c, id, p) ==
    \/ c = <<id, p - 1>>
    \/ Complete(c) /\ (p = 1 \/ (p = 2 /\ id \in refused))
Before(f, i) == IF i = 1 THEN << >> ELSE Pos(f[i - 1])
OneByOne(f) ==
    \A i \in 1 .. Len(f) :
        /\ Place(f[i]) \in 1 .. Length(Of(f[i]))
        /\ Follows(Before(f, i), Of(f[i]), Place(f[i]))
Known(f) == f \in Seq(Message) /\ \A i \in 1 .. Len(f) : size_of[Of(f[i])] # NULL
Placed(c) == c = << >> \/ (c[1] \in Item /\ size_of[c[1]] # NULL)

\* Sources send more items, and the target refuses more.
Growing ==
    /\ \A id \in Item : size_of[id] # NULL => size_of'[id] = size_of[id]
    /\ refused \subseteq refused'

\* A message is of an item.
LEMMA OfMessage ==
    ASSUME NEW m \in Message
    PROVE  Of(m) \in Item
  BY DEF Message, Of

\* The place of a message does not change.
LEMMA PlaceStays ==
    ASSUME Growing, NEW id \in Item, size_of[id] # NULL
    PROVE  /\ Length(id)' = Length(id) /\ Whole(id)' = Whole(id) /\ size_of'[id] # NULL
           /\ \A m \in Message : Of(m) = id => Place(m)' = Place(m) /\ Pos(m)' = Pos(m)
<1>1. size_of'[id] = size_of[id]
  BY DEF Growing
<1>2. Whole(id)' = Whole(id)
  BY <1>1, WholeSame
<1>3. ASSUME NEW m \in Message, Of(m) = id
      PROVE  Place(m)' = Place(m)
  BY <1>2, <1>3 DEF Place, SelectInSeq
<1> QED
  BY <1>1, <1>2, <1>3 DEF Length, Pos

\* What may follow goes on to follow.
LEMMA FollowsStays ==
    ASSUME Growing, NEW c, Placed(c)
    PROVE  /\ Placed(c)' /\ (Complete(c)' <=> Complete(c))
           /\ \A id, p : Follows(c, id, p) => Follows(c, id, p)'
<1>1. Placed(c)' /\ (Complete(c)' <=> Complete(c))
  <2>1. CASE c = << >>
    BY <2>1 DEF Placed, Complete
  <2>2. CASE c # << >>
    <3>1. c[1] \in Item /\ size_of[c[1]] # NULL
      BY <2>2 DEF Placed
    <3>2. Length(c[1])' = Length(c[1]) /\ size_of'[c[1]] # NULL
      BY <3>1, PlaceStays
    <3> QED
      BY <2>2, <3>1, <3>2 DEF Placed, Complete
  <2> QED
    BY <2>1, <2>2
<1> QED
  BY <1>1 DEF Follows, Growing

\* The same for all that went to the target.
LEMMA OneByOneStays ==
    ASSUME Growing, NEW f, Known(f)
    PROVE  /\ Known(f)' /\ (OneByOne(f) => OneByOne(f)')
           /\ \A i \in 1 .. Len(f) + 1 : Before(f, i)' = Before(f, i) /\ Placed(Before(f, i))
<1>1. f \in Seq(Message) /\ Len(f) \in Nat
  BY DEF Known
<1>2. ASSUME NEW i \in 1 .. Len(f)
      PROVE  /\ f[i] \in Message /\ Of(f[i]) \in Item /\ size_of[Of(f[i])] # NULL
             /\ size_of'[Of(f[i])] # NULL /\ Length(Of(f[i]))' = Length(Of(f[i]))
             /\ Place(f[i])' = Place(f[i]) /\ Pos(f[i])' = Pos(f[i])
  <2>1. f[i] \in Message /\ size_of[Of(f[i])] # NULL
    BY <1>1 DEF Known
  <2>2. Of(f[i]) \in Item
    BY <2>1, OfMessage
  <2> QED
    BY <2>1, <2>2, PlaceStays
<1>3. ASSUME NEW i \in 1 .. Len(f) + 1
      PROVE  Before(f, i)' = Before(f, i) /\ Placed(Before(f, i))
  <2>1. CASE i = 1
    BY <2>1 DEF Before, Placed
  <2>2. CASE i # 1
    <3>1. i - 1 \in 1 .. Len(f)
      BY <1>1, <2>2
    <3> QED
      BY <1>2, <2>2, <3>1 DEF Before, Placed, Pos
  <2> QED
    BY <2>1, <2>2
<1>4. Known(f)'
  BY <1>1, <1>2 DEF Known
<1>5. ASSUME OneByOne(f), NEW i \in 1 .. Len(f)
      PROVE  /\ Place(f[i])' \in 1 .. Length(Of(f[i]))'
             /\ Follows(Before(f, i), Of(f[i]), Place(f[i]))'
  <2>1. /\ Place(f[i]) \in 1 .. Length(Of(f[i]))
        /\ Follows(Before(f, i), Of(f[i]), Place(f[i]))
    BY <1>5 DEF OneByOne
  <2>2. i \in 1 .. Len(f) + 1
    BY <1>1
  <2> DEFINE c == Before(f, i)
             p == Place(f[i])
  <2>3. c' = c /\ Placed(c) /\ p' = p
    BY <1>2, <1>3, <2>2
  <2>4. Follows(c, Of(f[i]), p)'
    <3> HIDE DEF c, p
    <3>1. PICK x, y : x = c /\ y = p
      OBVIOUS
    <3>2. Placed(x) /\ Follows(x, Of(f[i]), y)
      BY <2>1, <2>3, <3>1 DEF c, p
    <3>3. Follows(x, Of(f[i]), y)'
      BY <3>2, FollowsStays
    <3>4. c' = x /\ p' = y
      BY <2>3, <3>1
    <3> QED
      BY <3>3, <3>4 DEF Follows, Complete
  <2> QED
    BY <1>2, <2>1, <2>4
<1>6. OneByOne(f) => OneByOne(f)'
  BY <1>5 DEF OneByOne
<1> QED
  BY <1>3, <1>4, <1>6

\* Where the messages that went end: one more of them.
End(f) == Before(f, Len(f) + 1)
LEMMA OneMore ==
    ASSUME NEW f, Known(f), OneByOne(f), NEW m \in Message, size_of[Of(m)] # NULL,
           Place(m) \in 1 .. Length(Of(m)), Follows(End(f), Of(m), Place(m))
    PROVE  Known(Append(f, m)) /\ OneByOne(Append(f, m)) /\ End(Append(f, m)) = Pos(m)
<1> DEFINE g == Append(f, m)
<1>1. /\ f \in Seq(Message) /\ Len(f) \in Nat
      /\ g \in Seq(Message) /\ Len(g) = Len(f) + 1
      /\ \A i \in 1 .. Len(f) : g[i] = f[i]
      /\ g[Len(f) + 1] = m
  BY AppendOf DEF Known
<1> HIDE DEF g
<1>2. ASSUME NEW i \in 1 .. Len(f) + 1
      PROVE  Before(g, i) = Before(f, i)
  <2>1. i # 1 => i - 1 \in 1 .. Len(f) /\ g[i - 1] = f[i - 1]
    BY <1>1
  <2> QED
    BY <2>1 DEF Before
<1>3. Known(g)
  BY <1>1 DEF Known
<1>4. ASSUME NEW i \in 1 .. Len(g)
      PROVE  Place(g[i]) \in 1 .. Length(Of(g[i])) /\ Follows(Before(g, i), Of(g[i]), Place(g[i]))
  <2>1. CASE i = Len(f) + 1
    BY <1>1, <1>2, <2>1 DEF End
  <2>2. CASE i # Len(f) + 1
    <3>1. i \in 1 .. Len(f) /\ i \in 1 .. Len(f) + 1
      BY <1>1, <2>2
    <3> QED
      BY <1>1, <1>2, <3>1 DEF OneByOne
  <2> QED
    BY <2>1, <2>2
<1>5. End(g) = Pos(m)
  BY <1>1 DEF End, Before
<1> QED
  BY <1>3, <1>4, <1>5 DEF OneByOne, g

-----------------------------------------------------------------------------
(***************************************************************************)
(* The streams and the queue                                               *)
(***************************************************************************)
\* What has still to be read from the stream of id, once its file is read, and where in the
\* item it starts.
Rest(id) == stream[id].msgs \o out[id]
Starts(id) == IF out[id] = NULL THEN 2 ELSE Length(id) + 1 - Len(Rest(id))
Supplied(id) ==
    /\ stream[id] = NULL => out[id] = NULL
    /\ stream[id] # NULL =>
          /\ size_of[id] \in Nat /\ dpc[id] # "none"
          /\ out[id] = NULL => stream[id].msgs = << >> /\ ~stream[id].off
          /\ stream[id].off => out[id] = << >>
    /\ out[id] # NULL =>
          /\ dpc[id] = "ended" /\ Len(Rest(id)) < Length(id)
          /\ \A i \in 1 .. Len(Rest(id)) : Rest(id)[i] = Whole(id)[Starts(id) - 1 + i]
    /\ Contains(todos, <<"callback", id>>) => dpc[id] = "ended" /\ out[id] = NULL
ToldOnce == \A i, j \in 1 .. Len(todos) : todos[i] = todos[j] /\ Type(todos[i]) = "callback" => i = j
SupplyTypes ==
    /\ stream \in [Item -> {NULL} \cup [msgs : Seq(Message), off : BOOLEAN]]
    /\ out \in [Item -> {NULL} \cup Seq(Message)]
Supplies == SupplyTypes /\ ToldOnce /\ \A id \in Item : Supplied(id)

\* An entry of the queue stands for messages of its item, from First up to EndOf.
First(e) == IF Type(e) = "item" THEN 1 ELSE IF Type(e) = "text" THEN 2 ELSE Starts(Of(e))
EndOf(e) == <<Of(e), IF Type(e) = "item" THEN 1 ELSE Length(Of(e))>>
Held(q) ==
    /\ q \in Seq({"item", "text", "stream"} \X Item)
    /\ \A i \in 1 .. Len(q) :
          /\ size_of[Of(q[i])] # NULL
          /\ Type(q[i]) = "text" => size_of[Of(q[i])] = Text
          /\ Stream(q[i]) /\ i > 1 => Starts(Of(q[i])) = 2
    /\ \A i, j \in 1 .. Len(q) : Stream(q[i]) /\ q[i] = q[j] => i = j
Opened(q) == \A i \in 1 .. Len(q) : Stream(q[i]) => stream[Of(q[i])] # NULL
\* The entries follow each other, and the first one what is taken.
Prior(q, c, i) == IF i = 1 THEN c ELSE EndOf(q[i - 1])
Links(q, c) == \A i \in 1 .. Len(q) : Follows(Prior(q, c, i), Of(q[i]), First(q[i]))
Final(q, c) == Prior(q, c, Len(q) + 1)

\* The numbers of the messages in a stream.
LEMMA StartsIs ==
    ASSUME RelayAssumption, NullAssumption, Supplies, NEW id \in Item, stream[id] # NULL
    PROVE  /\ stream[id] \in [msgs : Seq(Message), off : BOOLEAN]
           /\ size_of[id] \in Nat /\ Length(id) \in Nat /\ Length(id) >= 2
           /\ Starts(id) \in 2 .. Length(id) + 1
           /\ stream[id].off /\ stream[id].msgs = << >> => Starts(id) = Length(id) + 1
           /\ stream[id].msgs # << >> =>
                 /\ out[id] \in Seq(Message) /\ out[id] # NULL
                 /\ Starts(id) <= Length(id) /\ Head(stream[id].msgs) = Whole(id)[Starts(id)]
<1>1. Supplied(id) /\ stream[id] \in [msgs : Seq(Message), off : BOOLEAN]
  BY DEF Supplies, SupplyTypes
<1>2. Length(id) \in Nat /\ Length(id) >= 2
  BY ItemIs DEF Length
<1>3. CASE out[id] = NULL
  <2>1. stream[id].msgs = << >> /\ ~stream[id].off /\ Starts(id) = 2
    BY <1>1, <1>3 DEF Supplied, Starts
  <2> QED
    BY <1>1, <1>2, <2>1 DEF Supplied
<1>4. CASE out[id] # NULL
  <2>1. out[id] \in Seq(Message)
    BY <1>4 DEF Supplies, SupplyTypes
  <2>2. PICK a \in Seq(Message), b \in Seq(Message) : a = stream[id].msgs /\ b = out[id]
    BY <1>1, <2>1
  <2>3. /\ a \o b \in Seq(Message) /\ Len(a \o b) = Len(a) + Len(b)
        /\ \A i \in 1 .. Len(a) : (a \o b)[i] = a[i]
    BY ConcatOf
  <2>4. PICK r \in Seq(Message) : r = a \o b /\ r = Rest(id)
    BY <2>2, <2>3 DEF Rest
  <2>5. /\ Len(r) < Length(id) /\ Starts(id) = Length(id) + 1 - Len(r)
        /\ \A i \in 1 .. Len(r) : r[i] = Whole(id)[Starts(id) - 1 + i]
    BY <1>1, <1>4, <2>4 DEF Supplied, Starts
  <2>6. Len(r) = Len(a) + Len(b) /\ Len(a) \in Nat /\ Len(b) \in Nat /\ Len(r) \in Nat
    BY <2>3, <2>4
  <2>7. Starts(id) \in 2 .. Length(id) + 1
    BY <1>2, <2>5, <2>6
  <2>8. ASSUME stream[id].off, a = << >>
        PROVE  Starts(id) = Length(id) + 1
    <3>1. b = << >>
      BY <1>1, <2>2, <2>8, <1>4 DEF Supplied
    <3>2. Len(r) = 0
      BY <2>6, <2>8, <3>1
    <3> QED
      BY <1>2, <2>5, <3>2
  <2>9. ASSUME a # << >>
        PROVE  Starts(id) <= Length(id) /\ Head(a) = Whole(id)[Starts(id)]
    <3>1. Head(a) = a[1] /\ Len(a) > 0
      BY <2>9, TailOf
    <3>2. 1 \in 1 .. Len(a) /\ 1 \in 1 .. Len(r)
      BY <2>6, <3>1
    <3>3. r[1] = Head(a)
      BY <2>3, <2>4, <3>1, <3>2
    <3>4. Starts(id) - 1 + 1 = Starts(id)
      BY <2>7
    <3>5. r[1] = Whole(id)[Starts(id)]
      BY <2>5, <3>2, <3>4
    <3> QED
      BY <1>2, <2>5, <2>6, <3>1, <3>3, <3>5
  <2> QED
    BY <1>1, <1>2, <1>4, <2>1, <2>2, <2>7, <2>8, <2>9 DEF Supplied
<1> QED
  BY <1>3, <1>4

\* What the queue holds: entries, and streams that are there.
LEMMA EntryIs ==
    ASSUME RelayAssumption, NullAssumption, Supplies, NEW q, Held(q), Opened(q),
           NEW i \in 1 .. Len(q)
    PROVE  /\ q[i] \in {"item", "text", "stream"} \X Item /\ Of(q[i]) \in Item
           /\ Type(q[i]) \in {"item", "text", "stream"} /\ q[i] = <<Type(q[i]), Of(q[i])>>
           /\ Placed(EndOf(q[i]))
           /\ Finished(q[i]) => i = 1 /\ First(q[i]) = Length(Of(q[i])) + 1
<1>1. q[i] \in {"item", "text", "stream"} \X Item
  BY DEF Held
<1>2. /\ Of(q[i]) \in Item
      /\ Type(q[i]) \in {"item", "text", "stream"} /\ q[i] = <<Type(q[i]), Of(q[i])>>
  BY <1>1 DEF Of, Type
<1>3. Placed(EndOf(q[i]))
  BY <1>2 DEF Held, Placed, EndOf
<1>4. Stream(q[i]) => stream[Of(q[i])] # NULL /\ (i > 1 => Starts(Of(q[i])) = 2)
  BY DEF Held, Opened
<1>5. ASSUME Finished(q[i])
      PROVE  i = 1 /\ First(q[i]) = Length(Of(q[i])) + 1
  <2>1. Stream(q[i]) /\ stream[Of(q[i])].off /\ stream[Of(q[i])].msgs = << >>
    BY <1>5 DEF Finished
  <2>2. /\ Length(Of(q[i])) \in Nat /\ Length(Of(q[i])) >= 2
        /\ Starts(Of(q[i])) = Length(Of(q[i])) + 1
    BY <1>2, <1>4, <2>1, StartsIs
  <2>3. First(q[i]) = Starts(Of(q[i]))
    BY <2>1 DEF First, Stream
  <2>4. ~(i > 1)
    BY <1>4, <2>1, <2>2
  <2>5. Len(q) \in Nat
    BY DEF Held
  <2> QED
    BY <2>2, <2>3, <2>4, <2>5
<1> QED
  BY <1>1, <1>2, <1>3, <1>4, <1>5

\* Without its first entry the queue goes on from the end of that.
LEMMA TailLinks ==
    ASSUME NEW q, Held(q), q # << >>
    PROVE  /\ Held(Tail(q)) /\ (Opened(q) => Opened(Tail(q)))
           /\ \A c : Links(q, c) => /\ Links(Tail(q), EndOf(q[1]))
                                   /\ Final(Tail(q), EndOf(q[1])) = Final(q, c)
<1> DEFINE S == {"item", "text", "stream"} \X Item
           r == Tail(q)
           d == EndOf(q[1])
<1>1. q \in Seq(S)
  BY DEF Held
<1> HIDE DEF S
<1>2. /\ Len(q) > 0 /\ Len(q) \in Nat /\ r \in Seq(S) /\ Len(r) = Len(q) - 1
      /\ \A i \in 1 .. Len(q) - 1 : r[i] = q[i + 1]
  BY <1>1, TailOf
<1> HIDE DEF r, d
<1>3. ASSUME NEW i \in 1 .. Len(r)
      PROVE  i + 1 \in 1 .. Len(q) /\ i + 1 > 1 /\ r[i] = q[i + 1]
  BY <1>2
<1>4. ASSUME NEW c, NEW i \in 1 .. Len(r) + 1
      PROVE  Prior(r, d, i) = Prior(q, c, i + 1)
  <2>1. CASE i = 1
    BY <2>1 DEF Prior, d
  <2>2. CASE i # 1
    <3>1. i - 1 \in 1 .. Len(r) /\ (i - 1) + 1 = i /\ (i + 1) - 1 = i /\ i + 1 # 1
      BY <1>2, <2>2
    <3>2. r[i - 1] = q[i]
      BY <1>3, <3>1
    <3> QED
      BY <2>2, <3>1, <3>2 DEF Prior
  <2> QED
    BY <2>1, <2>2
<1>5. ASSUME NEW c, Links(q, c), NEW i \in 1 .. Len(r)
      PROVE  Follows(Prior(r, d, i), Of(r[i]), First(r[i]))
  <2>1. i \in 1 .. Len(r) + 1
    BY <1>2
  <2>2. Follows(Prior(q, c, i + 1), Of(q[i + 1]), First(q[i + 1]))
    BY <1>3, <1>5 DEF Links
  <2> QED
    BY <1>3, <1>4, <2>1, <2>2
<1>6. ASSUME NEW c
      PROVE  Final(r, d) = Final(q, c)
  <2>1. Len(r) + 1 = Len(q) /\ Len(r) + 1 \in 1 .. Len(r) + 1
    BY <1>2
  <2> QED
    BY <1>4, <2>1 DEF Final
<1>7. \A i \in 1 .. Len(r) :
          /\ size_of[Of(r[i])] # NULL
          /\ Type(r[i]) = "text" => size_of[Of(r[i])] = Text
          /\ Stream(r[i]) /\ i > 1 => Starts(Of(r[i])) = 2
  BY <1>3 DEF Held
<1>8. ASSUME NEW i \in 1 .. Len(r), NEW j \in 1 .. Len(r), Stream(r[i]), r[i] = r[j]
      PROVE  i = j
  <2>1. i + 1 = j + 1
    BY <1>3, <1>8 DEF Held
  <2> QED
    BY <1>2, <2>1
<1>9. Held(r) /\ (Opened(q) => Opened(r))
  BY <1>2, <1>3, <1>7, <1>8 DEF Held, Opened, S
<1> QED
  BY <1>5, <1>6, <1>9 DEF Links, r, d

\* What is put behind what follows may follow too.
LEMMA AppendLinks ==
    ASSUME NEW q, Held(q), NEW e \in {"item", "text", "stream"} \X Item, size_of[Of(e)] # NULL,
           Type(e) = "text" => size_of[Of(e)] = Text,
           Stream(e) => Starts(Of(e)) = 2 /\ \A i \in 1 .. Len(q) : q[i] # e
    PROVE  /\ Held(Append(q, e))
           /\ \A c : /\ Final(Append(q, e), c) = EndOf(e)
                     /\ Links(q, c) /\ Follows(Final(q, c), Of(e), First(e)) => Links(Append(q, e), c)
<1> DEFINE S == {"item", "text", "stream"} \X Item
           r == Append(q, e)
<1>1. q \in Seq(S) /\ e \in S
  BY DEF Held
<1> HIDE DEF S
<1>2. /\ Len(q) \in Nat /\ r \in Seq(S) /\ Len(r) = Len(q) + 1
      /\ \A i \in 1 .. Len(q) : r[i] = q[i]
      /\ r[Len(q) + 1] = e
  BY <1>1, AppendOf
<1> HIDE DEF r
<1>3. \A i \in 1 .. Len(r) : i = Len(q) + 1 \/ i \in 1 .. Len(q)
  BY <1>2
<1>4. \A i \in 1 .. Len(r) :
          /\ size_of[Of(r[i])] # NULL
          /\ Type(r[i]) = "text" => size_of[Of(r[i])] = Text
          /\ Stream(r[i]) /\ i > 1 => Starts(Of(r[i])) = 2
  BY <1>2, <1>3 DEF Held
<1>5. ASSUME NEW i \in 1 .. Len(r), NEW j \in 1 .. Len(r), Stream(r[i]), r[i] = r[j]
      PROVE  i = j
  <2>1. CASE i \in 1 .. Len(q) /\ j \in 1 .. Len(q)
    BY <1>2, <1>5, <2>1 DEF Held
  <2>2. CASE i = Len(q) + 1 /\ j \in 1 .. Len(q)
    BY <1>2, <1>5, <2>2
  <2>3. CASE i \in 1 .. Len(q) /\ j = Len(q) + 1
    BY <1>2, <1>5, <2>3
  <2> QED
    BY <1>3, <2>1, <2>2, <2>3
<1>6. Held(r)
  BY <1>2, <1>4, <1>5 DEF Held, S
<1>7. ASSUME NEW c, NEW i \in 1 .. Len(q) + 1
      PROVE  Prior(r, c, i) = Prior(q, c, i)
  <2>1. i # 1 => i - 1 \in 1 .. Len(q)
    BY <1>2
  <2> QED
    BY <1>2, <2>1 DEF Prior
<1>8. ASSUME NEW c
      PROVE  Final(r, c) = EndOf(e)
  <2>1. Len(r) + 1 # 1 /\ (Len(r) + 1) - 1 = Len(q) + 1
    BY <1>2
  <2> QED
    BY <1>2, <2>1 DEF Final, Prior
<1>9. ASSUME NEW c, Links(q, c), Follows(Final(q, c), Of(e), First(e)), NEW i \in 1 .. Len(r)
      PROVE  Follows(Prior(r, c, i), Of(r[i]), First(r[i]))
  <2>1. CASE i = Len(q) + 1
    <3>1. i \in 1 .. Len(q) + 1
      BY <1>2, <2>1
    <3>2. Prior(r, c, i) = Final(q, c)
      BY <1>7, <2>1, <3>1 DEF Final
    <3> QED
      BY <1>2, <1>9, <2>1, <3>2
  <2>2. CASE i \in 1 .. Len(q)
    <3>1. i \in 1 .. Len(q) + 1
      BY <1>2, <2>2
    <3>2. Prior(r, c, i) = Prior(q, c, i) /\ r[i] = q[i]
      BY <1>2, <1>7, <2>2, <3>1
    <3> QED
      BY <1>9, <2>2, <3>2 DEF Links
  <2> QED
    BY <1>3, <2>1, <2>2
<1> QED
  BY <1>6, <1>8, <1>9 DEF Links, r

\* empty and ready look behind a finished stream, which only the first can be.
LEMMA UnreadIs ==
    ASSUME RelayAssumption, NullAssumption, Supplies, Held(send_q), Opened(send_q)
    PROVE  /\ Held(Unread) /\ Opened(Unread)
           /\ Unread # << >> => ~Finished(Unread[1])
           /\ \A c : Links(send_q, c) => Links(Unread, c) /\ Final(Unread, c) = Final(send_q, c)
           /\ \A x : (\E i \in 1 .. Len(Unread) : Unread[i] = x) =>
                        \E i \in 1 .. Len(send_q) : send_q[i] = x
<1> DEFINE q == send_q
           S == {"item", "text", "stream"} \X Item
           I == {i \in 1 .. Len(q) : ~Finished(q[i])}
           n == SelectInSeq(q, LAMBDA m : ~Finished(m))
<1>1. q \in Seq(S) /\ Len(q) \in Nat
  BY DEF Held
<1>2. \A i \in 1 .. Len(q) : Finished(q[i]) => i = 1 /\ First(q[i]) = Length(Of(q[i])) + 1
  BY EntryIs
<1>3. n = (IF I # {} THEN Min(I) ELSE 0)
  BY DEF SelectInSeq
<1>4. Unread = IF n = 0 THEN << >> ELSE SubSeq(q, n, Len(q))
  BY DEF Unread
<1> HIDE DEF S, I, n
<1>5. CASE q = << >>
  <2>1. I = {}
    BY <1>5 DEF I
  <2>2. Unread = << >>
    BY <1>3, <1>4, <2>1
  <2> QED
    BY <1>5, <2>2
<1>6. CASE q # << >> /\ ~Finished(q[1])
  <2>1. 1 \in I /\ \A i \in I : i \in Nat /\ 1 <= i
    BY <1>1, <1>6 DEF I
  <2>2. Min(I) = 1
    BY <2>1 DEF Min
  <2>3. Unread = SubSeq(q, 1, Len(q))
    BY <1>3, <1>4, <2>1, <2>2
  <2>4. Unread = q
    BY <1>1, <2>3
  <2> QED
    BY <1>6, <2>4
<1>7. CASE q # << >> /\ Finished(q[1])
  <2>1. Len(q) > 0 /\ 1 \in 1 .. Len(q)
    BY <1>1, <1>7
  <2>2. I = 2 .. Len(q)
    BY <1>1, <1>2, <1>7 DEF I
  <2>3. Unread = Tail(q)
    <3>1. CASE Len(q) = 1
      <4>1. I = {}
        BY <2>2, <3>1
      <4>2. n = 0
        BY <1>3, <4>1
      <4>3. Unread = << >>
        BY <1>4, <4>2
      <4>4. Tail(q) = << >>
        <5>1. Tail(q) \in Seq(S) /\ Len(Tail(q)) = 0
          BY <1>1, <1>7, <3>1, TailOf
        <5>2. PICK r \in Seq(S) : r = Tail(q)
          BY <5>1
        <5>3. Len(r) = 0
          BY <5>1, <5>2
        <5> QED
          BY <5>2, <5>3
      <4> QED
        BY <4>3, <4>4
    <3>2. CASE Len(q) # 1
      <4>1. 2 \in I /\ \A i \in I : i \in Nat /\ 2 <= i
        <5>1. PICK k \in Nat : k = Len(q) /\ k >= 2
          <6>1. PICK k \in Nat : k = Len(q)
            BY <1>1
          <6>2. k > 0 /\ k # 1
            BY <2>1, <3>2, <6>1
          <6>3. k >= 2
            BY ONLY <6>1, <6>2
          <6> QED
            BY <6>1, <6>3
        <5>2. I = 2 .. k
          BY <2>2, <5>1
        <5> QED
          BY ONLY <5>1, <5>2
      <4>2. Min(I) = 2
        BY <4>1 DEF Min
      <4>3. Unread = SubSeq(q, 2, Len(q))
        BY <1>3, <1>4, <4>1, <4>2
      <4> QED
        BY <1>1, <1>7, <4>3
    <3> QED
      BY <3>1, <3>2
  <2> DEFINE r == Tail(q)
  <2>4. /\ r \in Seq(S) /\ Len(r) = Len(q) - 1 /\ \A i \in 1 .. Len(q) - 1 : r[i] = q[i + 1]
    BY <1>1, <1>7, TailOf
  <2> HIDE DEF r
  <2>5. \A i \in 1 .. Len(r) : i + 1 \in 1 .. Len(q) /\ i + 1 # 1 /\ r[i] = q[i + 1]
    BY <1>1, <2>4
  <2>6. r # << >> => ~Finished(r[1])
    <3>1. r # << >> => 1 \in 1 .. Len(r)
      BY <2>4
    <3> QED
      BY <1>2, <2>5, <3>1
  <2>7. ASSUME NEW c, Links(q, c)
        PROVE  EndOf(q[1]) = c
    <3>1. Follows(c, Of(q[1]), First(q[1]))
      BY <2>1, <2>7 DEF Links, Prior
    <3>2. Stream(q[1]) /\ Of(q[1]) \in Item /\ First(q[1]) = Length(Of(q[1])) + 1
      BY <1>2, <1>7, <2>1, EntryIs DEF Finished
    <3>3. PICK L \in Nat : L = Length(Of(q[1])) /\ L >= 2
      BY <3>2, ItemIs DEF Length
    <3>4. First(q[1]) - 1 = L /\ First(q[1]) # 1 /\ First(q[1]) # 2
      BY <3>2, <3>3
    <3>5. c = <<Of(q[1]), L>>
      BY <3>1, <3>4 DEF Follows
    <3> QED
      BY <3>2, <3>3, <3>5 DEF EndOf, Stream
  <2>8. /\ Held(r) /\ Opened(r)
        /\ \A c : Links(q, c) => /\ Links(r, EndOf(q[1]))
                                /\ Final(r, EndOf(q[1])) = Final(q, c)
    BY <1>7, TailLinks DEF r
  <2>9. Unread = r
    BY <2>3 DEF r
  <2>10. \A c : Links(q, c) => Links(r, c) /\ Final(r, c) = Final(q, c)
    BY <2>7, <2>8
  <2> QED
    BY <2>5, <2>6, <2>8, <2>9, <2>10
<1> QED
  BY <1>5, <1>6, <1>7

\* The queue stays in order while nothing is taken from its streams.
LEMMA QueueStays ==
    ASSUME Growing, NEW q, Held(q),
           \A i \in 1 .. Len(q) : Stream(q[i]) => Starts(Of(q[i]))' = Starts(Of(q[i]))
    PROVE  /\ Held(q)'
           /\ \A c : Placed(c) =>
                 /\ Final(q, c)' = Final(q, c) /\ Placed(Final(q, c))
                 /\ Links(q, c) => Links(q, c)'
<1>1. Len(q) \in Nat /\ \A i \in 1 .. Len(q) : q[i] \in {"item", "text", "stream"} \X Item
  BY DEF Held
<1>2. ASSUME NEW i \in 1 .. Len(q)
      PROVE  /\ Of(q[i]) \in Item /\ size_of[Of(q[i])] # NULL
             /\ size_of'[Of(q[i])] = size_of[Of(q[i])] /\ Length(Of(q[i]))' = Length(Of(q[i]))
             /\ EndOf(q[i])' = EndOf(q[i]) /\ Placed(EndOf(q[i])) /\ First(q[i])' = First(q[i])
  <2>1. Of(q[i]) \in Item /\ Type(q[i]) \in {"item", "text", "stream"}
    BY <1>1 DEF Of, Type
  <2>2. size_of[Of(q[i])] # NULL
    BY DEF Held
  <2>3. size_of'[Of(q[i])] = size_of[Of(q[i])]
    BY <2>1, <2>2 DEF Growing
  <2>4. Length(Of(q[i]))' = Length(Of(q[i]))
    BY <2>1, <2>2, PlaceStays
  <2>5. First(q[i])' = First(q[i])
    BY <2>1 DEF First, Stream
  <2> QED
    BY <2>1, <2>2, <2>3, <2>4, <2>5 DEF EndOf, Placed
<1>3. ASSUME NEW c, Placed(c), NEW i \in 1 .. Len(q) + 1
      PROVE  Prior(q, c, i)' = Prior(q, c, i) /\ Placed(Prior(q, c, i))
  <2>1. i # 1 => i - 1 \in 1 .. Len(q)
    BY <1>1
  <2> QED
    BY <1>2, <1>3, <2>1 DEF Prior
<1>4. ASSUME NEW c, Placed(c)
      PROVE  Final(q, c)' = Final(q, c) /\ Placed(Final(q, c))
  <2>1. Len(q) + 1 \in 1 .. Len(q) + 1
    BY <1>1
  <2> QED
    BY <1>3, <1>4, <2>1 DEF Final
<1>5. ASSUME NEW c, Placed(c), Links(q, c), NEW i \in 1 .. Len(q)
      PROVE  Follows(Prior(q, c, i), Of(q[i]), First(q[i]))'
  <2>1. PICK x, p : x = Prior(q, c, i) /\ p = First(q[i])
    OBVIOUS
  <2>2. Follows(x, Of(q[i]), p)
    BY <1>5, <2>1 DEF Links
  <2>3. i \in 1 .. Len(q) + 1
    BY <1>1
  <2>4. Prior(q, c, i)' = x /\ First(q[i])' = p /\ Placed(x)
    BY <1>2, <1>3, <1>5, <2>1, <2>3
  <2>5. Follows(x, Of(q[i]), p)'
    BY <2>2, <2>4, FollowsStays
  <2> QED
    BY <2>4, <2>5 DEF Follows, Complete
<1>6. Held(q)'
  <2>1. \A i \in 1 .. Len(q) : Stream(q[i]) /\ i > 1 => Starts(Of(q[i]))' = 2
    BY DEF Held
  <2> QED
    BY <1>2, <2>1 DEF Held
<1> QED
  BY <1>4, <1>5, <1>6 DEF Links

-----------------------------------------------------------------------------
(***************************************************************************)
(* The inductive invariant of what is sent                                 *)
(***************************************************************************)
\* Who holds a message, and what the target has with it.
Nobody == \A t \in Thread : holding[t] = NULL
TwoHold == \E t, u \in Thread : t # u /\ holding[t] # NULL /\ holding[u] # NULL
Taken(f) ==
    \/ Nobody /\ f = wire
    \/ \E t \in Thread : /\ holding[t] # NULL /\ f = Append(wire, holding[t])
                         /\ \A u \in Thread \ {t} : holding[u] = NULL
\* What the main thread will send belongs behind the queue.
Awaits(c) == IF mpc \in {"text", "file"} THEN Follows(c, curr, 2) ELSE Complete(c)

SentTypes ==
    /\ Known(wire) /\ crossed \in BOOLEAN /\ connected \in BOOLEAN /\ refused \subseteq Item
    /\ holding \in [Thread -> Message \cup {NULL}]
    /\ \A t \in Thread : holding[t] # NULL => size_of[Of(holding[t])] # NULL
Threads ==
    /\ idle \in [Thread -> {"no", "prune", "send", "now"}]
    /\ \A t \in Thread : holding[t] # NULL <=> idle[t] = "now"
    /\ idle[Main] # "no" => mpc \in {"idle", "text"}
Unconnected == connected \/ (wire = << >> /\ send_q = << >> /\ Nobody)
\* Unless two threads have sent past each other, what has been taken and then what is in the
\* queue is in order.
Flow ==
    ~crossed =>
        /\ OneByOne(wire)
        /\ \/ TwoHold
           \/ \E f : /\ Taken(f) /\ Known(f) /\ OneByOne(f) /\ Links(send_q, End(f))
                     /\ Awaits(Final(send_q, End(f)))
Order == SentTypes /\ Held(send_q) /\ Opened(send_q) /\ Unconnected /\ Flow
OrderInv == IInv /\ Threads /\ Supplies /\ Order

\* The main thread waits for the same as before.
Waiting == UNCHANGED <<mpc, curr>> \/ (mpc \notin {"text", "file"} /\ mpc' \notin {"text", "file"})

LEMMA AwaitsStays ==
    ASSUME Growing, NEW c, Placed(c), Awaits(c), Waiting
    PROVE  Awaits(c)'
<1>1. Complete(c)' <=> Complete(c)
  BY FollowsStays
<1>2. CASE mpc \in {"text", "file"}
  <2>1. UNCHANGED <<mpc, curr>>
    BY <1>2 DEF Waiting
  <2>2. PICK x : x = curr
    OBVIOUS
  <2>3. Follows(c, x, 2)
    BY <1>2, <2>2 DEF Awaits
  <2>4. Follows(c, x, 2)'
    BY <2>3, FollowsStays
  <2>5. curr' = x /\ mpc' \in {"text", "file"}
    BY <1>2, <2>1, <2>2
  <2> QED
    BY <2>4, <2>5 DEF Awaits, Follows
<1>3. CASE mpc \notin {"text", "file"}
  BY <1>1, <1>3 DEF Awaits, Waiting
<1> QED
  BY <1>2, <1>3

\* What ends a sequence of known messages is a place.
LEMMA EndIs ==
    ASSUME NEW f, Known(f)
    PROVE  Placed(End(f))
<1>1. f \in Seq(Message) /\ Len(f) \in Nat
  BY DEF Known
<1>2. CASE Len(f) = 0
  BY <1>2 DEF End, Before, Placed
<1>3. CASE Len(f) # 0
  <2>1. Len(f) \in 1 .. Len(f) /\ Len(f) + 1 # 1 /\ (Len(f) + 1) - 1 = Len(f)
    BY <1>1, <1>3
  <2>2. f[Len(f)] \in Message /\ size_of[Of(f[Len(f)])] # NULL
    BY <1>1, <2>1 DEF Known
  <2>3. Of(f[Len(f)]) \in Item
    BY <2>2, OfMessage
  <2> QED
    BY <2>1, <2>2, <2>3 DEF End, Before, Placed, Pos
<1> QED
  BY <1>2, <1>3

\* After a step the order is right when it is right for what is then sent, taken and queued.
LEMMA OrderFrom ==
    ASSUME Growing, refused' \subseteq Item, crossed' \in BOOLEAN, connected' \in BOOLEAN, Unconnected',
           NEW w, wire' = w, Known(w), NEW q, send_q' = q, Held(q), Opened(q)',
           \A i \in 1 .. Len(q) : Stream(q[i]) => Starts(Of(q[i]))' = Starts(Of(q[i])),
           holding' \in [Thread -> Message \cup {NULL}],
           \A t \in Thread : holding'[t] # NULL => size_of[Of(holding'[t])] # NULL,
           ~crossed' =>
               /\ OneByOne(w)
               /\ \/ TwoHold'
                  \/ \E f, c, d : /\ Taken(f)' /\ Known(f) /\ OneByOne(f) /\ c = End(f)
                                  /\ Links(q, c) /\ d = Final(q, c) /\ Awaits(d)'
    PROVE  Order'
<1>1. /\ Held(q)'
      /\ \A c : Placed(c) => Final(q, c)' = Final(q, c) /\ (Links(q, c) => Links(q, c)')
  BY QueueStays
<1>2. Held(send_q)' /\ Opened(send_q)'
  BY <1>1 DEF Held, Opened
<1>3. Known(w)' /\ (OneByOne(w) => OneByOne(w)')
  BY OneByOneStays
<1>4. SentTypes'
  <2>1. Known(wire)'
    BY <1>3 DEF Known
  <2>2. ASSUME NEW t \in Thread, holding'[t] # NULL
        PROVE  size_of'[Of(holding'[t])] # NULL
    <3>1. holding'[t] \in Message /\ size_of[Of(holding'[t])] # NULL
      BY <2>2
    <3>2. Of(holding'[t]) \in Item
      BY <3>1, OfMessage
    <3> QED
      BY <3>1, <3>2 DEF Growing
  <2> QED
    BY <2>1, <2>2 DEF SentTypes
<1>5. ASSUME ~crossed'
      PROVE  /\ OneByOne(wire)'
             /\ \/ TwoHold'
                \/ \E f : /\ Taken(f)' /\ Known(f)' /\ OneByOne(f)' /\ Links(send_q, End(f))'
                          /\ Awaits(Final(send_q, End(f)))'
  <2>1. OneByOne(wire)'
    <3>1. OneByOne(w)'
      BY <1>3, <1>5
    <3> QED
      BY <3>1 DEF OneByOne, Before
  <2>2. ASSUME NEW f, NEW c, NEW d, Taken(f)', Known(f), OneByOne(f), c = End(f),
               Links(q, c), d = Final(q, c), Awaits(d)'
        PROVE  /\ Known(f)' /\ OneByOne(f)' /\ Links(send_q, End(f))'
               /\ Awaits(Final(send_q, End(f)))'
    <3>1. End(f)' = c /\ Known(f)' /\ OneByOne(f)' /\ Placed(c)
      <4>1. f \in Seq(Message) /\ Len(f) \in Nat
        BY <2>2 DEF Known
      <4>2. Len(f) + 1 \in 1 .. Len(f) + 1
        BY <4>1
      <4>3. Before(f, Len(f) + 1)' = Before(f, Len(f) + 1) /\ Known(f)' /\ OneByOne(f)'
        BY <2>2, <4>2, OneByOneStays
      <4>4. Placed(c)
        BY <2>2, EndIs
      <4> QED
        BY <2>2, <4>3, <4>4 DEF End
    <3>2. Links(q, c)' /\ Final(q, c)' = d
      BY <1>1, <2>2, <3>1
    <3>3. Links(send_q, End(f))'
      BY <3>1, <3>2 DEF Links, Prior
    <3>4. Final(send_q, End(f))' = d
      BY <3>1, <3>2 DEF Final, Prior
    <3>5. Awaits(Final(send_q, End(f)))'
      BY <2>2, <3>4 DEF Awaits, Follows, Complete
    <3> QED
      BY <3>1, <3>3, <3>5
  <2> QED
    BY <1>5, <2>1, <2>2
<1>6. Flow'
  BY <1>5 DEF Flow
<1> QED
  BY <1>2, <1>4, <1>6 DEF Order

\* A step that sends and takes nothing.
LEMMA OrderStays ==
    ASSUME Order, Growing, refused' \subseteq Item,
           UNCHANGED <<wire, holding, send_q, crossed, connected>>, Waiting,
           \A id \in Item : stream[id] # NULL => stream'[id] # NULL /\ Starts(id)' = Starts(id)
    PROVE  Order'
<1>1. /\ Known(wire) /\ Held(send_q) /\ Opened(send_q) /\ Flow /\ SentTypes
  BY DEF Order, SentTypes
<1>2. ASSUME NEW i \in 1 .. Len(send_q), Stream(send_q[i])
      PROVE  /\ stream'[Of(send_q[i])] # NULL
             /\ Starts(Of(send_q[i]))' = Starts(Of(send_q[i]))
  <2>1. send_q[i] \in {"item", "text", "stream"} \X Item
    BY <1>1 DEF Held
  <2>2. Of(send_q[i]) \in Item /\ stream[Of(send_q[i])] # NULL
    BY <1>1, <1>2, <2>1 DEF Of, Opened
  <2> QED
    BY <2>2
<1>3. PICK q, w : q = send_q /\ w = wire
  OBVIOUS
<1>4. send_q' = q /\ wire' = w
  BY <1>3
<1>5. Opened(q)'
  BY <1>2, <1>3 DEF Opened, Stream
<1>6. Unconnected'
  BY DEF Order, Unconnected, Nobody
<1>7. /\ holding' \in [Thread -> Message \cup {NULL}] /\ crossed' \in BOOLEAN /\ connected' \in BOOLEAN
      /\ \A t \in Thread : holding'[t] # NULL => size_of[Of(holding'[t])] # NULL
  BY <1>1 DEF SentTypes
<1>8. ASSUME ~crossed'
      PROVE  /\ OneByOne(w)
             /\ \/ TwoHold'
                \/ \E f, c, d : /\ Taken(f)' /\ Known(f) /\ OneByOne(f) /\ c = End(f)
                                /\ Links(q, c) /\ d = Final(q, c) /\ Awaits(d)'
  <2>1. OneByOne(w)
    BY <1>1, <1>3, <1>8 DEF Flow
  <2>2. CASE TwoHold
    BY <2>1, <2>2 DEF TwoHold
  <2>3. ASSUME NEW f, Taken(f), Known(f), OneByOne(f), Links(send_q, End(f)),
               Awaits(Final(send_q, End(f)))
        PROVE  \E c, d : Taken(f)' /\ c = End(f) /\ Links(q, c) /\ d = Final(q, c) /\ Awaits(d)'
    <3>1. PICK c, d : c = End(f) /\ d = Final(q, c)
      OBVIOUS
    <3>2. Placed(d)
      <4>1. Placed(c)
        BY <2>3, <3>1, EndIs
      <4> QED
        BY <1>1, <1>2, <1>3, <3>1, <4>1, QueueStays
    <3>3. Awaits(d)'
      BY <1>3, <2>3, <3>1, <3>2, AwaitsStays
    <3>4. Taken(f)'
      BY <2>3 DEF Taken, Nobody
    <3> QED
      BY <1>3, <2>3, <3>1, <3>3, <3>4
  <2> QED
    BY <1>1, <1>8, <2>1, <2>2, <2>3 DEF Flow
<1> QED
  BY <1>1, <1>2, <1>3, <1>4, <1>5, <1>6, <1>7, <1>8, OrderFrom

-----------------------------------------------------------------------------
(***************************************************************************)
(* The steps that send nothing                                             *)
(***************************************************************************)
\* Deputies go on, and report once, at their end.
Reporting(id) == Contains(todos, <<"callback", id>>)
GoOn ==
    /\ \A id \in Item : /\ dpc[id] # "none" => dpc'[id] # "none"
                        /\ dpc[id] = "ended" => dpc'[id] = "ended"
                        /\ Reporting(id)' => Reporting(id) \/ (dpc[id] = "callback" /\ dpc'[id] = "ended")
    /\ ToldOnce'

\* What remains of a stream stays when nobody reads or writes it.
LEMMA SuppliedSame ==
    ASSUME RelayAssumption, Growing, GoOn, NEW id \in Item, Supplied(id),
           stream'[id] = stream[id], out'[id] = out[id]
    PROVE  Supplied(id)' /\ (stream[id] # NULL => Starts(id)' = Starts(id))
<1>1. size_of[id] \in Nat => size_of[id] # NULL
  BY DEF RelayAssumption
<1>2. size_of[id] \in Nat => size_of'[id] = size_of[id] /\ Length(id)' = Length(id)
                             /\ Whole(id)' = Whole(id)
  BY <1>1, PlaceStays DEF Growing
<1>3. Rest(id)' = Rest(id)
  BY DEF Rest
<1>4. stream[id] # NULL => Starts(id)' = Starts(id)
  BY <1>2, <1>3 DEF Supplied, Starts
<1>5. out[id] # NULL => stream[id] # NULL
  BY DEF Supplied
<1>6. Reporting(id)' => dpc'[id] = "ended" /\ out[id] = NULL
  BY DEF GoOn, Supplied, Reporting
<1>7. stream[id] # NULL => size_of'[id] \in Nat /\ dpc'[id] # "none"
  BY <1>2 DEF Supplied, GoOn
<1>8. out[id] # NULL => /\ dpc'[id] = "ended" /\ Len(Rest(id)') < Length(id)'
                        /\ \A i \in 1 .. Len(Rest(id)') : Rest(id)'[i] = Whole(id)'[Starts(id)' - 1 + i]
  BY <1>2, <1>3, <1>4, <1>5 DEF Supplied, GoOn
<1> QED
  BY <1>4, <1>6, <1>7, <1>8 DEF Supplied, Reporting

LEMMA SuppliesStay ==
    ASSUME RelayAssumption, Supplies, Growing, GoOn, UNCHANGED <<stream, out>>
    PROVE  /\ Supplies'
           /\ \A id \in Item : stream[id] # NULL => stream'[id] # NULL /\ Starts(id)' = Starts(id)
<1>1. \A id \in Item : Supplied(id)' /\ (stream[id] # NULL => Starts(id)' = Starts(id))
  BY SuppliedSame DEF Supplies
<1>2. SupplyTypes' /\ ToldOnce'
  BY DEF Supplies, SupplyTypes, GoOn
<1> QED
  BY <1>1, <1>2 DEF Supplies

\* So a step keeps the invariant that leaves all that is sent alone.
LEMMA CalmStep ==
    ASSUME RelayAssumption, OrderInv, IInv', Threads', GoOn, Waiting, Growing,
           UNCHANGED <<stream, out, wire, holding, send_q, crossed, connected, refused>>
    PROVE  OrderInv'
<1>1. /\ Supplies'
      /\ \A id \in Item : stream[id] # NULL => stream'[id] # NULL /\ Starts(id)' = Starts(id)
  BY SuppliesStay DEF OrderInv
<1>2. refused' \subseteq Item
  BY DEF OrderInv, Order, SentTypes
<1>3. Order'
  BY <1>1, <1>2, OrderStays DEF OrderInv
<1> QED
  BY <1>1, <1>3 DEF OrderInv

\* Nothing happens to the deputies and their todos.
LEMMA GoOnSame ==
    ASSUME Supplies, UNCHANGED <<dpc, todos>>
    PROVE  GoOn
  BY DEF Supplies, GoOn, ToldOnce, Reporting

LEMMA GrowingSame ==
    ASSUME UNCHANGED <<size_of, refused>>
    PROVE  Growing
  BY DEF Growing

\* A thread begins net_idle.
LEMMA ThreadsBegin ==
    ASSUME Threads, NEW t \in Thread, idle[t] = "no", IdleBegins(t), UNCHANGED holding,
           (t # Main /\ mpc' = mpc) \/ (t = Main /\ mpc' \in {"idle", "text"})
    PROVE  Threads'
<1>1. PICK x \in {"prune", "send"} : idle' = [idle EXCEPT ![t] = x]
  BY DEF IdleBegins, IdleAt
<1>2. Main \in Thread
  BY DEF Thread
<1> QED
  BY <1>1, <1>2 DEF Threads

\* The steps of the main thread outside of net_idle, and of others.
LEMMA ThreadsSame ==
    ASSUME Threads, UNCHANGED <<idle, holding>>, mpc' = mpc \/ mpc \notin {"idle", "text"}
    PROVE  Threads'
  BY DEF Threads

\* Sources, the poll entries and the loops.
LEMMA CalmMoves ==
    ASSUME RelayAssumption, OrderInv, IInv',
           \/ UNCHANGED vars
           \/ PollNothing \/ PollSome \/ Negate \/ TodosDone \/ TextWait \/ TextGone \/ Race
           \/ (\E f \in Source : RecvItem(f)) \/ \E f \in Source \cup {target} : RecvNothing(f)
           \/ \E s \in Source : PeerSends(s) \/ PeerCloses(s)
           \/ \E t \in Thread : Prune(t) \/ IdleDone(t)
           \/ \E id \in Item : DeputyWait(id) \/ DeputyGone(id)
    PROVE  OrderInv'
<1>1. /\ UNCHANGED <<size_of, refused, stream, out, wire, holding, send_q, crossed, connected>>
      /\ UNCHANGED dpc
  BY DEF vars, source, sent, queued, deputy, PollNothing, PollSome, Negate, TodosDone, TextWait,
         TextGone, Race, RecvItem, RecvNothing, PeerSends, PeerCloses, Prune, IdleDone, DeputyWait,
         DeputyGone, MainAt, Aside, Calm, Idling, DeputyAt
<1>2. UNCHANGED todos
  BY DEF vars, PollNothing, PollSome, Negate, TodosDone, TextWait, TextGone, Race, RecvItem,
         RecvNothing, PeerSends, PeerCloses, Prune, IdleDone, DeputyWait, DeputyGone, Calm, Idling
<1>3. Waiting
  <2>1. UNCHANGED <<mpc, curr>> \/ mpc \notin {"text", "file"}
    BY DEF vars, main, PollNothing, PollSome, Negate, TodosDone, TextWait, TextGone, Race, RecvItem,
           RecvNothing, PeerSends, PeerCloses, Prune, IdleDone, DeputyWait, DeputyGone, MainAt,
           Idling, DeputyAt, Calm
  <2>2. mpc' = mpc \/ mpc' \notin {"text", "file"}
    BY DEF vars, main, PollNothing, PollSome, Negate, TodosDone, TextWait, TextGone, Race, RecvItem,
           RecvNothing, PeerSends, PeerCloses, Prune, IdleDone, DeputyWait, DeputyGone, MainAt,
           Idling, DeputyAt, Calm, Goto
  <2> QED
    BY <2>1, <2>2 DEF Waiting
<1>4. Threads'
  <2>1. Threads /\ Main \in Thread /\ Item \subseteq Thread /\ \A id \in Item : id # Main
    <3>1. \A id \in Item : id # Main
      BY Items DEF Main
    <3> QED
      BY <3>1 DEF OrderInv, Thread
  <2>2. CASE PollNothing
    <3>1. CASE IdleBegins(Main) /\ Goto("idle")
      <4>1. idle[Main] = "no"
        BY <2>1, <2>2 DEF Threads, PollNothing, MainAt
      <4> QED
        BY <1>1, <2>1, <3>1, <4>1, ThreadsBegin DEF Goto
    <3>2. CASE UNCHANGED idle
      BY <1>1, <2>1, <2>2, <3>2, ThreadsSame DEF PollNothing, MainAt
    <3> QED
      BY <2>2, <3>1, <3>2 DEF PollNothing
  <2>3. CASE PollSome \/ Negate \/ TodosDone \/ TextGone \/ Race
             \/ (\E f \in Source : RecvItem(f)) \/ \E f \in Source \cup {target} : RecvNothing(f)
    <3>1. UNCHANGED idle /\ (mpc' = mpc \/ mpc \notin {"idle", "text"})
      BY <2>3 DEF PollSome, Negate, TodosDone, TextGone, Race, RecvItem, RecvNothing, MainAt, Calm,
                  main
    <3> QED
      BY <1>1, <2>1, <3>1, ThreadsSame
  <2>4. CASE UNCHANGED vars \/ (\E s \in Source : PeerSends(s) \/ PeerCloses(s))
             \/ \E id \in Item : DeputyGone(id)
    <3>1. UNCHANGED idle /\ mpc' = mpc
      BY <2>4 DEF vars, PeerSends, PeerCloses, DeputyGone, DeputyAt, main
    <3> QED
      BY <1>1, <2>1, <3>1, ThreadsSame
  <2>5. CASE TextWait
    <3>1. idle[Main] = "no" /\ IdleBegins(Main) /\ mpc' = "text"
      BY <2>5 DEF TextWait, MainAt, main
    <3> QED
      BY <1>1, <2>1, <3>1, ThreadsBegin
  <2>6. ASSUME NEW id \in Item, DeputyWait(id)
        PROVE  Threads'
    <3>1. idle[id] = "no" /\ IdleBegins(id) /\ mpc' = mpc
      BY <2>6 DEF DeputyWait, DeputyAt, main
    <3> QED
      BY <1>1, <2>1, <3>1, ThreadsBegin
  <2>7. ASSUME NEW t \in Thread, Prune(t) \/ IdleDone(t)
        PROVE  Threads'
    <3>1. /\ idle[t] \in {"prune", "send"}
          /\ \E x \in {"send", "no"} : idle' = [idle EXCEPT ![t] = x] /\ (x # "no" => mpc' = mpc)
          /\ mpc' = mpc \/ (t = Main /\ idle'[Main] = "no")
      BY <2>1, <2>7 DEF Prune, IdleDone, Idling, IdleAt, main, Threads
    <3> QED
      BY <1>1, <2>1, <3>1 DEF Threads
  <2> QED
    BY <2>2, <2>3, <2>4, <2>5, <2>6, <2>7
<1>5. GoOn
  BY <1>1, <1>2, GoOnSame DEF OrderInv
<1>6. Growing
  BY <1>1, GrowingSame
<1> QED
  BY <1>1, <1>3, <1>4, <1>5, <1>6, CalmStep

\* What do_todos takes is told no more.
LEMMA TodoTold ==
    ASSUME Types, Supplies, todos # << >>, todos' = Tail(todos), UNCHANGED dpc
    PROVE  /\ GoOn /\ Head(todos) \in {"resume", "callback"} \X Item
           /\ \A id : Reporting(id)' => Reporting(id)
           /\ \A id : Head(todos) = <<"callback", id>> => Reporting(id) /\ ~Reporting(id)'
<1>1. /\ Head(todos) \in {"resume", "callback"} \X Item
      /\ \A x : Contains(todos, x) <=> x = Head(todos) \/ Contains(todos, x)'
      /\ \A i \in 1 .. Len(todos') : i + 1 \in 2 .. Len(todos) /\ todos'[i] = todos[i + 1]
  BY TodoOf
<1>2. Len(todos) \in Nat /\ Len(todos) > 0 /\ Head(todos) = todos[1] /\ Len(todos') \in Nat
  <2>1. todos \in Seq({"resume", "callback"} \X Item)
    BY DEF Types, ServerTypes
  <2> QED
    BY <2>1, TailOf
<1>3. ASSUME NEW i \in 1 .. Len(todos')
      PROVE  i + 1 \in 1 .. Len(todos) /\ i + 1 # 1 /\ i \in Nat /\ todos'[i] = todos[i + 1]
  <2>1. i + 1 \in 2 .. Len(todos) /\ todos'[i] = todos[i + 1]
    BY <1>1
  <2> QED
    BY <1>2, <2>1
<1>4. ToldOnce'
  <2>1. ASSUME NEW i \in 1 .. Len(todos'), NEW j \in 1 .. Len(todos'),
               todos'[i] = todos'[j], Type(todos'[i]) = "callback"
        PROVE  i = j
    <3>1. i + 1 = j + 1
      BY <1>3, <2>1 DEF Supplies, ToldOnce
    <3> QED
      BY <1>3, <3>1
  <2> QED
    BY <2>1 DEF ToldOnce
<1>5. \A id : Reporting(id)' => Reporting(id)
  BY <1>1 DEF Reporting
<1>6. ASSUME NEW id, Head(todos) = <<"callback", id>>
      PROVE  Reporting(id) /\ ~Reporting(id)'
  <2>1. Reporting(id)
    BY <1>1, <1>6 DEF Reporting
  <2>2. ASSUME Reporting(id)'
        PROVE  FALSE
    <3>1. PICK i \in 1 .. Len(todos') : todos'[i] = <<"callback", id>>
      BY <2>2 DEF Reporting, Contains
    <3>2. todos[i + 1] = todos[1] /\ 1 \in 1 .. Len(todos) /\ Type(todos[1]) = "callback"
      BY <1>2, <1>3, <1>6, <3>1 DEF Type
    <3> QED
      BY <1>3, <3>2 DEF Supplies, ToldOnce
  <2> QED
    BY <2>1, <2>2
<1> QED
  BY <1>1, <1>4, <1>5, <1>6 DEF GoOn

\* A deputy goes on to the next message, its end or its todos.
LEMMA DeputyGoesOn ==
    ASSUME RelayAssumption, OrderInv, NEW id \in Item, DeputyGet(id) \/ AddTodo(id)
    PROVE  GoOn
<1>1. /\ dpc \in [Item -> {"none", "header", "chunk", "resume", "callback", "ended"}]
      /\ Types /\ Supplies
  BY DEF OrderInv, IInv, Types, ServerTypes
<1>2. CASE DeputyGet(id)
  <2>1. dpc[id] \in {"header", "chunk"} /\ todos' = todos
    BY <1>2 DEF DeputyGet, DeputyAt, Getting
  <2>2. dpc' = dpc \/ \E pc \in {"resume", "chunk"} : dpc' = [dpc EXCEPT ![id] = pc]
    BY <1>2 DEF DeputyGet, deputy
  <2>3. \A jd \in Item : Reporting(jd)' => Reporting(jd)
    BY <2>1 DEF Reporting
  <2>4. ToldOnce'
    BY <1>1, <2>1 DEF Supplies, ToldOnce
  <2> QED
    BY <1>1, <2>1, <2>2, <2>3, <2>4 DEF GoOn
<1>3. CASE AddTodo(id)
  <2> DEFINE e == <<dpc[id], id>>
  <2>1. dpc[id] \in {"resume", "callback"} /\ todos' = Append(todos, e) /\ dpc' = [dpc EXCEPT ![id] = Then(@)]
    BY <1>3 DEF AddTodo, DeputyAt
  <2>2. e \in {"resume", "callback"} \X Item
    BY <2>1
  <2>3. /\ \A x : Contains(todos, x)' <=> x = e \/ Contains(todos, x)
        /\ Len(todos) \in Nat /\ Len(todos') = Len(todos) + 1 /\ todos'[Len(todos) + 1] = e
        /\ \A i \in 1 .. Len(todos) : todos'[i] = todos[i]
    <3> HIDE DEF e
    <3> QED
      BY <1>1, <2>1, <2>2, AddTodoOf
  <2>4. /\ \A jd \in Item : jd # id => dpc'[jd] = dpc[jd]
        /\ dpc[id] = "callback" => dpc'[id] = "ended"
        /\ dpc[id] # "ended" /\ dpc'[id] # "none"
    BY <1>1, <2>1 DEF Then
  <2>5. ASSUME NEW jd \in Item, Reporting(jd)'
        PROVE  Reporting(jd) \/ (dpc[jd] = "callback" /\ dpc'[jd] = "ended")
    BY <2>3, <2>4, <2>5 DEF Reporting
  <2>6. ASSUME dpc[id] = "callback"
        PROVE  ~Reporting(id)
    BY <1>1, <2>6 DEF Supplies, Supplied, Reporting
  <2>7. ASSUME NEW i \in 1 .. Len(todos), todos[i] = e, Type(e) = "callback"
        PROVE  FALSE
    <3>1. dpc[id] = "callback"
      BY <2>7 DEF Type
    <3>2. Reporting(id)
      BY <2>7, <3>1 DEF Reporting, Contains
    <3> QED
      BY <2>6, <3>1, <3>2
  <2>8. ToldOnce'
    <3>1. ASSUME NEW i \in 1 .. Len(todos'), NEW j \in 1 .. Len(todos'),
                 todos'[i] = todos'[j], Type(todos'[i]) = "callback"
          PROVE  i = j
      <4>1. (i \in 1 .. Len(todos) \/ i = Len(todos) + 1) /\ (j \in 1 .. Len(todos) \/ j = Len(todos) + 1)
        BY <2>3
      <4> HIDE DEF e
      <4>2. CASE i \in 1 .. Len(todos) /\ j \in 1 .. Len(todos)
        BY <1>1, <2>3, <3>1, <4>2 DEF Supplies, ToldOnce
      <4>3. CASE i \in 1 .. Len(todos) /\ j = Len(todos) + 1
        BY <2>3, <2>7, <3>1, <4>3
      <4>4. CASE i = Len(todos) + 1 /\ j \in 1 .. Len(todos)
        BY <2>3, <2>7, <3>1, <4>4
      <4> QED
        BY <4>1, <4>2, <4>3, <4>4
    <3> QED
      BY <3>1 DEF ToldOnce
  <2> QED
    BY <2>4, <2>5, <2>8 DEF GoOn
<1> QED
  BY <1>2, <1>3

\* Sources send their items, deputies get their files and report them.
LEMMA CalmTakes ==
    ASSUME RelayAssumption, OrderInv, IInv',
           \/ \E id \in Item : DeputyGet(id) \/ AddTodo(id)
           \/ Finisher
           \/ OnFinished /\ stream[Of(Head(todos))] = NULL
           \/ \E s \in Source : \E z \in Sizes[s] : PeerItem(s, z)
    PROVE  OrderInv'
<1>1. UNCHANGED <<refused, stream, wire, holding, send_q, crossed, connected, idle, mpc, curr>>
  BY DEF DeputyGet, AddTodo, DeputyAt, Finisher, OnFinished, Todo, MainAt, Aside, PeerItem, sent,
         queued, main
<1>2. out' = out
  BY DEF DeputyGet, AddTodo, DeputyAt, Finisher, OnFinished, Todo, MainAt, Aside, PeerItem
<1>3. Threads'
  BY <1>1, ThreadsSame DEF OrderInv
<1>4. Growing
  <2>1. CASE \E s \in Source : \E z \in Sizes[s] : PeerItem(s, z)
    <3>1. PICK id \in Item : \E z : size_of[id] = NULL /\ size_of' = [size_of EXCEPT ![id] = z]
      BY <2>1 DEF PeerItem
    <3>2. size_of \in [Item -> Nat \cup {Text, NULL}]
      BY DEF OrderInv, IInv, Types, PeerTypes
    <3> QED
      BY <1>1, <3>1, <3>2 DEF Growing
  <2>2. CASE UNCHANGED size_of
    BY <1>1, <2>2, GrowingSame
  <2>3. UNCHANGED size_of \/ \E s \in Source : \E z \in Sizes[s] : PeerItem(s, z)
    BY DEF DeputyGet, AddTodo, DeputyAt, Finisher, OnFinished, Todo, MainAt
  <2> QED
    BY <2>1, <2>2, <2>3
<1>5. GoOn
  <2>1. CASE \E id \in Item : DeputyGet(id) \/ AddTodo(id)
    BY <2>1, DeputyGoesOn
  <2>2. CASE Finisher \/ OnFinished
    <3>1. todos # << >> /\ todos' = Tail(todos) /\ UNCHANGED dpc
      BY <2>2 DEF Finisher, OnFinished, Todo, Aside, deputy
    <3> QED
      BY <3>1, TodoTold DEF OrderInv, IInv
  <2>3. CASE \E s \in Source : \E z \in Sizes[s] : PeerItem(s, z)
    <3>1. UNCHANGED <<dpc, todos>>
      BY <2>3 DEF PeerItem, deputy
    <3> QED
      BY <3>1, GoOnSame DEF OrderInv
  <2> QED
    BY <2>1, <2>2, <2>3
<1>6. Waiting
  BY <1>1 DEF Waiting
<1> QED
  BY <1>1, <1>2, <1>3, <1>4, <1>5, <1>6, CalmStep

-----------------------------------------------------------------------------
(***************************************************************************)
(* What the sending threads do to the streams                              *)
(***************************************************************************)
\* A step that puts what belongs into a stream, and sends nothing.
LEMMA PutStep ==
    ASSUME RelayAssumption, OrderInv, IInv', GoOn,
           UNCHANGED <<size_of, refused, wire, holding, send_q, crossed, connected, idle, mpc, curr>>,
           NEW id \in Item, stream[id] # NULL, stream'[id] # NULL, SupplyTypes',
           \A jd \in Item : jd # id => stream'[jd] = stream[jd] /\ out'[jd] = out[jd],
           Supplied(id)', Starts(id)' = Starts(id)
    PROVE  OrderInv'
<1>1. Growing
  BY GrowingSame
<1>2. ASSUME NEW jd \in Item
      PROVE  /\ Supplied(jd)'
             /\ stream[jd] # NULL => stream'[jd] # NULL /\ Starts(jd)' = Starts(jd)
  <2>1. CASE jd = id
    BY <2>1
  <2>2. CASE jd # id
    <3>1. Supplied(jd)
      BY DEF OrderInv, Supplies
    <3> QED
      BY <1>1, <2>2, <3>1, SuppliedSame
  <2> QED
    BY <2>1, <2>2
<1>3. Supplies'
  BY <1>2 DEF Supplies, GoOn
<1>4. Threads'
  BY ThreadsSame DEF OrderInv
<1>5. refused' \subseteq Item
  BY DEF OrderInv, Order, SentTypes
<1>6. Order'
  BY <1>1, <1>2, <1>5, OrderStays DEF OrderInv, Waiting
<1> QED
  BY <1>3, <1>4, <1>6 DEF OrderInv

\* The file of a deputy that has reported.
LEMMA FileOf ==
    ASSUME RelayAssumption, IInv, NEW id \in Item, dpc[id] \in Over
    PROVE  size_of[id] \in Nat /\ file[id] = Bytes(size_of[id])
<1>1. id[1] \in Source
  BY Items
<1>2. PICK n \in 0 .. MaxItems[id[1]], at \in Seq(Nat \X Nat) : SourceAt(id[1], n, at)
  BY <1>1 DEF IInv, InStep
<1> QED
  BY <1>2 DEF SourceAt, Stage, DeputyStage, Over

\* What follows an item is its content.
LEMMA ContentOf ==
    ASSUME RelayAssumption, NEW id \in Item
    PROVE  /\ Whole(id) \in Seq(Message) /\ Content(id) \in Seq(Message)
           /\ Len(Whole(id)) = 1 + Len(Content(id))
           /\ \A i \in 1 .. Len(Content(id)) : Whole(id)[i + 1] = Content(id)[i]
<1>1. PICK z, w : z = size_of[id] /\ w = Whole(id)
  OBVIOUS
<1>2. w = <<ItemMsg(id)>> \o Content_of(id, z)
  BY <1>1, WholeIs
<1>3. /\ w \in Seq(Message) /\ Content_of(id, z) \in Seq(Message)
      /\ Len(w) = 1 + Len(Content_of(id, z))
  BY <1>2, WholeOf, ZenonT(30)
<1>5. ASSUME NEW i \in 1 .. Len(Content_of(id, z))
      PROVE  w[i + 1] = Content_of(id, z)[i]
  <2>1. PICK c \in Seq(Message), h \in Seq(Message) : c = Content_of(id, z) /\ h = <<ItemMsg(id)>>
    <3>1. <<ItemMsg(id)>> \in Seq(Message)
      BY MessageOf
    <3> QED
      BY <1>3, <3>1
  <2>2. Len(h) = 1 /\ w = h \o c /\ i \in 1 .. Len(c)
    BY <1>2, <2>1
  <2>3. \A j \in 1 .. Len(c) : (h \o c)[Len(h) + j] = c[j]
    BY ConcatOf
  <2>4. Len(h) + i = i + 1
    BY <2>2
  <2> QED
    BY <2>1, <2>2, <2>3, <2>4
<1>4. Content(id) = Content_of(id, z)
  BY <1>1 DEF Content, Content_of
<1> QED
  BY <1>1, <1>3, <1>4, <1>5

\* on_finished starts a thread for the file, and what it will put is the item's content.
LEMMA StepOnFinished ==
    ASSUME RelayAssumption, NullAssumption, OrderInv, IInv', OnFinished
    PROVE  OrderInv'
<1>1. /\ todos # << >> /\ todos' = Tail(todos) /\ Type(Head(todos)) = "callback"
      /\ UNCHANGED <<size_of, refused, wire, holding, send_q, crossed, connected, idle, mpc, curr,
                     dpc, stream>>
  BY DEF OnFinished, Todo, MainAt, deputy, sent, queued
<1>2. /\ GoOn /\ Head(todos) \in {"resume", "callback"} \X Item
      /\ \A jd : Head(todos) = <<"callback", jd>> => Reporting(jd) /\ ~Reporting(jd)'
  BY <1>1, TodoTold DEF OrderInv, IInv
<1>3. PICK id \in Item : id = Of(Head(todos)) /\ Head(todos) = <<"callback", id>>
  BY <1>1, <1>2 DEF Of, Type
<1>4. CASE stream[id] = NULL
  BY <1>3, <1>4, CalmTakes
<1>5. CASE stream[id] # NULL
  <2>1. /\ SupplyTypes /\ Supplied(id) /\ Reporting(id) /\ ~Reporting(id)'
    BY <1>2, <1>3 DEF OrderInv, Supplies
  <2>2. dpc[id] = "ended" /\ out[id] = NULL /\ stream[id].msgs = << >> /\ ~stream[id].off
    BY <1>5, <2>1 DEF Supplied, Reporting
  <2>3. PICK z \in Nat : z = size_of[id] /\ file[id] = Bytes(z)
    BY <1>3, <2>2, FileOf DEF OrderInv, Over
  <2>4. PICK w, b : w = Whole(id) /\ b = Content(id) /\ b = Pieces(id, file[id])
    BY <2>3 DEF Content
  <2>5. /\ b \in Seq(Message) /\ Len(w) = 1 + Len(b) /\ Len(w) \in Nat
        /\ \A i \in 1 .. Len(b) : w[i + 1] = b[i]
    <3>1. /\ w \in Seq(Message) /\ b \in Seq(Message) /\ Len(w) = 1 + Len(b)
          /\ \A i \in 1 .. Len(b) : w[i + 1] = b[i]
      BY <1>3, <2>4, ContentOf
    <3> QED
      BY <3>1
  <2>6. out' = [out EXCEPT ![id] = b] /\ out \in [Item -> {NULL} \cup Seq(Message)]
    BY <1>3, <1>5, <2>1, <2>4 DEF OnFinished, SupplyTypes
  <2>7. out'[id] = b /\ SupplyTypes' /\ b # NULL
    <3>1. b # NULL
      BY <2>5 DEF NullAssumption
    <3> QED
      BY <1>1, <1>3, <2>1, <2>5, <2>6, <3>1 DEF SupplyTypes
  <2>8. Rest(id)' = b
    BY <1>1, <2>2, <2>5, <2>7 DEF Rest
  <2>9. Whole(id)' = w /\ Length(id)' = Len(w) /\ Length(id) = Len(w)
    BY <1>1, <2>4, WholeSame DEF Length
  <2>10. Starts(id)' = 2 /\ Starts(id) = 2
    <3>1. Len(w) + 1 - Len(b) = 2
      BY <2>5
    <3> QED
      BY <2>2, <2>7, <2>8, <2>9, <3>1 DEF Starts
  <2>11. Supplied(id)'
    <3>1. Len(Rest(id)') < Length(id)'
      BY <2>5, <2>8, <2>9
    <3>2. ASSUME NEW i \in 1 .. Len(Rest(id)')
          PROVE  Rest(id)'[i] = Whole(id)'[Starts(id)' - 1 + i]
      <4>1. 2 - 1 + i = i + 1
        BY <2>5, <2>8
      <4> QED
        BY <2>5, <2>8, <2>9, <2>10, <4>1
    <3> QED
      BY <1>1, <1>5, <2>1, <2>2, <2>3, <2>7, <3>1, <3>2 DEF Supplied, Reporting
  <2>12. \A jd \in Item : jd # id => stream'[jd] = stream[jd] /\ out'[jd] = out[jd]
    BY <1>1, <2>6
  <2> QED
    BY <1>1, <1>2, <1>3, <1>5, <2>7, <2>10, <2>11, <2>12, PutStep
<1> QED
  BY <1>4, <1>5

\* send_file_thread moves a message from what it has to put into the stream, or closes it.
LEMMA StepSender ==
    ASSUME RelayAssumption, NullAssumption, OrderInv, IInv', NEW id \in Item, Sender(id)
    PROVE  OrderInv'
<1>1. /\ out[id] # NULL
      /\ UNCHANGED <<size_of, refused, wire, holding, send_q, crossed, connected, idle, mpc, curr,
                     dpc, todos>>
  <2>1. << >> # NULL
    <3>1. << >> \in Seq(Message)
      OBVIOUS
    <3> QED
      BY <3>1 DEF NullAssumption
  <2> QED
    BY <2>1 DEF Sender, SenderPut, SenderClose, source, main, deputy, sent
<1>2. /\ SupplyTypes /\ Supplied(id) /\ GoOn
  BY <1>1, GoOnSame DEF OrderInv, Supplies
<1>3. stream[id] # NULL /\ dpc[id] = "ended" /\ ~Reporting(id)
  BY <1>1, <1>2 DEF Supplied, Reporting
<1>4. PICK a \in Seq(Message), o \in BOOLEAN, b \in Seq(Message) :
          stream[id] = [msgs |-> a, off |-> o] /\ out[id] = b /\ Rest(id) = a \o b
  <2>1. stream[id] \in [msgs : Seq(Message), off : BOOLEAN] /\ out[id] \in Seq(Message)
    BY <1>1, <1>2, <1>3 DEF SupplyTypes
  <2> QED
    BY <2>1 DEF Rest
<1>5. \E d \in Seq(Message), p \in BOOLEAN, e \in Seq(Message) :
          /\ stream' = [stream EXCEPT ![id] = [msgs |-> d, off |-> p]]
          /\ out' = [out EXCEPT ![id] = e]
          /\ d \o e = a \o b /\ (p => e = << >>)
  <2>1. CASE SenderPut(id)
    <3>1. /\ b # << >>
          /\ stream' = [stream EXCEPT ![id].msgs = Append(@, Head(b))]
          /\ out' = [out EXCEPT ![id] = Tail(b)]
      BY <1>4, <2>1 DEF SenderPut
    <3>2. PICK x \in Message, t \in Seq(Message) : x = Head(b) /\ t = Tail(b) /\ b = <<x>> \o t
      <4>1. Head(b) \in Message /\ Tail(b) \in Seq(Message)
        BY <3>1, TailOf
      <4>2. b = <<Head(b)>> \o Tail(b)
        BY <3>1
      <4> QED
        BY <4>1, <4>2
    <3>3. Append(a, x) \in Seq(Message) /\ Append(a, x) \o t = a \o b
      <4>1. Append(a, x) \o t = a \o (<<x>> \o t)
        BY AppendConcat
      <4> QED
        BY <3>2, <4>1, AppendOf
    <3>4. o = FALSE
      BY <1>2, <1>3, <1>4, <3>1 DEF Supplied
    <3>5. stream' = [stream EXCEPT ![id] = [msgs |-> Append(a, x), off |-> o]]
      <4>1. [stream[id] EXCEPT !.msgs = Append(@, x)] = [msgs |-> Append(a, x), off |-> o]
        <5>1. \A m : [[msgs |-> a, off |-> o] EXCEPT !.msgs = m] = [msgs |-> m, off |-> o]
          OBVIOUS
        <5>2. stream[id].msgs = a
          BY <1>4
        <5>3. Append(stream[id].msgs, x) = Append(a, x)
          BY <5>2
        <5> QED
          BY <1>4, <5>1, <5>3
      <4> QED
        BY <3>1, <3>2, <4>1
    <3> QED
      BY <3>1, <3>2, <3>3, <3>4, <3>5
  <2>2. CASE SenderClose(id)
    <3>1. b = << >> /\ stream' = [stream EXCEPT ![id].off = TRUE] /\ out' = out
      BY <1>4, <2>2 DEF SenderClose
    <3>2. stream' = [stream EXCEPT ![id] = [msgs |-> a, off |-> TRUE]]
      <4>1. [stream[id] EXCEPT !.off = TRUE] = [msgs |-> a, off |-> TRUE]
        <5>1. \A v : [[msgs |-> a, off |-> o] EXCEPT !.off = v] = [msgs |-> a, off |-> v]
          OBVIOUS
        <5> QED
          BY <1>4, <5>1
      <4> QED
        BY <3>1, <4>1
    <3>3. out' = [out EXCEPT ![id] = b]
      BY <1>2, <1>4, <3>1 DEF SupplyTypes
    <3> QED
      BY <3>1, <3>2, <3>3
  <2> QED
    BY <2>1, <2>2 DEF Sender
<1>6. PICK d \in Seq(Message), p \in BOOLEAN, e \in Seq(Message) :
          /\ stream' = [stream EXCEPT ![id] = [msgs |-> d, off |-> p]]
          /\ out' = [out EXCEPT ![id] = e]
          /\ d \o e = a \o b /\ (p => e = << >>)
  BY <1>5
<1>7. /\ stream'[id] = [msgs |-> d, off |-> p] /\ out'[id] = e /\ SupplyTypes'
      /\ \A jd \in Item : jd # id => stream'[jd] = stream[jd] /\ out'[jd] = out[jd]
  BY <1>2, <1>6 DEF SupplyTypes
<1>8. stream'[id] # NULL /\ e # NULL
  BY <1>7 DEF NullAssumption
<1>9. Rest(id)' = Rest(id)
  <2>1. stream'[id].msgs = d
    BY <1>7
  <2> QED
    BY <1>4, <1>6, <1>7, <2>1 DEF Rest
<1>10. Whole(id)' = Whole(id) /\ Length(id)' = Length(id)
  BY <1>1, WholeSame DEF Length
<1>11. Starts(id)' = Starts(id)
  BY <1>1, <1>7, <1>8, <1>9, <1>10 DEF Starts
<1>12. Supplied(id)'
  <2>1. ~Reporting(id)'
    BY <1>1, <1>3 DEF Reporting
  <2>2. stream'[id].off = p
    BY <1>7
  <2>3. size_of'[id] \in Nat /\ dpc'[id] = "ended"
    BY <1>1, <1>2, <1>3 DEF Supplied
  <2>4. /\ Len(Rest(id)') < Length(id)'
        /\ \A i \in 1 .. Len(Rest(id)') : Rest(id)'[i] = Whole(id)'[Starts(id)' - 1 + i]
    BY <1>1, <1>2, <1>9, <1>10, <1>11 DEF Supplied
  <2> QED
    BY <1>6, <1>7, <1>8, <2>1, <2>2, <2>3, <2>4 DEF Supplied, Reporting
<1> QED
  BY <1>1, <1>2, <1>3, <1>7, <1>8, <1>11, <1>12, PutStep

-----------------------------------------------------------------------------
(***************************************************************************)
(* What send_msg does                                                      *)
(***************************************************************************)
\* The place of an item's first message, or its text, as an entry and as a message.
LEMMA EntryPlace ==
    ASSUME RelayAssumption, NEW m \in {"item", "text"} \X Item,
           Type(m) = "text" => size_of[Of(m)] = Text
    PROVE  /\ m \in Message /\ Of(m) \in Item /\ ~Stream(m)
           /\ Place(m) = First(m) /\ Place(m) \in 1 .. Length(Of(m)) /\ Pos(m) = EndOf(m)
<1>1. PICK id \in Item : Of(m) = id /\ Type(m) \in {"item", "text"} /\ m = <<Type(m), id>>
  BY DEF Of, Type
<1>2. m \in Message /\ ~Stream(m)
  BY <1>1 DEF Message, Stream
<1>3. Length(id) \in Nat /\ Length(id) >= 2 /\ Whole(id)[1] = ItemMsg(id)
  BY ItemIs DEF Length
<1>4. CASE Type(m) = "item"
  <2>1. Whole(id)[1] = m /\ 1 \in 1 .. Length(id)
    BY <1>1, <1>3, <1>4 DEF ItemMsg
  <2>2. Place(m) = 1
    BY <2>1, PlaceOf
  <2> QED
    BY <1>1, <1>2, <1>4, <2>1, <2>2 DEF First, EndOf, Pos
<1>5. CASE Type(m) = "text"
  <2>1. size_of[id] \notin Nat
    BY <1>1, <1>5 DEF RelayAssumption
  <2>2. IsText(id, Whole(id))
    BY <2>1, ItemIs
  <2>3. Whole(id)[2] = m /\ Length(id) = 2
    BY <1>1, <1>5, <2>2 DEF IsText, TextMsg, Length
  <2>4. 2 \in 1 .. Length(id)
    BY <2>3
  <2>5. Place(m) = 2
    BY <2>3, <2>4, PlaceOf
  <2> QED
    BY <1>1, <1>2, <1>5, <2>3, <2>4, <2>5 DEF First, EndOf, Pos
<1> QED
  BY <1>1, <1>4, <1>5

\* Nothing has gone to a target that has never been connected, and nothing is on the way.
LEMMA OrderOfNothing ==
    ASSUME Growing, refused' \subseteq Item, crossed' \in BOOLEAN, connected' \in BOOLEAN,
           wire' = << >>, send_q' = << >>, Nobody', Awaits(<< >>)',
           holding' \in [Thread -> Message \cup {NULL}]
    PROVE  Order'
<1> DEFINE e == << >>
<1>1. Len(e) = 0 /\ e \in Seq(Message) /\ e \in Seq({"item", "text", "stream"} \X Item)
  OBVIOUS
<1>2. Known(e) /\ OneByOne(e) /\ End(e) = << >>
  BY <1>1 DEF Known, OneByOne, End, Before
<1>3. Held(e) /\ Opened(e)' /\ Links(e, << >>) /\ Final(e, << >>) = << >>
  BY <1>1 DEF Held, Opened, Links, Final, Prior
<1>4. \A i \in 1 .. Len(e) : Stream(e[i]) => Starts(Of(e[i]))' = Starts(Of(e[i]))
  BY <1>1
<1> HIDE DEF e
<1>5. wire' = e /\ send_q' = e /\ Unconnected' /\ Taken(e)'
  BY DEF e, Unconnected, Taken
<1>6. \A t \in Thread : holding'[t] # NULL => size_of[Of(holding'[t])] # NULL
  BY DEF Nobody
<1>7. \E f, c, d : /\ Taken(f)' /\ Known(f) /\ OneByOne(f) /\ c = End(f)
                   /\ Links(e, c) /\ d = Final(e, c) /\ Awaits(d)'
  BY <1>2, <1>3, <1>5
<1> QED
  BY <1>2, <1>3, <1>4, <1>5, <1>6, <1>7, OrderFrom

\* send_msg puts what the main thread has behind what it has put before, or sends it when
\* there is nothing before it.
LEMMA SendStep ==
    ASSUME RelayAssumption, NullAssumption, OrderInv, IInv', GoOn,
           UNCHANGED <<size_of, out, holding, idle>>, mpc \in {"item", "text"}, idle[Main] = "no",
           NEW m \in {"item", "text"} \X Item, size_of[Of(m)] # NULL,
           Type(m) = "text" => size_of[Of(m)] = Text,
           \A c : Awaits(c) => Follows(c, Of(m), First(m)),
           Threads', SendMsg(m) \/ SendMsgFails(m),
           SendMsgFails(m) => Awaits(<< >>)', NEW d, d = EndOf(m), SendMsg(m) => Awaits(d)'
    PROVE  OrderInv'
<1>1. /\ Known(wire) /\ Held(send_q) /\ Opened(send_q) /\ Flow /\ Unconnected /\ SentTypes
      /\ Supplies /\ Threads
  BY DEF OrderInv, Order, SentTypes
<1>2. /\ m \in Message /\ Of(m) \in Item /\ ~Stream(m)
      /\ Place(m) = First(m) /\ Place(m) \in 1 .. Length(Of(m)) /\ Pos(m) = d
  BY EntryPlace
<1>3. UNCHANGED stream /\ refused' \subseteq Item /\ refused \subseteq refused'
  BY <1>1, <1>2 DEF SendMsg, SendMsgFails, queued, SentTypes
<1>4. Growing
  BY <1>3 DEF Growing
<1>5. /\ Supplies'
      /\ \A id \in Item : stream[id] # NULL => stream'[id] # NULL /\ Starts(id)' = Starts(id)
  BY <1>1, <1>3, <1>4, SuppliesStay
<1>6. /\ holding' \in [Thread -> Message \cup {NULL}]
      /\ \A t \in Thread : holding'[t] # NULL => size_of[Of(holding'[t])] # NULL
  BY <1>1 DEF SentTypes
<1>7. CASE SendMsgFails(m)
  <2>1. /\ ~connected /\ connected' = connected
        /\ UNCHANGED <<wire, crossed, send_q>>
    BY <1>7 DEF SendMsgFails, Refuses, queued
  <2>2. wire' = << >> /\ send_q' = << >> /\ Nobody'
    BY <1>1, <2>1 DEF Unconnected, Nobody
  <2>3. crossed' \in BOOLEAN /\ connected' \in BOOLEAN
    BY <1>1, <2>1 DEF SentTypes
  <2>4. Order'
    BY <1>3, <1>4, <1>6, <1>7, <2>2, <2>3, OrderOfNothing
  <2> QED
    BY <1>5, <2>4 DEF OrderInv
<1>8. CASE SendMsg(m)
  <2>1. /\ connected' = TRUE
        /\ IF Unread = << >> THEN Wire(Main, m) /\ send_q' = Unread
                             ELSE send_q' = Append(Unread, m) /\ UNCHANGED <<wire, crossed>>
    BY <1>8 DEF SendMsg, Connects, Direct, Empty
  <2>2. PICK u : u = Unread
    OBVIOUS
  <2>3. /\ Held(u) /\ Opened(u)
        /\ \A c : Links(send_q, c) => Links(u, c) /\ Final(u, c) = Final(send_q, c)
    BY <1>1, <2>2, UnreadIs
  <2>4. ASSUME NEW q, Held(q), Opened(q)
        PROVE  /\ Opened(q)'
               /\ \A i \in 1 .. Len(q) : Stream(q[i]) => Starts(Of(q[i]))' = Starts(Of(q[i]))
    <3>1. ASSUME NEW i \in 1 .. Len(q), Stream(q[i])
          PROVE  stream'[Of(q[i])] # NULL /\ Starts(Of(q[i]))' = Starts(Of(q[i]))
      <4>1. Of(q[i]) \in Item
        BY <1>1, <2>4, EntryIs
      <4>2. stream[Of(q[i])] # NULL
        BY <2>4, <3>1 DEF Opened
      <4> QED
        BY <1>5, <4>1, <4>2
    <3> QED
      BY <3>1 DEF Opened, Stream
  <2>5. Unconnected'
    BY <2>1 DEF Unconnected
  <2>6. CASE u = << >>
    <3>1. PICK w : w = Append(wire, m) /\ wire' = w
      BY <2>1, <2>2, <2>6 DEF Wire
    <3>2. /\ send_q' = u /\ crossed' \in BOOLEAN
          /\ crossed' = (crossed \/ \E t \in Thread \ {Main} : holding[t] # NULL)
      BY <1>1, <2>1, <2>2, <2>6 DEF Wire, SentTypes
    <3>3. w \in Seq(Message) /\ Known(w)
      <4>1. wire \in Seq(Message)
        BY <1>1 DEF Known
      <4>2. /\ w \in Seq(Message) /\ Len(w) = Len(wire) + 1 /\ Len(wire) \in Nat
            /\ \A i \in 1 .. Len(wire) : w[i] = wire[i]
            /\ w[Len(wire) + 1] = m
        BY <1>2, <3>1, <4>1, AppendOf
      <4>3. ASSUME NEW i \in 1 .. Len(w)
            PROVE  size_of[Of(w[i])] # NULL
        <5>1. i \in 1 .. Len(wire) \/ i = Len(wire) + 1
          BY <4>2
        <5> QED
          BY <1>1, <4>2, <5>1 DEF Known
      <4> QED
        BY <4>2, <4>3 DEF Known
    <3>4. ASSUME ~crossed'
          PROVE  /\ OneByOne(w)
                 /\ \E f, c, e : /\ Taken(f)' /\ Known(f) /\ OneByOne(f) /\ c = End(f)
                                 /\ Links(u, c) /\ e = Final(u, c) /\ Awaits(e)'
      <4>1. ~crossed /\ \A t \in Thread \ {Main} : holding[t] = NULL
        BY <1>1, <3>2, <3>4 DEF SentTypes
      <4>2. Nobody
        <5>1. Main \in Thread
          BY DEF Thread
        <5>2. holding[Main] = NULL
          BY <1>1, <5>1 DEF Threads
        <5> QED
          BY <4>1, <5>2 DEF Nobody
      <4>3. /\ OneByOne(wire)
            /\ \E f : /\ Taken(f) /\ Known(f) /\ OneByOne(f) /\ Links(send_q, End(f))
                      /\ Awaits(Final(send_q, End(f)))
        BY <1>1, <4>1, <4>2 DEF Flow, TwoHold, Nobody
      <4>4. Links(send_q, End(wire)) /\ Awaits(Final(send_q, End(wire)))
        BY <4>2, <4>3 DEF Taken, Nobody
      <4>5. Final(u, End(wire)) = End(wire) /\ Final(u, End(wire)) = Final(send_q, End(wire))
        <5>1. \A c : Final(u, c) = c
          BY <2>6 DEF Final, Prior
        <5> QED
          BY <2>3, <4>4, <5>1
      <4>6. Follows(End(wire), Of(m), Place(m))
        <5>1. Awaits(End(wire))
          BY <4>4, <4>5
        <5>2. Follows(End(wire), Of(m), First(m))
          BY <5>1
        <5> QED
          BY <1>2, <5>2
      <4>7. OneByOne(w) /\ End(w) = d
        BY <1>1, <1>2, <3>1, <4>3, <4>6, OneMore
      <4>8. Links(u, d) /\ Final(u, d) = d
        BY <2>6 DEF Links, Final, Prior
      <4>9. Taken(w)'
        BY <3>1, <4>2 DEF Taken, Nobody
      <4> QED
        BY <1>8, <3>3, <4>7, <4>8, <4>9
    <3>5. Order'
      BY <1>3, <1>4, <1>6, <2>1, <2>3, <2>4, <2>5, <3>1, <3>2, <3>3, <3>4, OrderFrom
    <3> QED
      BY <1>5, <3>5 DEF OrderInv
  <2>7. CASE u # << >>
    <3>1. PICK q : q = Append(u, m) /\ send_q' = q /\ UNCHANGED <<wire, crossed>>
      BY <2>1, <2>2, <2>7
    <3>2. /\ Held(q)
          /\ \A c : /\ Final(q, c) = d
                    /\ Links(u, c) /\ Follows(Final(u, c), Of(m), First(m)) => Links(q, c)
      BY <1>2, <2>3, <3>1, AppendLinks
    <3>3. Opened(q)
      <4>1. u \in Seq({"item", "text", "stream"} \X Item)
        BY <2>3 DEF Held
      <4>2. /\ Len(q) = Len(u) + 1 /\ Len(u) \in Nat
            /\ \A i \in 1 .. Len(u) : q[i] = u[i]
            /\ q[Len(u) + 1] = m
        BY <3>1, <4>1
      <4>3. \A i \in 1 .. Len(q) : i \in 1 .. Len(u) \/ i = Len(u) + 1
        BY <4>2
      <4> QED
        BY <1>2, <2>3, <4>2, <4>3 DEF Opened
    <3>4. PICK w : w = wire
      OBVIOUS
    <3>5. ASSUME ~crossed'
          PROVE  /\ OneByOne(w)
                 /\ \/ TwoHold'
                    \/ \E f, c, e : /\ Taken(f)' /\ Known(f) /\ OneByOne(f) /\ c = End(f)
                                    /\ Links(q, c) /\ e = Final(q, c) /\ Awaits(e)'
      <4>1. /\ OneByOne(w)
            /\ \/ TwoHold
               \/ \E f : /\ Taken(f) /\ Known(f) /\ OneByOne(f) /\ Links(send_q, End(f))
                         /\ Awaits(Final(send_q, End(f)))
        BY <1>1, <3>1, <3>4, <3>5 DEF Flow
      <4>2. CASE TwoHold
        BY <4>1, <4>2 DEF TwoHold
      <4>3. ASSUME NEW f, Taken(f), Known(f), OneByOne(f), Links(send_q, End(f)),
                   Awaits(Final(send_q, End(f)))
            PROVE  \E c, e : Taken(f)' /\ c = End(f) /\ Links(q, c) /\ e = Final(q, c) /\ Awaits(e)'
        <5>1. PICK c : c = End(f)
          OBVIOUS
        <5>2. Links(u, c) /\ Follows(Final(u, c), Of(m), First(m))
          BY <2>3, <4>3, <5>1
        <5>3. Links(q, c) /\ Final(q, c) = d
          BY <3>2, <5>2
        <5>4. Taken(f)'
          BY <3>1, <4>3 DEF Taken, Nobody
        <5> QED
          BY <1>8, <5>1, <5>3, <5>4
      <4> QED
        BY <4>1, <4>2, <4>3
    <3>6. wire' = w /\ Known(w) /\ crossed' \in BOOLEAN
      BY <1>1, <3>1, <3>4 DEF SentTypes
    <3>7. Order'
      BY <1>3, <1>4, <1>6, <2>1, <2>4, <2>5, <3>1, <3>2, <3>3, <3>5, <3>6, OrderFrom
    <3> QED
      BY <1>5, <3>7 DEF OrderInv
  <2> QED
    BY <2>6, <2>7
<1> QED
  BY <1>7, <1>8

-----------------------------------------------------------------------------
(***************************************************************************)
(* The steps of handle_item_relay                                          *)
(***************************************************************************)
\* The item that the main thread relays was sent, and nobody has begun to read its file.
LEMMA CurrIs ==
    ASSUME RelayAssumption, IInv, mpc \in Relaying
    PROVE  /\ curr \in Item /\ size_of[curr] # NULL /\ dpc[curr] = "none"
           /\ mpc = "text" => size_of[curr] = Text
           /\ mpc = "file" => size_of[curr] \in Nat
<1>1. PICK s \in Source, k \in Nat :
          /\ curr = <<s, k>> /\ curr \in Item /\ fd = s
          /\ \A id \in Item : id[1] = s => ~Reads(id)
          /\ \E n \in 0 .. MaxItems[s], at \in Seq(Nat \X Nat) :
                SourceAt(s, n, at) /\ at[1] = <<k, 2>>
  BY RelayedOf DEF IInv
<1>2. PICK n \in 0 .. MaxItems[s], at \in Seq(Nat \X Nat) : SourceAt(s, n, at) /\ at[1] = <<k, 2>>
  BY <1>1
<1>3. curr[1] = s /\ curr[2] = k /\ k \in 1 .. MaxItems[s]
  BY <1>1, Items
<1>4. MainStage(s, at[1]) /\ DeputyStage(curr, at[1])
  BY <1>1, <1>2, <1>3 DEF SourceAt, Stage
<1>5. mpc = "text" => size_of[curr] = Text
  BY <1>3, <1>4 DEF MainStage, Relaying
<1>6. mpc = "file" => size_of[curr] \in Nat
  BY <1>3, <1>4 DEF MainStage, Relaying
<1>7. dpc[curr] = "none"
  <2>1. dpc[curr] \in {"none", "header", "chunk", "resume", "callback", "ended"}
    BY <1>1 DEF IInv, Types, ServerTypes
  <2>2. dpc[curr] \notin {"header", "chunk", "resume"}
    BY <1>1, <1>3 DEF Reads
  <2>3. dpc[curr] \notin {"callback", "ended"}
    BY <1>2, <1>3, <1>4 DEF DeputyStage
  <2> QED
    BY <2>1, <2>2, <2>3
<1>8. size_of[curr] # NULL
  <2>1. PICK l \in Seq(Message) : l = Left(s) /\ Len(l) \in Nat
    <3>1. in[s] \in Seq(Message) /\ snd[s] \in Seq(Message)
      BY <1>1, <1>3 DEF IInv, Types, PeerTypes
    <3>2. \A a, b \in Seq(Message) : a \o b \in Seq(Message) /\ Len(a \o b) \in Nat
      OBVIOUS
    <3> QED
      BY <3>1, <3>2 DEF Left
  <2>2. /\ Len(at) = Len(l) + 1 /\ at[Len(at)] = <<n + 1, 1>>
        /\ \A j \in 1 .. Len(l) : at[j][1] \in 1 .. n
    BY <1>2, <2>1 DEF SourceAt, Line
  <2>4. Len(at) # 1
    BY <1>2, <2>2
  <2>5. 1 \in 1 .. Len(l)
    BY <2>1, <2>2, <2>4
  <2>6. k \in 1 .. n
    <3>1. at[1][1] \in 1 .. n
      BY <2>2, <2>5
    <3>2. <<k, 2>>[1] = k
      OBVIOUS
    <3> QED
      BY <1>2, <3>1, <3>2
  <2>7. k <= n
    BY <2>6
  <2> QED
    BY <1>1, <1>2, <1>3, <2>7 DEF SourceAt, Sent
<1> QED
  BY <1>1, <1>5, <1>6, <1>7, <1>8

\* The item itself.
LEMMA StepRelayItem ==
    ASSUME RelayAssumption, NullAssumption, OrderInv, IInv', RelayItem
    PROVE  OrderInv'
<1> DEFINE m == ItemMsg(curr)
           d == <<curr, 1>>
<1>1. /\ mpc = "item" /\ mpc' \in {"text", "file"} /\ (SendMsg(m) \/ SendMsgFails(m))
      /\ UNCHANGED <<size_of, curr, out, holding, idle, dpc, todos>>
  BY DEF RelayItem, MainAt, Goto, Calm, deputy
<1>2. curr \in Item /\ size_of[curr] # NULL
  BY <1>1, CurrIs DEF OrderInv, Relaying
<1>3. /\ m \in {"item", "text"} \X Item /\ Of(m) = curr /\ Type(m) = "item"
      /\ First(m) = 1 /\ EndOf(m) = d
  BY <1>2 DEF ItemMsg, Of, Type, First, EndOf
<1>4. Threads /\ Main \in Thread /\ Supplies
  BY DEF OrderInv, Thread
<1>5. idle[Main] = "no"
  BY <1>1, <1>4 DEF Threads
<1>6. Threads' /\ GoOn
  BY <1>1, <1>4, ThreadsSame, GoOnSame
<1>7. \A c : Awaits(c) => Follows(c, Of(m), First(m))
  BY <1>1, <1>3 DEF Awaits, Follows
<1>8. SendMsgFails(m) => Awaits(<< >>)'
  <2>1. SendMsgFails(m) => curr' \in refused'
    BY <1>1, <1>3 DEF SendMsgFails
  <2> QED
    BY <1>1, <2>1 DEF Awaits, Follows, Complete
<1>9. Awaits(d)'
  <2>1. \A x : <<x, 2 - 1>> = <<x, 1>>
    OBVIOUS
  <2>2. d' = <<curr', 2 - 1>>
    BY <2>1
  <2> QED
    BY <1>1, <2>2 DEF Awaits, Follows
<1>10. PICK x, e : x = m /\ e = d
  OBVIOUS
<1>11. Awaits(e)'
  BY <1>1, <1>9, <1>10 DEF Awaits, Follows, Complete
<1> HIDE DEF m, d
<1>12. /\ x \in {"item", "text"} \X Item /\ size_of[Of(x)] # NULL
       /\ Type(x) = "text" => size_of[Of(x)] = Text
       /\ \A c : Awaits(c) => Follows(c, Of(x), First(x))
       /\ SendMsg(x) \/ SendMsgFails(x)
       /\ SendMsgFails(x) => Awaits(<< >>)'
       /\ e = EndOf(x) /\ mpc \in {"item", "text"}
  BY <1>1, <1>2, <1>3, <1>7, <1>8, <1>10
<1> QED
  BY <1>1, <1>5, <1>6, <1>11, <1>12, SendStep

\* Its text.
LEMMA StepRelayText ==
    ASSUME RelayAssumption, NullAssumption, OrderInv, IInv', RelayText
    PROVE  OrderInv'
<1> DEFINE m == TextMsg(curr)
           d == <<curr, Length(curr)>>
<1>1. /\ mpc = "text" /\ idle[Main] = "no"
      /\ UNCHANGED <<size_of, out, holding, idle, dpc, todos>>
  BY DEF RelayText, MainAt, deputy
<1>2. curr \in Item /\ size_of[curr] # NULL /\ size_of[curr] = Text
  BY <1>1, CurrIs DEF OrderInv, Relaying
<1>3. (SendMsg(m) \/ SendMsgFails(m)) /\ mpc' = "todos"
  <2>1. over' # "mixed"
    BY DEF IInv
  <2> QED
    BY <2>1 DEF RelayText, Goto
<1>4. /\ m \in {"item", "text"} \X Item /\ Of(m) = curr /\ Type(m) = "text"
      /\ First(m) = 2 /\ EndOf(m) = d
  BY <1>2 DEF TextMsg, Of, Type, First, EndOf
<1>5. Threads /\ Main \in Thread /\ Supplies
  BY DEF OrderInv, Thread
<1>6. Threads'
  BY <1>1, <1>5 DEF Threads
<1>7. GoOn
  BY <1>1, <1>5, GoOnSame
<1>8. \A c : Awaits(c) => Follows(c, Of(m), First(m))
  BY <1>1, <1>4 DEF Awaits
<1>9. SendMsgFails(m) => Awaits(<< >>)'
  BY <1>3 DEF Awaits, Complete
<1>10. PICK i \in Item : i = curr /\ Length(i)' = Length(curr)
  BY <1>1, <1>2, WholeSame DEF Length
<1>11. PICK x, e : x = m /\ e = d
  OBVIOUS
<1>12. e[1] = i /\ e[2] = Length(i)'
  BY <1>10, <1>11
<1>13. Awaits(e)'
  BY <1>3, <1>12 DEF Awaits, Complete
<1> HIDE DEF m, d
<1>14. /\ x \in {"item", "text"} \X Item /\ size_of[Of(x)] # NULL
       /\ Type(x) = "text" => size_of[Of(x)] = Text
       /\ \A c : Awaits(c) => Follows(c, Of(x), First(x))
       /\ SendMsg(x) \/ SendMsgFails(x)
       /\ SendMsgFails(x) => Awaits(<< >>)'
       /\ e = EndOf(x) /\ mpc \in {"item", "text"}
  BY <1>1, <1>2, <1>3, <1>4, <1>8, <1>9, <1>11
<1> QED
  BY <1>1, <1>6, <1>7, <1>13, <1>14, SendStep
\* What is known when recv_file and send_stream are called.
LEMMA FileBegins ==
    ASSUME RelayAssumption, OrderInv, RelayFile
    PROVE  /\ curr \in Item /\ size_of[curr] \in Nat /\ size_of[curr] # NULL
           /\ stream[curr] = NULL /\ out[curr] = NULL /\ ~Reporting(curr)
           /\ mpc = "file" /\ mpc' = "todos" /\ GoOn /\ dpc'[curr] = "header"
           /\ UNCHANGED <<size_of, out, holding, idle, todos, wire, refused, crossed>>
<1>1. /\ mpc = "file" /\ mpc' = "todos" /\ dpc' = [dpc EXCEPT ![curr] = "header"]
      /\ UNCHANGED <<size_of, out, holding, idle, todos, wire, refused, crossed>>
  BY DEF RelayFile, MainAt, Goto
<1>2. curr \in Item /\ size_of[curr] # NULL /\ dpc[curr] = "none" /\ size_of[curr] \in Nat
  BY <1>1, CurrIs DEF OrderInv, Relaying
<1>3. Supplied(curr) /\ ToldOnce
  BY <1>2 DEF OrderInv, Supplies
<1>4. stream[curr] = NULL /\ out[curr] = NULL /\ ~Reporting(curr)
  BY <1>2, <1>3 DEF Supplied, Reporting
<1>5. dpc'[curr] = "header" /\ \A id \in Item : id # curr => dpc'[id] = dpc[id]
  <2>1. DOMAIN dpc = Item
    BY DEF OrderInv, IInv, Types, ServerTypes
  <2> QED
    BY <1>1, <1>2, <2>1
<1>6. GoOn
  <2>1. ToldOnce' /\ \A id \in Item : Reporting(id)' => Reporting(id)
    BY <1>1, <1>3 DEF ToldOnce, Reporting
  <2>2. ASSUME NEW id \in Item
        PROVE  /\ dpc[id] # "none" => dpc'[id] # "none"
               /\ dpc[id] = "ended" => dpc'[id] = "ended"
    <3>1. CASE id = curr
      BY <1>2, <1>5, <3>1
    <3>2. CASE id # curr
      BY <1>5, <3>2
    <3> QED
      BY <3>1, <3>2
  <2> QED
    BY <2>1, <2>2 DEF GoOn
<1> QED
  BY <1>1, <1>2, <1>4, <1>5, <1>6

\* Its file: a stream in the queue, which its content will be put into.
LEMMA StepRelayFile ==
    ASSUME RelayAssumption, NullAssumption, OrderInv, IInv', RelayFile
    PROVE  OrderInv'
<1>1. PICK id \in Item : id = curr
  BY FileBegins
<1>2. /\ size_of[id] \in Nat /\ size_of[id] # NULL
      /\ stream[id] = NULL /\ out[id] = NULL /\ ~Reporting(id)
      /\ mpc = "file" /\ mpc' = "todos" /\ GoOn /\ dpc'[id] = "header"
      /\ UNCHANGED <<size_of, out, holding, idle, todos, wire, refused, crossed>>
  BY <1>1, FileBegins
<1>3. /\ Known(wire) /\ Held(send_q) /\ Opened(send_q) /\ Flow /\ Unconnected /\ SentTypes
      /\ SupplyTypes /\ Supplies /\ Threads
  BY DEF OrderInv, Order, SentTypes, Supplies
<1>4. Growing /\ refused' \subseteq Item /\ crossed' \in BOOLEAN
  BY <1>2, <1>3, GrowingSame DEF SentTypes
<1>5. /\ holding' \in [Thread -> Message \cup {NULL}]
      /\ \A t \in Thread : holding'[t] # NULL => size_of[Of(holding'[t])] # NULL
  BY <1>2, <1>3 DEF SentTypes
<1>6. Threads'
  BY <1>2, <1>3, ThreadsSame
<1>7. CASE Refuses /\ UNCHANGED queued
  <2>1. ~connected /\ connected' = connected /\ UNCHANGED <<stream, send_q>>
    BY <1>7 DEF Refuses, queued
  <2>2. Supplies'
    BY <1>2, <1>3, <1>4, <2>1, SuppliesStay
  <2>3. wire' = << >> /\ send_q' = << >> /\ Nobody' /\ connected' \in BOOLEAN
    BY <1>2, <1>3, <2>1 DEF Unconnected, Nobody, SentTypes
  <2>4. Awaits(<< >>)'
    BY <1>2 DEF Awaits, Complete
  <2>5. Order'
    BY <1>4, <1>5, <2>3, <2>4, OrderOfNothing
  <2> QED
    BY <1>6, <2>2, <2>5 DEF OrderInv
<1>8. CASE /\ Connects
           /\ stream' = [stream EXCEPT ![curr] = [msgs |-> << >>, off |-> FALSE]]
           /\ send_q' = Append(send_q, <<"stream", curr>>)
  <2> DEFINE r == [msgs |-> << >>, off |-> FALSE]
             e == <<"stream", id>>
  <2>1. r \in [msgs : Seq(Message), off : BOOLEAN] /\ r.msgs = << >> /\ r.off = FALSE
    OBVIOUS
  <2>2. r # NULL
    BY <2>1 DEF NullAssumption
  <2>3. /\ e \in {"item", "text", "stream"} \X Item /\ Of(e) = id /\ Type(e) = "stream"
        /\ Stream(e) /\ First(e) = Starts(id) /\ EndOf(e) = <<id, Length(id)>>
    BY DEF Of, Type, Stream, First, EndOf
  <2> HIDE DEF r, e
  <2>4. /\ stream' = [stream EXCEPT ![id] = r] /\ connected' = TRUE
        /\ send_q' = Append(send_q, e)
    BY <1>1, <1>8 DEF r, e, Connects
  <2>5. /\ stream'[id] = r /\ \A jd \in Item : jd # id => stream'[jd] = stream[jd]
        /\ SupplyTypes'
    BY <1>2, <1>3, <2>1, <2>4 DEF SupplyTypes
  <2>6. Starts(id) = 2 /\ Starts(id)' = 2
    BY <1>2 DEF Starts
  <2>7. Supplied(id)'
    BY <1>2, <2>1, <2>2, <2>5 DEF Supplied, Reporting
  <2>8. ASSUME NEW jd \in Item
        PROVE  /\ Supplied(jd)'
               /\ jd = id \/ stream[jd] # NULL => stream'[jd] # NULL /\ Starts(jd)' = Starts(jd)
    <3>1. CASE jd = id
      BY <2>2, <2>5, <2>6, <2>7, <3>1
    <3>2. CASE jd # id
      <4>1. Supplied(jd) /\ stream'[jd] = stream[jd] /\ out'[jd] = out[jd]
        BY <1>2, <1>3, <2>5, <3>2 DEF Supplies
      <4> QED
        BY <1>2, <1>4, <3>2, <4>1, SuppliedSame
    <3> QED
      BY <3>1, <3>2
  <2>9. Supplies'
    BY <1>2, <2>5, <2>8 DEF Supplies, GoOn
  <2>10. PICK u : u = send_q
    OBVIOUS
  <2>11. PICK q : q = Append(u, e) /\ send_q' = q
    BY <2>4, <2>10
  <2>12. /\ Held(q) /\ Held(u) /\ Opened(u)
         /\ \A c : /\ Final(q, c) = EndOf(e)
                   /\ Links(u, c) /\ Follows(Final(u, c), id, 2) => Links(q, c)
    <3>1. Held(u) /\ Opened(u)
      BY <1>3, <2>10
    <3>2. \A i \in 1 .. Len(u) : u[i] # e
      BY <1>2, <2>3, <3>1 DEF Opened
    <3> QED
      BY <1>2, <2>3, <2>6, <2>11, <3>1, <3>2, AppendLinks
  <2>13. ASSUME NEW i \in 1 .. Len(q), Stream(q[i])
         PROVE  stream'[Of(q[i])] # NULL /\ Starts(Of(q[i]))' = Starts(Of(q[i]))
    <3>1. u \in Seq({"item", "text", "stream"} \X Item)
      BY <2>12 DEF Held
    <3>2. /\ Len(q) = Len(u) + 1 /\ Len(u) \in Nat
          /\ \A j \in 1 .. Len(u) : q[j] = u[j]
          /\ q[Len(u) + 1] = e
      BY <2>3, <2>11, <3>1, AppendOf
    <3>3. CASE i \in 1 .. Len(u)
      <4>1. q[i] = u[i]
        BY <3>2, <3>3
      <4>2. Of(u[i]) \in Item
        BY <1>3, <2>12, <3>3, EntryIs
      <4>3. stream[Of(u[i])] # NULL
        BY <2>12, <2>13, <3>3, <4>1 DEF Opened
      <4> QED
        BY <2>8, <4>1, <4>2, <4>3
    <3>4. CASE i = Len(u) + 1
      BY <2>3, <2>8, <3>2, <3>4
    <3> QED
      BY <3>2, <3>3, <3>4
  <2>14. Opened(q)'
    BY <2>13 DEF Opened, Stream
  <2>15. PICK w : w = wire
    OBVIOUS
  <2>16. PICK d : d = EndOf(e)
    OBVIOUS
  <2>17. Awaits(d)'
    <3>1. d[1] = id /\ d[2] = Length(id)
      BY <2>3, <2>16
    <3>2. Length(id)' = Length(id)
      BY <1>2, WholeSame DEF Length
    <3> QED
      BY <1>2, <3>1, <3>2 DEF Awaits, Complete
  <2>18. ASSUME ~crossed'
         PROVE  /\ OneByOne(w)
                /\ \/ TwoHold'
                   \/ \E f, c, g : /\ Taken(f)' /\ Known(f) /\ OneByOne(f) /\ c = End(f)
                                   /\ Links(q, c) /\ g = Final(q, c) /\ Awaits(g)'
    <3>1. /\ OneByOne(w)
          /\ \/ TwoHold
             \/ \E f : /\ Taken(f) /\ Known(f) /\ OneByOne(f) /\ Links(send_q, End(f))
                       /\ Awaits(Final(send_q, End(f)))
      BY <1>2, <1>3, <2>15, <2>18 DEF Flow
    <3>2. CASE TwoHold
      BY <1>2, <3>1, <3>2 DEF TwoHold
    <3>3. ASSUME NEW f, Taken(f), Known(f), OneByOne(f), Links(send_q, End(f)),
                 Awaits(Final(send_q, End(f)))
          PROVE  \E c, g : Taken(f)' /\ c = End(f) /\ Links(q, c) /\ g = Final(q, c) /\ Awaits(g)'
      <4>1. PICK c : c = End(f)
        OBVIOUS
      <4>2. Links(u, c) /\ Follows(Final(u, c), id, 2)
        BY <1>1, <1>2, <2>10, <3>3, <4>1 DEF Awaits
      <4>3. Links(q, c) /\ Final(q, c) = d
        BY <2>12, <2>16, <4>2
      <4>4. Taken(f)'
        BY <1>2, <3>3 DEF Taken, Nobody
      <4> QED
        BY <2>17, <4>1, <4>3, <4>4
    <3> QED
      BY <3>1, <3>2, <3>3
  <2>19. wire' = w /\ Known(w) /\ Unconnected' /\ connected' \in BOOLEAN
    BY <1>2, <1>3, <2>4, <2>15 DEF Unconnected
  <2>20. Order'
    BY <1>4, <1>5, <2>11, <2>12, <2>13, <2>14, <2>18, <2>19, OrderFrom
  <2> QED
    BY <1>6, <2>9, <2>20 DEF OrderInv
<1> QED
  BY <1>7, <1>8 DEF RelayFile
-----------------------------------------------------------------------------
(***************************************************************************)
(* send_readies                                                            *)
(***************************************************************************)
\* What is taken is sent: when no other thread holds a message it is the next one.
LEMMA StepSendNow ==
    ASSUME RelayAssumption, NullAssumption, OrderInv, IInv', NEW t \in Thread, SendNow(t)
    PROVE  OrderInv'
<1>1. /\ idle[t] = "now" /\ Wire(t, holding[t]) /\ holding' = [holding EXCEPT ![t] = NULL]
      /\ idle' = [idle EXCEPT ![t] = "send"]
      /\ UNCHANGED <<size_of, refused, stream, out, send_q, connected, mpc, curr, dpc, todos>>
  BY DEF SendNow, Idling, IdleAt, source, deputy, queued, main
<1>2. /\ Known(wire) /\ Held(send_q) /\ Opened(send_q) /\ Flow /\ Unconnected /\ SentTypes
      /\ Supplies /\ Threads
  BY DEF OrderInv, Order, SentTypes
<1>3. PICK m \in Message : m = holding[t] /\ m # NULL /\ size_of[Of(m)] # NULL
  <2>1. holding[t] # NULL
    BY <1>1, <1>2 DEF Threads
  <2> QED
    BY <1>2, <2>1 DEF SentTypes
<1>4. PICK w : w = Append(wire, m) /\ wire' = w
  BY <1>1, <1>3 DEF Wire
<1>5. crossed' = (crossed \/ \E u \in Thread \ {t} : holding[u] # NULL) /\ crossed' \in BOOLEAN
  BY <1>1, <1>2 DEF Wire, SentTypes
<1>6. Growing /\ GoOn /\ refused' \subseteq Item
  BY <1>1, <1>2, GrowingSame, GoOnSame DEF SentTypes
<1>7. /\ Supplies'
      /\ \A id \in Item : stream[id] # NULL => stream'[id] # NULL /\ Starts(id)' = Starts(id)
  BY <1>1, <1>2, <1>6, SuppliesStay
<1>8. /\ holding'[t] = NULL /\ \A u \in Thread : u # t => holding'[u] = holding[u]
      /\ holding' \in [Thread -> Message \cup {NULL}]
      /\ \A u \in Thread : holding'[u] # NULL => size_of[Of(holding'[u])] # NULL
  BY <1>1, <1>2 DEF SentTypes
<1>9. Threads'
  <2>1. /\ idle'[t] = "send" /\ \A u \in Thread : u # t => idle'[u] = idle[u]
        /\ idle' \in [Thread -> {"no", "prune", "send", "now"}]
    BY <1>1, <1>2 DEF Threads
  <2>2. idle'[Main] # "no" => idle[Main] # "no"
    <3>1. Main \in Thread
      BY DEF Thread
    <3> QED
      BY <1>1, <2>1, <3>1
  <2> QED
    BY <1>1, <1>2, <1>8, <2>1, <2>2 DEF Threads
<1>10. connected /\ Unconnected'
  <2>1. ~Nobody
    BY <1>3 DEF Nobody
  <2> QED
    BY <1>1, <1>2, <2>1 DEF Unconnected
<1>11. Known(w)
  <2>1. wire \in Seq(Message)
    BY <1>2 DEF Known
  <2>2. /\ w \in Seq(Message) /\ Len(w) = Len(wire) + 1 /\ Len(wire) \in Nat
        /\ \A i \in 1 .. Len(wire) : w[i] = wire[i]
        /\ w[Len(wire) + 1] = m
    BY <1>4, <2>1, AppendOf
  <2>3. ASSUME NEW i \in 1 .. Len(w)
        PROVE  size_of[Of(w[i])] # NULL
    <3>1. i \in 1 .. Len(wire) \/ i = Len(wire) + 1
      BY <2>2
    <3> QED
      BY <1>2, <1>3, <2>2, <3>1 DEF Known
  <2> QED
    BY <2>2, <2>3 DEF Known
<1>12. PICK q : q = send_q /\ send_q' = q
  BY <1>1
<1>13. /\ Opened(q)'
       /\ \A i \in 1 .. Len(q) : Stream(q[i]) => Starts(Of(q[i]))' = Starts(Of(q[i]))
  <2>1. ASSUME NEW i \in 1 .. Len(q), Stream(q[i])
        PROVE  stream'[Of(q[i])] # NULL /\ Starts(Of(q[i]))' = Starts(Of(q[i]))
    <3>1. Of(q[i]) \in Item
      BY <1>2, <1>12, EntryIs
    <3>2. stream[Of(q[i])] # NULL
      BY <1>2, <1>12, <2>1 DEF Opened
    <3> QED
      BY <1>7, <3>1, <3>2
  <2> QED
    BY <2>1 DEF Opened, Stream
<1>14. ASSUME ~crossed'
       PROVE  /\ OneByOne(w)
              /\ \E f, c, d : /\ Taken(f)' /\ Known(f) /\ OneByOne(f) /\ c = End(f)
                              /\ Links(q, c) /\ d = Final(q, c) /\ Awaits(d)'
  <2>1. ~crossed /\ \A u \in Thread \ {t} : holding[u] = NULL
    BY <1>2, <1>5, <1>14 DEF SentTypes
  <2>2. ~TwoHold /\ ~Nobody
    BY <1>3, <2>1 DEF TwoHold, Nobody
  <2>3. PICK f : /\ Taken(f) /\ Known(f) /\ OneByOne(f) /\ Links(send_q, End(f))
                 /\ Awaits(Final(send_q, End(f)))
    BY <1>2, <2>1, <2>2 DEF Flow
  <2>4. f = w
    <3>1. PICK u \in Thread : holding[u] # NULL /\ f = Append(wire, holding[u])
      BY <2>2, <2>3 DEF Taken
    <3>2. u = t
      BY <2>1, <3>1
    <3> QED
      BY <1>3, <1>4, <3>1, <3>2
  <2>5. Taken(w)'
    <3>1. Nobody'
      BY <1>8, <2>1 DEF Nobody
    <3> QED
      BY <1>4, <3>1 DEF Taken
  <2>6. PICK c, d : c = End(w) /\ d = Final(q, c)
    OBVIOUS
  <2>7. Placed(d)
    <3>1. Placed(c)
      BY <1>11, <2>6, EndIs
    <3> QED
      BY <1>2, <1>6, <1>12, <1>13, <2>6, <3>1, QueueStays
  <2>8. Links(q, c) /\ Awaits(d)
    BY <1>12, <2>3, <2>4, <2>6
  <2>9. Awaits(d)'
    BY <1>1, <1>6, <2>7, <2>8, AwaitsStays DEF Waiting
  <2> QED
    BY <1>11, <2>3, <2>4, <2>5, <2>6, <2>8, <2>9
<1>15. connected' \in BOOLEAN /\ Held(q)
  BY <1>1, <1>2, <1>12 DEF SentTypes
<1>16. Order'
  BY <1>4, <1>5, <1>6, <1>8, <1>10, <1>11, <1>12, <1>13, <1>14, <1>15, OrderFrom
<1> QED
  BY <1>7, <1>9, <1>16 DEF OrderInv

\* A function that may have no value somewhere gets one.
LEMMA UpdateOf ==
    ASSUME NEW S, NEW R, NEW n, NEW f \in [S -> {n} \cup R], NEW x \in S, NEW v \in R
    PROVE  [f EXCEPT ![x] = v] \in [S -> {n} \cup R]
  OBVIOUS

\* A message is taken from a stream: it was the first that remained.
LEMMA StreamTaken ==
    ASSUME RelayAssumption, NullAssumption, Supplies, NEW id \in Item, stream[id] # NULL,
           stream[id].msgs # << >>, stream' = [stream EXCEPT ![id].msgs = Tail(@)],
           UNCHANGED <<size_of, refused, out, dpc, todos>>
    PROVE  /\ Supplies' /\ Starts(id)' = Starts(id) + 1 /\ stream'[id] # NULL
           /\ \A jd \in Item : jd # id /\ stream[jd] # NULL =>
                 stream'[jd] # NULL /\ Starts(jd)' = Starts(jd)
<1>1. SupplyTypes /\ Supplied(id) /\ GoOn /\ Growing
  BY GoOnSame, GrowingSame DEF Supplies
<1>2. /\ stream[id] \in [msgs : Seq(Message), off : BOOLEAN] /\ Length(id) \in Nat
      /\ out[id] \in Seq(Message) /\ out[id] # NULL /\ Starts(id) <= Length(id)
      /\ Starts(id) \in 2 .. Length(id) + 1 /\ size_of[id] \in Nat
  BY StartsIs
<1>3. PICK a \in Seq(Message), o \in BOOLEAN, b \in Seq(Message) :
          stream[id] = [msgs |-> a, off |-> o] /\ out[id] = b /\ a # << >>
  BY <1>2
<1>4. PICK r \in Seq(Message), l \in Nat, d \in Seq(Message) :
          /\ r = a \o b /\ r = Rest(id) /\ l = Length(id) /\ d = Tail(a)
          /\ d \o b = Tail(r) /\ r # << >>
  <2>1. a \o b \in Seq(Message) /\ Tail(a) \in Seq(Message) /\ Tail(a) \o b = Tail(a \o b)
    <3>1. a \o b \in Seq(Message) /\ Tail(a) \in Seq(Message)
      BY <1>3, ConcatOf, TailOf
    <3>2. Tail(a) \o b = Tail(a \o b)
      BY <1>3, TailConcat
    <3> QED
      BY <3>1, <3>2
  <2>2. a \o b = Rest(id)
    BY <1>3 DEF Rest
  <2>3. a \o b # << >>
    BY <1>3
  <2> QED
    BY <1>2, <2>1, <2>2, <2>3
<1>5. stream' = [stream EXCEPT ![id] = [msgs |-> d, off |-> o]]
  <2>1. [stream[id] EXCEPT !.msgs = Tail(@)] = [msgs |-> d, off |-> o]
    <3>1. \A m : [[msgs |-> a, off |-> o] EXCEPT !.msgs = m] = [msgs |-> m, off |-> o]
      OBVIOUS
    <3>2. stream[id].msgs = a
      BY <1>3
    <3>3. Tail(stream[id].msgs) = d
      BY <1>4, <3>2
    <3> QED
      BY <1>3, <3>1, <3>3
  <2> QED
    BY <2>1
<1>6. /\ stream'[id] = [msgs |-> d, off |-> o] /\ stream'[id] # NULL
      /\ out'[id] = b /\ SupplyTypes'
      /\ \A jd \in Item : jd # id => stream'[jd] = stream[jd] /\ out'[jd] = out[jd]
  <2>1. PICK v \in [msgs : Seq(Message), off : BOOLEAN] : v = [msgs |-> d, off |-> o]
    OBVIOUS
  <2>2. v # NULL
    BY DEF NullAssumption
  <2>3. stream' = [stream EXCEPT ![id] = v] /\ out' = out
    BY <1>5, <2>1
  <2>4. /\ stream'[id] = v /\ SupplyTypes'
        /\ \A jd \in Item : jd # id => stream'[jd] = stream[jd]
    <3>1. PICK R : R = [msgs : Seq(Message), off : BOOLEAN]
      OBVIOUS
    <3>2. v \in R /\ stream \in [Item -> {NULL} \cup R] /\ out' \in [Item -> {NULL} \cup Seq(Message)]
      <4>1. v \in R
        BY <2>1, <3>1
      <4>2. stream \in [Item -> {NULL} \cup R] /\ out \in [Item -> {NULL} \cup Seq(Message)]
        BY <1>1, <3>1 DEF SupplyTypes
      <4> QED
        BY <2>3, <4>1, <4>2
    <3>3. stream' \in [Item -> {NULL} \cup R]
      <4>1. [stream EXCEPT ![id] = v] \in [Item -> {NULL} \cup R]
        BY ONLY id \in Item, <3>2, UpdateOf
      <4> QED
        BY ONLY <2>3, <4>1
    <3> QED
      BY <2>3, <3>1, <3>2, <3>3 DEF SupplyTypes
  <2> QED
    BY <1>3, <2>1, <2>2, <2>3, <2>4
<1>7. stream'[id] # NULL /\ out'[id] # NULL
  BY <1>2, <1>6
<1>8. /\ Tail(r) \in Seq(Message) /\ Len(Tail(r)) = Len(r) - 1 /\ Len(r) \in Nat /\ Len(r) > 0
      /\ \A i \in 1 .. Len(r) - 1 : Tail(r)[i] = r[i + 1]
  BY <1>4, TailOf
<1>9. PICK h \in Seq(Message) : h = Tail(r)
  BY <1>8
<1>10. Rest(id)' = h
  <2>1. stream'[id].msgs = d
    BY <1>6
  <2> QED
    BY <1>4, <1>6, <1>9, <2>1 DEF Rest
<1>11. PICK w : w = Whole(id) /\ Whole(id)' = w /\ Length(id)' = l
  BY <1>4, WholeSame DEF Length
<1>12. /\ dpc[id] = "ended" /\ Len(r) < l /\ ~Reporting(id) /\ Starts(id) = l + 1 - Len(r)
       /\ \A i \in 1 .. Len(r) : r[i] = w[Starts(id) - 1 + i]
       /\ o => b = << >>
  BY <1>1, <1>2, <1>3, <1>4, <1>11 DEF Supplied, Starts, Reporting
<1>13. PICK n \in Nat : n = Starts(id) /\ n = l + 1 - Len(r)
  BY <1>2, <1>12
<1>14. Starts(id)' = n + 1
  <2>1. Starts(id)' = l + 1 - Len(h)
    BY <1>7, <1>10, <1>11 DEF Starts
  <2> QED
    BY <1>8, <1>9, <1>13, <2>1
<1>15. Supplied(id)'
  <2>1. Len(Rest(id)') < Length(id)'
    BY <1>8, <1>9, <1>10, <1>11, <1>12
  <2>2. ASSUME NEW i \in 1 .. Len(Rest(id)')
        PROVE  Rest(id)'[i] = Whole(id)'[Starts(id)' - 1 + i]
    <3>1. i \in 1 .. Len(r) - 1 /\ i + 1 \in 1 .. Len(r)
      BY <1>8, <1>9, <1>10
    <3>2. h[i] = r[i + 1] /\ r[i + 1] = w[n - 1 + (i + 1)]
      BY <1>8, <1>9, <1>12, <1>13, <3>1
    <3>3. n - 1 + (i + 1) = (n + 1) - 1 + i
      <4>1. i \in Nat
        BY <3>1
      <4>2. \A x \in Nat : n - 1 + (x + 1) = (n + 1) - 1 + x
        BY ONLY n \in Nat
      <4> QED
        BY <4>1, <4>2
    <3> QED
      BY <1>10, <1>11, <1>14, <3>2, <3>3
  <2>3. stream'[id].off = o
    BY <1>6
  <2>4. size_of'[id] \in Nat /\ dpc'[id] = "ended" /\ ~Reporting(id)'
    BY <1>2, <1>12 DEF Reporting
  <2> QED
    BY <1>6, <1>7, <1>12, <2>1, <2>2, <2>3, <2>4 DEF Supplied, Reporting
<1>16. ASSUME NEW jd \in Item, jd # id
       PROVE  Supplied(jd)' /\ (stream[jd] # NULL => stream'[jd] # NULL /\ Starts(jd)' = Starts(jd))
  <2>1. Supplied(jd) /\ stream'[jd] = stream[jd] /\ out'[jd] = out[jd]
    BY <1>6, <1>16 DEF Supplies
  <2> QED
    BY <1>1, <2>1, SuppliedSame
<1>17. Supplies'
  BY <1>1, <1>6, <1>15, <1>16 DEF Supplies, GoOn
<1> QED
  BY <1>7, <1>13, <1>14, <1>16, <1>17
\* A thread has taken g.
LEMMA GetMessage ==
    ASSUME NullAssumption, OrderInv, NEW t \in Thread, idle[t] = "send",
           idle' = [idle EXCEPT ![t] = "now"], NEW g \in Message, size_of[Of(g)] # NULL,
           holding' = [holding EXCEPT ![t] = g], UNCHANGED <<mpc, wire>>
    PROVE  /\ Threads' /\ holding' \in [Thread -> Message \cup {NULL}]
           /\ \A u \in Thread : holding'[u] # NULL => size_of[Of(holding'[u])] # NULL
           /\ ~Nobody => TwoHold'
           /\ Nobody => Taken(Append(wire, g))'
<1>1. SentTypes /\ Threads
  BY DEF OrderInv, Order
<1>2. g # NULL
  BY DEF NullAssumption
<1>3. /\ holding'[t] = g /\ \A u \in Thread : u # t => holding'[u] = holding[u]
      /\ idle'[t] = "now" /\ \A u \in Thread : u # t => idle'[u] = idle[u]
      /\ idle' \in [Thread -> {"no", "prune", "send", "now"}]
      /\ holding' \in [Thread -> Message \cup {NULL}]
  BY <1>1 DEF SentTypes, Threads
<1>4. holding[t] = NULL
  BY <1>1 DEF Threads
<1>5. Threads'
  <2>1. idle'[Main] # "no" => idle[Main] # "no"
    <3>1. Main \in Thread
      BY DEF Thread
    <3> QED
      BY <1>3, <3>1
  <2> QED
    BY <1>1, <1>2, <1>3, <2>1 DEF Threads
<1>6. ASSUME ~Nobody
      PROVE  TwoHold'
  <2>1. PICK u \in Thread : holding[u] # NULL
    BY <1>6 DEF Nobody
  <2>2. u # t
    BY <1>4, <2>1
  <2> QED
    BY <1>2, <1>3, <2>1, <2>2 DEF TwoHold
<1>7. ASSUME Nobody
      PROVE  Taken(Append(wire, g))'
  <2>1. \A u \in Thread \ {t} : holding'[u] = NULL
    BY <1>3, <1>7 DEF Nobody
  <2>2. PICK w, f : w = wire /\ f = Append(w, g)
    OBVIOUS
  <2>3. Taken(f)'
    BY <1>2, <1>3, <2>1, <2>2 DEF Taken
  <2>4. Append(wire, g)' = f
    BY <2>2
  <2> QED
    BY <2>3, <2>4 DEF Taken
<1>8. \A u \in Thread : holding'[u] # NULL => size_of[Of(holding'[u])] # NULL
  BY <1>1, <1>3 DEF SentTypes
<1> QED
  BY <1>3, <1>5, <1>6, <1>7, <1>8

\* Who takes a message while nobody holds one: what has been sent, and then the queue, is in
\* order.
LEMMA Nothing ==
    ASSUME OrderInv, Nobody, ~crossed
    PROVE  /\ OneByOne(wire) /\ Links(send_q, End(wire))
           /\ Awaits(Final(send_q, End(wire)))
<1>1. ~TwoHold
  BY DEF TwoHold, Nobody
<1>2. PICK f : /\ Taken(f) /\ OneByOne(f) /\ Links(send_q, End(f))
               /\ Awaits(Final(send_q, End(f)))
  BY <1>1 DEF OrderInv, Order, Flow
<1>3. f = wire
  BY <1>2 DEF Taken, Nobody
<1> QED
  BY <1>2, <1>3

\* What is first in the queue is taken from it.
LEMMA StepGetFirst ==
    ASSUME RelayAssumption, NullAssumption, OrderInv, IInv', NEW t \in Thread, SendGet(t),
           ~Stream(Head(Unread))
    PROVE  OrderInv'
<1>1. PICK u, e : u = Unread /\ e = Head(u)
  OBVIOUS
<1>2. /\ idle[t] = "send" /\ idle' = [idle EXCEPT ![t] = "now"] /\ u # << >>
      /\ holding' = [holding EXCEPT ![t] = e] /\ send_q' = Tail(u)
      /\ UNCHANGED <<size_of, refused, stream, out, wire, crossed, connected, mpc, curr, dpc, todos>>
  BY <1>1 DEF SendGet, Idling, IdleAt, Ready, Empty, source, deputy, main, sent
<1>3. /\ Known(wire) /\ Held(send_q) /\ Opened(send_q) /\ Unconnected /\ SentTypes /\ Supplies
  BY DEF OrderInv, Order, SentTypes
<1>4. /\ Held(u) /\ Opened(u) /\ u \in Seq({"item", "text", "stream"} \X Item)
      /\ \A c : Links(send_q, c) => Links(u, c) /\ Final(u, c) = Final(send_q, c)
      /\ \A x : (\E i \in 1 .. Len(u) : u[i] = x) => \E i \in 1 .. Len(send_q) : send_q[i] = x
  <2>1. Held(u) /\ u \in Seq({"item", "text", "stream"} \X Item)
    BY <1>1, <1>3, UnreadIs DEF Held
  <2> QED
    BY <1>1, <1>3, <2>1, UnreadIs
<1>5. Len(u) \in Nat /\ 1 \in 1 .. Len(u) /\ e = u[1]
  BY <1>1, <1>2, <1>4, TailOf
<1>6. /\ e \in {"item", "text"} \X Item /\ size_of[Of(e)] # NULL
      /\ Type(e) = "text" => size_of[Of(e)] = Text
  <2>1. e \in {"item", "text", "stream"} \X Item /\ Type(e) # "stream" /\ e = <<Type(e), Of(e)>>
    <3>1. u[1] \in {"item", "text", "stream"} \X Item /\ u[1] = <<Type(u[1]), Of(u[1])>>
      BY <1>3, <1>4, <1>5, EntryIs
    <3> QED
      BY <1>1, <1>5, <3>1 DEF Stream
  <2>2. e \in {"item", "text"} \X Item
    BY <2>1
  <2> QED
    BY <1>4, <1>5, <2>2 DEF Held
<1>7. /\ e \in Message /\ Of(e) \in Item
      /\ Place(e) = First(e) /\ Place(e) \in 1 .. Length(Of(e)) /\ Pos(e) = EndOf(e)
  BY <1>6, EntryPlace
<1>8. /\ Threads' /\ holding' \in [Thread -> Message \cup {NULL}]
      /\ \A x \in Thread : holding'[x] # NULL => size_of[Of(holding'[x])] # NULL
      /\ ~Nobody => TwoHold'
      /\ Nobody => Taken(Append(wire, e))'
  BY <1>2, <1>6, <1>7, GetMessage
<1>9. Growing /\ GoOn /\ refused' \subseteq Item
  BY <1>2, <1>3, GrowingSame, GoOnSame DEF SentTypes
<1>10. /\ Supplies'
       /\ \A id \in Item : stream[id] # NULL => stream'[id] # NULL /\ Starts(id)' = Starts(id)
  BY <1>2, <1>3, <1>9, SuppliesStay
<1>11. PICK q, w : q = Tail(u) /\ send_q' = q /\ w = wire /\ wire' = w
  BY <1>2
<1>12. /\ Held(q) /\ Opened(q)
       /\ \A c : Links(u, c) => /\ Links(q, EndOf(e))
                               /\ Final(q, EndOf(e)) = Final(u, c)
  BY <1>2, <1>4, <1>5, <1>11, TailLinks
<1>13. /\ Opened(q)'
       /\ \A i \in 1 .. Len(q) : Stream(q[i]) => Starts(Of(q[i]))' = Starts(Of(q[i]))
  <2>1. ASSUME NEW i \in 1 .. Len(q), Stream(q[i])
        PROVE  stream'[Of(q[i])] # NULL /\ Starts(Of(q[i]))' = Starts(Of(q[i]))
    <3>1. Of(q[i]) \in Item
      BY <1>3, <1>12, EntryIs
    <3>2. stream[Of(q[i])] # NULL
      BY <1>12, <2>1 DEF Opened
    <3> QED
      BY <1>10, <3>1, <3>2
  <2> QED
    BY <2>1 DEF Opened, Stream
<1>14. ASSUME ~crossed'
       PROVE  /\ OneByOne(w)
              /\ \/ TwoHold'
                 \/ \E f, c, d : /\ Taken(f)' /\ Known(f) /\ OneByOne(f) /\ c = End(f)
                                 /\ Links(q, c) /\ d = Final(q, c) /\ Awaits(d)'
  <2>1. OneByOne(w)
    BY <1>2, <1>11, <1>14 DEF OrderInv, Order, Flow
  <2>2. CASE ~Nobody
    BY <1>8, <2>1, <2>2
  <2>3. CASE Nobody
    <3>1. PICK c, d, f : c = End(w) /\ d = Final(send_q, c) /\ f = Append(w, e)
      OBVIOUS
    <3>2. Links(send_q, c) /\ Awaits(d)
      BY <1>2, <1>11, <1>14, <2>3, <3>1, Nothing
    <3>3. Links(u, c) /\ Final(u, c) = d
      BY <1>4, <3>1, <3>2
    <3>4. Follows(c, Of(e), Place(e))
      BY <1>5, <1>7, <3>3 DEF Links, Prior
    <3>5. Known(f) /\ OneByOne(f) /\ End(f) = EndOf(e)
      BY <1>3, <1>6, <1>7, <1>11, <2>1, <3>1, <3>4, OneMore
    <3>6. Links(q, EndOf(e)) /\ Final(q, EndOf(e)) = d
      BY <1>12, <3>3
    <3>7. Awaits(d)'
      <4>1. Placed(c)
        BY <1>3, <1>11, <3>1, EndIs
      <4>2. Placed(d)
        <5>1. PICK p : p = send_q
          OBVIOUS
        <5>2. ASSUME NEW i \in 1 .. Len(p), Stream(p[i])
              PROVE  Starts(Of(p[i]))' = Starts(Of(p[i]))
          <6>1. Of(p[i]) \in Item
            BY <1>3, <5>1, EntryIs
          <6>2. stream[Of(p[i])] # NULL
            BY <1>3, <5>1, <5>2 DEF Opened
          <6> QED
            BY <1>10, <6>1, <6>2
        <5>3. Held(p) /\ d = Final(p, c)
          BY <1>3, <3>1, <5>1
        <5> QED
          BY <1>9, <4>1, <5>2, <5>3, QueueStays
      <4> QED
        BY <1>2, <1>9, <3>2, <4>2, AwaitsStays DEF Waiting
    <3>8. Taken(f)'
      <4>1. Taken(Append(wire, e))'
        BY <1>8, <2>3
      <4>2. Append(wire, e)' = f
        BY <1>11, <3>1
      <4> QED
        BY <4>1, <4>2 DEF Taken
    <3> QED
      BY <2>1, <3>5, <3>6, <3>7, <3>8
  <2> QED
    BY <2>2, <2>3
<1>15. Unconnected' /\ crossed' \in BOOLEAN /\ connected' \in BOOLEAN /\ Known(w)
  <2>1. send_q # << >>
    <3>1. PICK i : i \in 1 .. Len(send_q)
      BY <1>4, <1>5
    <3> QED
      BY <3>1
  <2> QED
    BY <1>2, <1>3, <1>11, <2>1 DEF Unconnected, SentTypes
<1>16. Order'
  BY <1>8, <1>9, <1>11, <1>12, <1>13, <1>14, <1>15, OrderFrom
<1> QED
  BY <1>8, <1>10, <1>16 DEF OrderInv
\* A message is taken from the stream that is first in the queue.
LEMMA StepGetPiece ==
    ASSUME RelayAssumption, NullAssumption, OrderInv, IInv', NEW t \in Thread, SendGet(t),
           Stream(Head(Unread))
    PROVE  OrderInv'
<1>1. PICK u, e : u = Unread /\ e = Head(u)
  OBVIOUS
<1>2. PICK id, g : id = Of(e) /\ g = Head(stream[id].msgs)
  OBVIOUS
<1>3. /\ idle[t] = "send" /\ idle' = [idle EXCEPT ![t] = "now"] /\ u # << >>
      /\ stream[id].msgs # << >> /\ Stream(e)
      /\ holding' = [holding EXCEPT ![t] = g] /\ send_q' = u
      /\ stream' = [stream EXCEPT ![id].msgs = Tail(@)]
      /\ UNCHANGED <<size_of, refused, out, wire, crossed, connected, mpc, curr, dpc, todos>>
  BY <1>1, <1>2 DEF SendGet, Idling, IdleAt, Ready, Empty, source, deputy, main, sent
<1>4. /\ Known(wire) /\ Held(send_q) /\ Opened(send_q) /\ Unconnected /\ SentTypes /\ Supplies
  BY DEF OrderInv, Order, SentTypes
<1>5. /\ Held(u) /\ Opened(u) /\ u \in Seq({"item", "text", "stream"} \X Item)
      /\ \A c : Links(send_q, c) => Links(u, c) /\ Final(u, c) = Final(send_q, c)
      /\ \A x : (\E i \in 1 .. Len(u) : u[i] = x) => \E i \in 1 .. Len(send_q) : send_q[i] = x
  <2>1. Held(u) /\ u \in Seq({"item", "text", "stream"} \X Item)
    BY <1>1, <1>4, UnreadIs DEF Held
  <2> QED
    BY <1>1, <1>4, <2>1, UnreadIs
<1>6. Len(u) \in Nat /\ 1 \in 1 .. Len(u) /\ e = u[1]
  BY <1>1, <1>3, <1>5, TailOf
<1>7. \A i \in 1 .. Len(u) : Of(u[i]) \in Item /\ u[i] = <<Type(u[i]), Of(u[i])>>
                             /\ Type(u[i]) \in {"item", "text", "stream"}
  BY <1>4, <1>5, EntryIs
<1>8. /\ id \in Item /\ stream[id] # NULL /\ size_of[id] # NULL /\ e = <<"stream", id>>
      /\ First(e) = Starts(id)
  <2>1. id \in Item /\ stream[id] # NULL /\ size_of[id] # NULL /\ e = <<"stream", id>>
    BY <1>2, <1>3, <1>5, <1>6, <1>7 DEF Opened, Held, Stream
  <2> QED
    BY <1>2, <1>3, <2>1 DEF First, Stream
<1>9. /\ Supplies' /\ Starts(id)' = Starts(id) + 1 /\ stream'[id] # NULL
      /\ \A jd \in Item : jd # id /\ stream[jd] # NULL =>
            stream'[jd] # NULL /\ Starts(jd)' = Starts(jd)
  BY <1>3, <1>4, <1>8, StreamTaken
<1>10. PICK n \in Nat : /\ n = Starts(id) /\ n \in 1 .. Length(id) /\ n >= 2
                        /\ g = Whole(id)[n]
  <2>1. /\ Length(id) \in Nat /\ Starts(id) \in 2 .. Length(id) + 1
        /\ Starts(id) <= Length(id) /\ g = Whole(id)[Starts(id)]
    BY <1>2, <1>3, <1>4, <1>8, StartsIs
  <2> QED
    BY <2>1
<1>11. g \in Message /\ Of(g) = id /\ Place(g) = n /\ Pos(g) = <<id, n>>
  <2>1. g \in Message /\ Of(g) = id
    BY <1>8, <1>10, KindOf
  <2>2. Place(g) = n
    BY <1>8, <1>10, PlaceOf
  <2> QED
    BY <2>1, <2>2 DEF Pos
<1>12. /\ Threads' /\ holding' \in [Thread -> Message \cup {NULL}]
       /\ \A x \in Thread : holding'[x] # NULL => size_of[Of(holding'[x])] # NULL
       /\ ~Nobody => TwoHold'
       /\ Nobody => Taken(Append(wire, g))'
  BY <1>3, <1>8, <1>11, GetMessage
<1>13. Growing /\ refused' \subseteq Item /\ crossed' \in BOOLEAN /\ connected' \in BOOLEAN
  BY <1>3, <1>4, GrowingSame DEF SentTypes
<1>14. \A jd \in Item : Length(jd)' = Length(jd)
  BY <1>3, WholeSame DEF Length
<1>15. ASSUME NEW i \in 1 .. Len(u), i > 1
       PROVE  First(u[i])' = First(u[i])
              /\ (Stream(u[i]) => Starts(Of(u[i]))' = 2 /\ stream'[Of(u[i])] # NULL)
  <2>1. CASE Stream(u[i])
    <3>1. Of(u[i]) # id
      <4>1. u[i] # e
        <5>1. i \in 1 .. Len(u) /\ 1 \in 1 .. Len(u) /\ i # 1 /\ Held(u) /\ e = u[1]
          BY <1>3, <1>5, <1>6, <1>15
        <5> QED
          BY <2>1, <5>1 DEF Held
      <4> QED
        BY <1>7, <1>8, <2>1, <4>1 DEF Stream
    <3>2. stream[Of(u[i])] # NULL /\ Starts(Of(u[i])) = 2
      BY <1>5, <1>15, <2>1 DEF Held, Opened
    <3>3. Starts(Of(u[i]))' = Starts(Of(u[i])) /\ stream'[Of(u[i])] # NULL
      BY <1>7, <1>9, <3>1, <3>2
    <3> QED
      BY <2>1, <3>2, <3>3 DEF First, Stream
  <2>2. CASE ~Stream(u[i])
    BY <1>7, <2>2 DEF First, Stream
  <2> QED
    BY <2>1, <2>2
<1>16. Held(u)'
  <2>1. \A i \in 1 .. Len(u) : /\ size_of'[Of(u[i])] # NULL
                               /\ Type(u[i]) = "text" => size_of'[Of(u[i])] = Text
    BY <1>3, <1>5 DEF Held
  <2>2. \A i, j \in 1 .. Len(u) : Stream(u[i]) /\ u[i] = u[j] => i = j
    BY <1>5 DEF Held
  <2> QED
    BY <1>5, <1>15, <2>1, <2>2 DEF Held, Stream
<1>17. Opened(u)'
  <2>1. ASSUME NEW i \in 1 .. Len(u), Stream(u[i])
        PROVE  stream'[Of(u[i])] # NULL
    <3>1. i = 1 \/ i > 1
      BY <1>6
    <3> QED
      BY <1>2, <1>6, <1>9, <1>15, <2>1, <3>1
  <2> QED
    BY <2>1 DEF Opened, Stream
<1>18. ASSUME NEW i \in 1 .. Len(u)
       PROVE  EndOf(u[i])' = EndOf(u[i]) /\ Placed(EndOf(u[i]))
  <2>1. EndOf(u[i])' = EndOf(u[i])
    BY <1>7, <1>14 DEF EndOf
  <2> QED
    BY <1>4, <1>5, <2>1, EntryIs
<1>19. SentTypes' /\ Unconnected' /\ Held(send_q)' /\ Opened(send_q)'
  <2>1. send_q # << >>
    <3>1. PICK i : i \in 1 .. Len(send_q)
      BY <1>5, <1>6
    <3> QED
      BY <3>1
  <2>2. Unconnected'
    BY <1>3, <1>4, <2>1 DEF Unconnected
  <2>3. Held(send_q)' /\ Opened(send_q)'
    BY <1>3, <1>16, <1>17 DEF Held, Opened
  <2>4. Known(wire)'
    BY <1>3, <1>4 DEF Known
  <2> QED
    BY <1>3, <1>12, <1>13, <2>2, <2>3, <2>4 DEF SentTypes
<1>20. PICK w, f : w = wire /\ wire' = w /\ f = Append(w, g)
  BY <1>3
<1>21. ASSUME ~crossed'
       PROVE  /\ OneByOne(wire)'
              /\ \/ TwoHold'
                 \/ /\ Taken(f)' /\ Known(f)' /\ OneByOne(f)' /\ Links(send_q, End(f))'
                    /\ Awaits(Final(send_q, End(f)))'
  <2>1. OneByOne(w) /\ OneByOne(w)'
    <3>1. OneByOne(w)
      BY <1>3, <1>20, <1>21 DEF OrderInv, Order, Flow
    <3> QED
      BY <1>4, <1>13, <1>20, <3>1, OneByOneStays
  <2>2. OneByOne(wire)'
    BY <1>20, <2>1 DEF OneByOne, Before
  <2>3. CASE ~Nobody
    BY <1>12, <2>2, <2>3
  <2>4. CASE Nobody
    <3>1. PICK c, d : c = End(w) /\ d = Final(send_q, c)
      OBVIOUS
    <3>2. Links(send_q, c) /\ Awaits(d)
      BY <1>3, <1>20, <1>21, <2>4, <3>1, Nothing
    <3>3. Links(u, c) /\ Final(u, c) = d
      BY <1>5, <3>1, <3>2
    <3>4. Follows(c, id, n)
      BY <1>2, <1>6, <1>8, <1>10, <3>3 DEF Links, Prior
    <3> DEFINE b == <<id, n>>
    <3>5. Known(f) /\ OneByOne(f) /\ End(f) = b
      BY <1>4, <1>8, <1>10, <1>11, <1>20, <2>1, <3>1, <3>4, OneMore
    <3>6. Known(f)' /\ OneByOne(f)' /\ End(f)' = b
      <4>1. f \in Seq(Message) /\ Len(f) \in Nat
        BY <3>5 DEF Known
      <4>2. Len(f) + 1 \in 1 .. Len(f) + 1
        BY <4>1
      <4> QED
        BY <1>13, <3>5, <4>2, OneByOneStays DEF End
    <3>7. Links(u, b)'
      <4>1. ASSUME NEW i \in 1 .. Len(u)
            PROVE  Follows(Prior(u, b, i), Of(u[i]), First(u[i]))'
        <5>1. CASE i = 1
          <6>1. First(u[1])' = n + 1 /\ Of(u[1]) = id
            BY <1>2, <1>3, <1>6, <1>8, <1>9, <1>10 DEF First, Stream
          <6>2. (n + 1) - 1 = n
            OBVIOUS
          <6> QED
            BY <5>1, <6>1, <6>2 DEF Follows, Prior
        <5>2. CASE i > 1
          <6>1. PICK x, p : x = EndOf(u[i - 1]) /\ p = First(u[i])
            OBVIOUS
          <6>2. i - 1 \in 1 .. Len(u) /\ i # 1
            BY <1>6, <5>2
          <6>3. Follows(x, Of(u[i]), p) /\ Placed(x)
            BY <1>18, <3>3, <6>1, <6>2 DEF Links, Prior
          <6>4. Follows(x, Of(u[i]), p)'
            BY <1>13, <6>3, FollowsStays
          <6>5. Prior(u, b, i)' = x /\ First(u[i])' = p
            BY <1>15, <1>18, <5>2, <6>1, <6>2 DEF Prior
          <6> QED
            BY <6>4, <6>5 DEF Follows, Complete
        <5> QED
          BY <1>6, <5>1, <5>2
      <4> QED
        BY <4>1 DEF Links
    <3>8. Final(u, b)' = d /\ Placed(d)
      <4>1. PICK k \in 1 .. Len(u) : k = Len(u) /\ (k + 1) - 1 = k /\ k + 1 # 1
        BY <1>6
      <4> QED
        BY <1>18, <3>3, <4>1 DEF Final, Prior
    <3>9. Awaits(d)'
      BY <1>3, <1>13, <3>2, <3>8, AwaitsStays DEF Waiting
    <3>10. Links(send_q, End(f))'
      BY <1>3, <3>6, <3>7 DEF Links, Prior
    <3>11. Final(send_q, End(f))' = d
      BY <1>3, <3>6, <3>8 DEF Final, Prior
    <3>12. Awaits(Final(send_q, End(f)))'
      BY <3>9, <3>11 DEF Awaits, Follows, Complete
    <3>13. Taken(f)'
      <4>1. Taken(Append(wire, g))'
        BY <1>12, <2>4
      <4>2. Append(wire, g)' = f
        BY <1>20
      <4> QED
        BY <4>1, <4>2 DEF Taken
    <3> QED
      BY <2>2, <3>6, <3>10, <3>12, <3>13
  <2> QED
    BY <2>3, <2>4
<1>22. Flow'
  BY <1>21 DEF Flow
<1> QED
  BY <1>9, <1>12, <1>19, <1>22 DEF OrderInv, Order

\* get, from the queue or from the stream at its head.
LEMMA StepSendGet ==
    ASSUME RelayAssumption, NullAssumption, OrderInv, IInv', NEW t \in Thread, SendGet(t)
    PROVE  OrderInv'
  BY StepGetFirst, StepGetPiece
-----------------------------------------------------------------------------
(***************************************************************************)
(* All that is sent is in order                                            *)
(***************************************************************************)
LEMMA InitOrder ==
    ASSUME RelayAssumption, NullAssumption, Init
    PROVE  OrderInv
<1>1. IInv
  BY InitInv
<1>2. Threads /\ Nobody
  <2>1. Nobody
    BY DEF Init, Nobody
  <2>2. Main \in Thread /\ idle = [t \in Thread |-> "no"]
    BY DEF Init, Thread
  <2> QED
    BY <2>1, <2>2 DEF Threads, Nobody
<1>3. Supplies
  <2>1. SupplyTypes
    BY DEF Init, SupplyTypes
  <2>2. Len(todos) = 0 /\ ToldOnce /\ \A x : ~Contains(todos, x)
    <3>1. Len(todos) = 0
      BY DEF Init
    <3> QED
      BY <3>1 DEF ToldOnce, Contains
  <2>3. \A id \in Item : Supplied(id)
    BY <2>2 DEF Init, Supplied
  <2> QED
    BY <2>1, <2>2, <2>3 DEF Supplies
<1>4. Order
  <2> DEFINE e == << >>
  <2>1. Len(e) = 0 /\ e \in Seq(Message) /\ e \in Seq({"item", "text", "stream"} \X Item)
    OBVIOUS
  <2>2. Known(e) /\ OneByOne(e) /\ End(e) = << >>
    BY <2>1 DEF Known, OneByOne, End, Before
  <2>3. Held(e) /\ Opened(e) /\ Links(e, << >>) /\ Final(e, << >>) = << >>
    BY <2>1 DEF Held, Opened, Links, Final, Prior
  <2>4. wire = e /\ send_q = e /\ Awaits(<< >>)
    BY DEF Init, Awaits, Complete
  <2> HIDE DEF e
  <2>5. Taken(e)
    BY <1>2, <2>4 DEF Taken
  <2>6. SentTypes
    BY <1>2, <2>2, <2>4 DEF Init, SentTypes, Nobody
  <2>7. Flow
    BY <2>2, <2>3, <2>4, <2>5 DEF Flow
  <2> QED
    BY <1>2, <2>3, <2>4, <2>6, <2>7 DEF Order, Unconnected, e
<1> QED
  BY <1>1, <1>2, <1>3, <1>4 DEF OrderInv

LEMMA OrderInductive ==
    ASSUME RelayAssumption, NullAssumption, OrderInv, [Next]_vars
    PROVE  OrderInv'
<1>1. IInv'
  BY Inductive DEF OrderInv
<1>2. Main \in Thread /\ Item \subseteq Thread
  BY DEF Thread
<1>3. CASE \/ UNCHANGED vars
           \/ PollNothing \/ PollSome \/ Negate \/ TodosDone \/ TextWait \/ TextGone \/ Race
           \/ (\E f \in Source : RecvItem(f)) \/ \E f \in Source \cup {target} : RecvNothing(f)
           \/ \E s \in Source : PeerSends(s) \/ PeerCloses(s)
           \/ \E t \in Thread : Prune(t) \/ IdleDone(t)
           \/ \E id \in Item : DeputyWait(id) \/ DeputyGone(id)
  BY <1>1, <1>3, CalmMoves
<1>4. CASE \/ \E id \in Item : DeputyGet(id) \/ AddTodo(id)
           \/ Finisher
           \/ \E s \in Source : \E z \in Sizes[s] : PeerItem(s, z)
  BY <1>1, <1>4, CalmTakes
<1>5. CASE OnFinished
  BY <1>1, <1>5, StepOnFinished
<1>6. CASE RelayItem
  BY <1>1, <1>6, StepRelayItem
<1>7. CASE RelayText
  BY <1>1, <1>7, StepRelayText
<1>8. CASE RelayFile
  BY <1>1, <1>8, StepRelayFile
<1>9. CASE \E id \in Item : Sender(id)
  BY <1>1, <1>9, StepSender
<1>10. CASE \E t \in Thread : SendGet(t)
  BY <1>1, <1>10, StepSendGet
<1>11. CASE \E t \in Thread : SendNow(t)
  BY <1>1, <1>11, StepSendNow
<1>12. CASE MainLoop
  BY <1>2, <1>3, <1>4, <1>5, <1>6, <1>7, <1>8, <1>10, <1>11, <1>12 DEF MainLoop, NetIdle
<1>13. CASE \E id \in Item : Deputy(id)
  BY <1>2, <1>3, <1>4, <1>10, <1>11, <1>13 DEF Deputy, NetIdle
<1> QED
  BY <1>3, <1>4, <1>9, <1>12, <1>13 DEF Next

-----------------------------------------------------------------------------
\* Of every reachable state: what is in the streams is what their items still want, and
\* what has gone to the target, then what a thread holds, then what the queue stands for
\* and then what the main thread will send follow each other.
THEOREM OrderInvariant == Spec => []OrderInv
<1>1. Init => OrderInv
  BY RelayAssumption, NullAssumption, InitOrder
<1>2. OrderInv /\ [Next]_vars => OrderInv'
  BY RelayAssumption, NullAssumption, OrderInductive
<1> QED
  BY <1>1, <1>2, PTL DEF Spec

\* The target of handle_item_relay gets each item directly followed by the whole of its text
\* or file, for any number of sources, items, chunks and refusals, unless two threads send
\* past each other.
THEOREM ContentInOrder == Spec => []ContentFollows
<1>1. OrderInv => ContentFollows
  <2>1. SUFFICES ASSUME OrderInv, ~crossed, NEW i \in DOMAIN wire
                 PROVE  /\ Place(wire[i]) # 0
                        /\ i = 1 => Begins(wire[1])
                        /\ i > 1 => LET prev == wire[i - 1] IN
                                    IF Place(prev) = Len(Whole(Of(prev))) THEN Begins(wire[i])
                                    ELSE Of(wire[i]) = Of(prev) /\ Place(wire[i]) = Place(prev) + 1
    BY DEF ContentFollows
  <2>2. Known(wire) /\ OneByOne(wire)
    BY <2>1 DEF OrderInv, Order, SentTypes, Flow
  <2>3. wire \in Seq(Message) /\ i \in 1 .. Len(wire)
    BY <2>2 DEF Known
  <2>4. PICK id, p : id = Of(wire[i]) /\ p = Place(wire[i])
    OBVIOUS
  <2>5. p \in 1 .. Length(id) /\ Follows(Before(wire, i), id, p)
    BY <2>2, <2>3, <2>4 DEF OneByOne
  <2>6. Length(id) \in Nat /\ p # 0
    <3>1. wire[i] \in Message
      BY <2>3
    <3>2. id \in Item
      BY <2>4, <3>1, OfMessage
    <3>3. Length(id) \in Nat
      BY RelayAssumption, <3>2, ItemIs DEF Length
    <3> QED
      BY <2>5, <3>3
  <2>7. Begins(wire[i]) <=> p = 1 \/ (p = 2 /\ id \in refused)
    BY <2>4 DEF Begins
  <2>8. CASE i = 1
    <3>1. << >> # <<id, p - 1>>
      OBVIOUS
    <3>2. Begins(wire[i])
      BY <2>5, <2>7, <2>8, <3>1 DEF Before, Follows
    <3> QED
      BY <2>4, <2>6, <2>8, <3>2
  <2>9. CASE i > 1
    <3>1. PICK c, jd, r : /\ c = <<jd, r>> /\ jd = Of(wire[i - 1]) /\ r = Place(wire[i - 1])
                          /\ c = Before(wire, i)
      <4>1. Before(wire, i) = <<Of(wire[i - 1]), Place(wire[i - 1])>>
        BY <2>3, <2>9 DEF Before, Pos
      <4> QED
        BY <4>1
    <3>2. c # << >> /\ c[1] = jd /\ c[2] = r
      BY <3>1
    <3>3. CASE r = Length(jd)
      <4>1. c # <<id, p - 1>>
        <5>1. SUFFICES ASSUME jd = id, r = p - 1
                       PROVE  FALSE
          BY <3>1
        <5> QED
          BY <2>5, <2>6, <3>3, <5>1
      <4>2. Begins(wire[i])
        BY <2>5, <2>7, <3>1, <4>1 DEF Follows
      <4> QED
        BY <2>4, <2>6, <2>9, <3>1, <3>3, <4>2 DEF Length
    <3>4. CASE r # Length(jd)
      <4>1. c = <<id, p - 1>>
        BY <2>5, <3>1, <3>2, <3>4 DEF Follows, Complete
      <4>2. jd = id /\ p = r + 1
        <5>1. jd = id /\ r = p - 1
          BY <3>1, <4>1
        <5> QED
          BY <2>5, <2>6, <5>1
      <4> QED
        BY <2>4, <2>6, <2>9, <3>1, <3>4, <4>2 DEF Length
    <3> QED
      BY <3>3, <3>4
  <2> QED
    BY <2>3, <2>8, <2>9
<1> QED
  BY <1>1, OrderInvariant, PTL
=============================================================================
