-------------------------- MODULE MessengerProofs --------------------------
(***************************************************************************)
(* For any clients, datacenters and addresses: in every process the two    *)
(* maps of datacenters.cpp agree, the items of a conversation that are     *)
(* marked received have increasing indices, and no item is lost that a     *)
(* client has handled.                                                     *)
(***************************************************************************)
EXTENDS Messenger, SequenceTheorems, FiniteSetTheorems, WellFoundedInduction, TLAPS

-----------------------------------------------------------------------------
(***************************************************************************)
(* Min and InsertAt.                                                       *)
(***************************************************************************)
\* A set of numbers has a least one, and Min is it.
LEMMA MinOf ==
    ASSUME NEW S \in SUBSET Nat, S # {}
    PROVE  Min(S) \in S /\ \A y \in S : Min(S) <= y
<1>1. PICK x \in S : \A y \in S : ~ (<<y, x>> \in OpToRel(<, Nat))
  BY WFMin, NatLessThanWellFounded
<1>2. \A y \in S : y \in Nat /\ x \in Nat
  OBVIOUS
<1>3. \A y \in S : ~ (y < x)
  BY <1>1, <1>2, Zenon DEF OpToRel
<1>4. \A y \in S : x <= y
  BY <1>2, <1>3
<1> QED
  BY <1>4 DEF Min

\* What InsertAt does to each place of a sequence.
LEMMA InsertAtOf ==
    ASSUME NEW S, NEW s \in Seq(S), NEW e \in S, NEW i \in 1 .. Len(s)
    PROVE  /\ InsertAt(s, i, e) \in Seq(S) /\ Len(InsertAt(s, i, e)) = Len(s) + 1
           /\ \A j \in 1 .. Len(s) + 1 :
                 InsertAt(s, i, e)[j] = IF j < i THEN s[j] ELSE IF j = i THEN e ELSE s[j - 1]
<1> DEFINE a == SubSeq(s, 1, i - 1)
           b == SubSeq(s, i, Len(s))
<1>1. /\ a \in Seq(S) /\ Len(a) = i - 1
      /\ \A j \in 1 .. i - 1 : a[j] = s[j]
  <2>1. /\ SubSeq(s, 1, i - 1) \in Seq(S)
        /\ Len(SubSeq(s, 1, i - 1)) = IF 1 <= i - 1 THEN i - 1 - 1 + 1 ELSE 0
        /\ \A j \in 1 .. i - 1 - 1 + 1 : SubSeq(s, 1, i - 1)[j] = s[1 + j - 1]
    <3>1. \A j \in 1 .. i - 1 : s[j] \in S
      OBVIOUS
    <3> QED
      BY <3>1, SubSeqProperties
  <2> QED
    BY <2>1
<1>2. /\ b \in Seq(S) /\ Len(b) = Len(s) - i + 1
      /\ \A j \in 1 .. Len(s) - i + 1 : b[j] = s[i + j - 1]
  <2>1. \A j \in i .. Len(s) : s[j] \in S
    OBVIOUS
  <2> QED
    BY <2>1, SubSeqProperties
<1>3. /\ a \o <<e>> \in Seq(S) /\ Len(a \o <<e>>) = i
      /\ \A j \in 1 .. i : (a \o <<e>>)[j] = IF j < i THEN s[j] ELSE e
  <2> HIDE DEF a
  <2>1. <<e>> \in Seq(S) /\ Len(<<e>>) = 1 /\ <<e>>[1] = e
    OBVIOUS
  <2> QED
    BY <1>1, <2>1, ConcatProperties
<1>4. InsertAt(s, i, e) = (a \o <<e>>) \o b
  BY DEF InsertAt
<1> HIDE DEF a, b
<1>5. Len(s) \in Nat
  OBVIOUS
<1> DEFINE c == a \o <<e>>
<1>6. c \in Seq(S) /\ Len(c) = i /\ \A j \in 1 .. i : c[j] = IF j < i THEN s[j] ELSE e
  BY <1>3
<1>7. InsertAt(s, i, e) = c \o b
  BY <1>4
<1> HIDE DEF c
<1>8. /\ c \o b \in Seq(S) /\ Len(c \o b) = Len(c) + Len(b)
      /\ \A j \in 1 .. Len(c) + Len(b) :
            (c \o b)[j] = IF j <= Len(c) THEN c[j] ELSE b[j - Len(c)]
  BY <1>2, <1>6, ConcatProperties
<1>9. ASSUME NEW j \in 1 .. Len(s) + 1
      PROVE  (c \o b)[j] = IF j < i THEN s[j] ELSE IF j = i THEN e ELSE s[j - 1]
  <2>1. CASE j <= i
    BY <2>1, <1>2, <1>5, <1>6, <1>8
  <2>2. CASE j > i
    <3>1. j - i \in 1 .. Len(s) - i + 1 /\ i + (j - i) - 1 = j - 1
      BY <2>2, <1>5
    <3>2. (c \o b)[j] = b[j - i]
      BY <2>2, <1>2, <1>5, <1>6, <1>8
    <3> QED
      BY <2>2, <3>1, <3>2, <1>2
  <2>3. j <= i \/ j > i
    BY <1>5
  <2> QED
    BY <2>1, <2>2, <2>3, Zenon
<1>10. Len(c) + Len(b) = Len(s) + 1
  BY <1>2, <1>5, <1>6
<1> QED
  BY <1>7, <1>8, <1>9, <1>10, Zenon
-----------------------------------------------------------------------------
(***************************************************************************)
(* datacenters.cpp                                                         *)
(***************************************************************************)
\* The maps of a process that was told of no node are maps, and agree.
LEMMA NoMapsAgree == NoMaps \in Maps /\ MapsAgree(NoMaps)
  BY DatacentersAssumption DEF NoMaps, Maps, MapsAgree, datacenter, UNKNOWN

\* setNodeLocation keeps them so, wherever the node was before.
LEMMA SetNodeLocationAgrees ==
    ASSUME NEW m \in Maps, MapsAgree(m), NEW nid \in Nid, NEW loc \in datacenter
    PROVE  /\ setNodeLocation(m, nid, loc) \in Maps
           /\ MapsAgree(setNodeLocation(m, nid, loc))
<1> DEFINE k == setNodeLocation(m, nid, loc)
<1>1. /\ k.datacenters = [d \in datacenter |->
                            IF d = loc THEN m.datacenters[d] \cup {nid}
                            ELSE IF d = m.nodes[nid] THEN m.datacenters[d] \ {nid}
                            ELSE m.datacenters[d]]
      /\ k.nodes = [m.nodes EXCEPT ![nid] = loc]
  BY DEF setNodeLocation
<1>2. k \in Maps
  BY DEF setNodeLocation, Maps
<1>3. ASSUME NEW n \in Nid, NEW d \in datacenter
      PROVE  /\ n \in k.datacenters[d] => k.nodes[n] = d
             /\ k.nodes[n] = d /\ d # UNKNOWN => n \in k.datacenters[d]
  <2>1. /\ n \in m.datacenters[d] => m.nodes[n] = d
        /\ m.nodes[n] = d /\ d # UNKNOWN => n \in m.datacenters[d]
    BY DEF MapsAgree
  <2>2. CASE n = nid
    BY <1>1, <2>1, <2>2 DEF Maps
  <2>3. CASE n # nid
    BY <1>1, <2>1, <2>3 DEF Maps
  <2> QED
    BY <2>2, <2>3
<1> QED
  BY <1>2, <1>3 DEF MapsAgree

\* So does getNodeLocation, which puts an entry in one of them only.
LEMMA GetNodeLocationAgrees ==
    ASSUME NEW m \in Maps, MapsAgree(m), NEW nid \in Nid
    PROVE  /\ getNodeLocation(m, nid) \in Maps
           /\ MapsAgree(getNodeLocation(m, nid))
<1> DEFINE k == getNodeLocation(m, nid)
<1>0. UNKNOWN \in datacenter /\ Nowhere \notin datacenter
  BY DatacentersAssumption DEF UNKNOWN, datacenter
<1>1. /\ k.datacenters = m.datacenters
      /\ k.nodes = [m.nodes EXCEPT ![nid] = IF @ = Nowhere THEN UNKNOWN ELSE @]
      /\ k \in Maps
  BY <1>0 DEF getNodeLocation, Maps
<1>2. ASSUME NEW n \in Nid, NEW d \in datacenter
      PROVE  /\ n \in k.datacenters[d] => k.nodes[n] = d
             /\ k.nodes[n] = d /\ d # UNKNOWN => n \in k.datacenters[d]
  <2>1. /\ n \in m.datacenters[d] => m.nodes[n] = d
        /\ m.nodes[n] = d /\ d # UNKNOWN => n \in m.datacenters[d]
    BY DEF MapsAgree
  <2> QED
    BY <1>0, <1>1, <2>1 DEF Maps
<1> QED
  BY <1>1, <1>2 DEF MapsAgree

\* getServer is a node or -1.
LEMMA GetServerType ==
    ASSUME NEW m \in Maps
    PROVE  getServer(m) \in Int
<1> DEFINE used == {loc \in datacenter : m.datacenters[loc] # {}}
<1>1. CASE used = {}
  BY <1>1 DEF getServer
<1>2. CASE used # {}
  <2>1. used \in SUBSET Nat
    BY DatacentersAssumption DEF datacenter
  <2>2. Min(used) \in used
    BY <1>2, <2>1, MinOf
  <2>3. m.datacenters[Min(used)] \in SUBSET Nat /\ m.datacenters[Min(used)] # {}
    BY <2>2, DatacentersAssumption DEF Maps
  <2>4. Min(m.datacenters[Min(used)]) \in Nat
    BY <2>3, MinOf
  <2> QED
    BY <1>2, <2>4 DEF getServer
<1> QED
  BY <1>1, <1>2
-----------------------------------------------------------------------------
(***************************************************************************)
(* The types of the variables                                              *)
(***************************************************************************)
Shown == [received : BOOLEAN, item : Item]
History == UNION {[D -> Item] : D \in SUBSET Nat}

\* The rest by the items I that may be under way.
Packet(I) == [what : {"item", "text", "file"}, item : I, whole : BOOLEAN]
Transfer(I) == [item : I, source : Nid, pc : {"get", "resume", "callback"}]
Links(I) == [Nid -> [Nid -> Seq(Packet(I))]]
Sending(I) == [item : I, dest : Int]

ConversationType ==
    /\ sequence_numbers \in [Client -> [Client -> Nat]]
    /\ received \in [Client -> [Client -> History]]
    /\ messages \in [Client -> [Client -> Seq(Shown)]]
LinksType(I) == queue \in Links(I) /\ wire \in Links(I)
ReceivingType(I) ==
    /\ deputies \in [Nid -> SUBSET Transfer(I)]
    /\ todos \in [Nid -> Seq(Transfer(I))]
Typed(I) ==
    /\ maps \in [Nid -> Maps]
    /\ addresses \in [Nid -> SUBSET Nid]
    /\ ConversationType
    /\ \A n \in Client : call[n] # NULL => call[n] \in Sending(I)
    /\ DOMAIN call = Client
    /\ LinksType(I)
    /\ ReceivingType(I)
    /\ made \in [Client -> SUBSET Item] /\ \A n \in Client : IsFiniteSet(made[n])
    /\ handled \in [Client -> SUBSET I]
TypeOK == Typed(Item)

\* Neither map, nor the order of a conversation, is changed by a handler but through
\* the operators above.
Inv(I) == Typed(I) /\ Agree /\ Sorted
-----------------------------------------------------------------------------
(***************************************************************************)
(* add_received                                                            *)
(***************************************************************************)
\* An item that is put at its place leaves the marked ones increasing: it goes before
\* the first marked one that is not less, and is dropped when that has its index.
LEMMA InsertedIncreases ==
    ASSUME NEW items \in Seq(Shown), NEW e \in Shown, Increasing(items)
    PROVE  Inserted(items, e) \in Seq(Shown) /\ Increasing(Inserted(items, e))
<1> DEFINE at == {i \in DOMAIN items : MayMatch(items[i]) /\ Stops(items[i], e)}
<1>1. /\ Len(items) \in Nat /\ DOMAIN items = 1 .. Len(items)
      /\ \A i \in 1 .. Len(items) : items[i] \in Shown
  OBVIOUS
<1>2. /\ e.item.index \in Nat /\ e.received \in BOOLEAN
      /\ \A i \in 1 .. Len(items) : items[i].item.index \in Nat /\ items[i].received \in BOOLEAN
  BY <1>1 DEF Shown, Item
<1>3. \A i \in 1 .. Len(items) :
        i \notin at /\ items[i].received => items[i].item.index < e.item.index
  BY <1>1, <1>2 DEF MayMatch, Stops
<1>4. CASE at = {}
  <2>1. Inserted(items, e) = Append(items, e)
    BY <1>4 DEF Inserted
  <2>2. /\ Append(items, e) \in Seq(Shown)
        /\ DOMAIN Append(items, e) = 1 .. Len(items) + 1
        /\ \A i \in 1 .. Len(items) + 1 :
              Append(items, e)[i] = IF i <= Len(items) THEN items[i] ELSE e
    OBVIOUS
  <2>3. ASSUME NEW i \in 1 .. Len(items) + 1, NEW j \in 1 .. Len(items) + 1, i < j,
               Append(items, e)[i].received, Append(items, e)[j].received
        PROVE  Append(items, e)[i].item.index < Append(items, e)[j].item.index
    <3>1. CASE j <= Len(items)
      BY <1>1, <2>2, <2>3, <3>1 DEF Increasing
    <3>2. CASE j = Len(items) + 1
      BY <1>1, <1>3, <1>4, <2>2, <2>3, <3>2
    <3> QED
      BY <1>1, <3>1, <3>2
  <2> QED
    BY <2>1, <2>2, <2>3 DEF Increasing
<1>5. CASE at # {}
  <2> DEFINE p == Min(at)
             t == InsertAt(items, p, e)
  <2>1. at \in SUBSET Nat
    BY <1>1
  <2>2. p \in at /\ \A q \in at : p <= q
    BY <1>5, <2>1, MinOf
  <2> HIDE DEF p
  <2>3. /\ p \in 1 .. Len(items) /\ items[p].received
        /\ items[p].item.index >= e.item.index
    BY <1>1, <2>2 DEF MayMatch, Stops
  <2>4. CASE items[p].item.index = e.item.index
    <3>1. Inserted(items, e) = items
      BY <1>5, <2>4 DEF Inserted, p
    <3> QED
      BY <3>1
  <2>5. CASE items[p].item.index # e.item.index
    <3>1. Inserted(items, e) = t
      BY <1>5, <2>5 DEF Inserted, p
    <3>2. /\ t \in Seq(Shown) /\ Len(t) = Len(items) + 1
          /\ \A j \in 1 .. Len(items) + 1 :
                t[j] = IF j < p THEN items[j] ELSE IF j = p THEN e ELSE items[j - 1]
      BY <2>3, InsertAtOf
    <3> HIDE DEF t
    <3>3. DOMAIN t = 1 .. Len(items) + 1
      BY <3>2
    <3>4. \A j \in 1 .. Len(items) : j < p /\ items[j].received
                => items[j].item.index < e.item.index
      BY <1>1, <1>3, <2>2, <2>3
    <3>5. e.item.index < items[p].item.index
      BY <1>2, <2>3, <2>5
    <3>6. \A j \in 1 .. Len(items) : j >= p /\ items[j].received
                => e.item.index < items[j].item.index
      BY <1>1, <1>2, <2>3, <3>5 DEF Increasing
    <3>7. ASSUME NEW i \in 1 .. Len(items) + 1, NEW j \in 1 .. Len(items) + 1, i < j,
                 t[i].received, t[j].received
          PROVE  t[i].item.index < t[j].item.index
      <4>1. CASE j < p
        <5>1. t[i] = items[i] /\ t[j] = items[j] /\ i \in DOMAIN items /\ j \in DOMAIN items
          BY <1>1, <2>3, <3>2, <3>7, <4>1
        <5> QED
          BY <3>7, <5>1 DEF Increasing
      <4>2. CASE j = p
        <5>1. t[i] = items[i] /\ t[j] = e /\ i \in 1 .. Len(items)
          BY <1>1, <2>3, <3>2, <3>7, <4>2
        <5> QED
          BY <3>4, <3>7, <4>2, <5>1
      <4>3. CASE j > p /\ i < p
        <5>1. /\ t[i] = items[i] /\ t[j] = items[j - 1]
              /\ i \in 1 .. Len(items) /\ j - 1 \in 1 .. Len(items) /\ i < j - 1
          BY <1>1, <2>3, <3>2, <3>7, <4>3
        <5> QED
          BY <1>1, <3>7, <5>1 DEF Increasing
      <4>4. CASE j > p /\ i = p
        <5>1. t[i] = e /\ t[j] = items[j - 1] /\ j - 1 \in 1 .. Len(items) /\ j - 1 >= p
          BY <1>1, <2>3, <3>2, <3>7, <4>4
        <5> QED
          BY <3>6, <3>7, <5>1
      <4>5. CASE j > p /\ i > p
        <5>1. /\ t[i] = items[i - 1] /\ t[j] = items[j - 1]
              /\ i - 1 \in 1 .. Len(items) /\ j - 1 \in 1 .. Len(items) /\ i - 1 < j - 1
          BY <1>1, <2>3, <3>2, <3>7, <4>5
        <5> QED
          BY <1>1, <3>7, <5>1 DEF Increasing
      <4>6. j < p \/ j = p \/ (j > p /\ (i < p \/ i = p \/ i > p))
        BY <1>1, <2>3
      <4> QED
        BY <4>1, <4>2, <4>3, <4>4, <4>5, <4>6, Zenon
    <3> QED
      BY <3>1, <3>2, <3>3, <3>7 DEF Increasing
  <2> QED
    BY <2>4, <2>5
<1> QED
  BY <1>4, <1>5
-----------------------------------------------------------------------------
(***************************************************************************)
(* Packets: what the operators of the connections return.                  *)
(***************************************************************************)
LEMMA EntriesType ==
    ASSUME NEW I \in SUBSET Item, NEW it \in I
    PROVE  /\ \A what \in {"item", "text", "file"} : Entry(what, it) \in Packet(I)
           /\ Entries(it) \in Seq(Packet(I)) /\ Len(Entries(it)) = 2
           /\ it.itype \in {"text", "file"} /\ it.from \in Client /\ it.to \in Client
           /\ it.index \in Nat
  BY DEF Entries, Entry, Packet, Item

\* A part of a queue is a queue.
LEMMA PartType ==
    ASSUME NEW S, NEW q \in Seq(S), NEW m \in 1 .. Len(q) + 1, NEW n \in 0 .. Len(q)
    PROVE  SubSeq(q, m, n) \in Seq(S)
<1>1. \A i \in m .. n : q[i] \in S
  OBVIOUS
<1> QED
  BY <1>1, SubSeqProperties

LEMMA HeadTail ==
    ASSUME NEW S, NEW q \in Seq(S), q # << >>
    PROVE  Head(q) \in S /\ Tail(q) \in Seq(S) /\ Len(q) >= 1
  OBVIOUS

LEMMA AppendType ==
    ASSUME NEW S, NEW q \in Seq(S), NEW e \in S
    PROVE  Append(q, e) \in Seq(S)
  OBVIOUS

LEMMA ConcatType ==
    ASSUME NEW S, NEW q \in Seq(S), NEW r \in Seq(S)
    PROVE  q \o r \in Seq(S)
  OBVIOUS

\* A queue with a stream that is closed is a queue.
LEMMA WrittenType ==
    ASSUME NEW I, NEW q \in Seq(Packet(I)), NEW it
    PROVE  Written(q, it) \in Seq(Packet(I))
<1>1. /\ Len(q) \in Nat /\ DOMAIN q = 1 .. Len(q)
      /\ \A i \in 1 .. Len(q) : q[i] \in Packet(I)
  OBVIOUS
<1>2. \A i \in 1 .. Len(q) : [q[i] EXCEPT !.whole = TRUE] \in Packet(I)
  BY <1>1 DEF Packet
<1> QED
  BY <1>1, <1>2 DEF Written

\* One queue of one node changes.
LEMMA LinksUpdate ==
    ASSUME NEW I, NEW c \in Links(I), NEW n, NEW d, NEW q \in Seq(Packet(I))
    PROVE  [c EXCEPT ![n][d] = q] \in Links(I)
  BY DEF Links

\* One queue of the server, when d is a node; else none.
LEMMA UpdateTarget ==
    ASSUME NEW I, NEW c \in Links(I), Server \in Nid, NEW d, NEW q \in Seq(Packet(I))
    PROVE  [c EXCEPT ![Server][d] = c[Server][d] \o q] \in Links(I)
<1>1. CASE d \in Nid
  <2>1. c[Server][d] \in Seq(Packet(I))
    BY <1>1 DEF Links
  <2>2. c[Server][d] \o q \in Seq(Packet(I))
    BY <2>1, ConcatType
  <2> QED
    BY <2>2, LinksUpdate
<1>2. CASE d \notin Nid
  BY <1>2 DEF Links
<1> QED
  BY <1>1, <1>2

LEMMA SentType ==
    ASSUME NEW I \in SUBSET Item, NEW n \in Nid, NEW d \in Nid, NEW it \in I, LinksType(I),
           Sent(n, d, it)
    PROVE  LinksType(I)'
<1> DEFINE now == IF queue[n][d] # << >> THEN 0 ELSE IF it.itype = "text" THEN 2 ELSE 1
           a == SubSeq(Entries(it), 1, now)
           b == SubSeq(Entries(it), now + 1, 2)
<1>1. now \in 0 .. 2
  OBVIOUS
<1>2. a \in Seq(Packet(I)) /\ b \in Seq(Packet(I))
  BY <1>1, EntriesType, PartType
<1>3. /\ wire' = [wire EXCEPT ![n][d] = wire[n][d] \o a]
      /\ queue' = [queue EXCEPT ![n][d] = queue[n][d] \o b]
  BY DEF Sent
<1> HIDE DEF a, b
<1>4. wire[n][d] \in Seq(Packet(I)) /\ queue[n][d] \in Seq(Packet(I))
  BY DEF LinksType, Links
<1>5. wire[n][d] \o a \in Seq(Packet(I)) /\ queue[n][d] \o b \in Seq(Packet(I))
  BY <1>2, <1>4, ConcatType
<1> QED
  BY <1>3, <1>5, LinksUpdate DEF LinksType
-----------------------------------------------------------------------------
(***************************************************************************)
(* Each step keeps the invariant.                                          *)
(***************************************************************************)
LEMMA NoHistory == << >> \in History
<1>1. << >> \in [{} -> Item] /\ {} \in SUBSET Nat
  OBVIOUS
<1> QED
  BY <1>1 DEF History

\* At the start no node was told more than its own place.
LEMMA InitOK ==
    ASSUME NEW I \in SUBSET Item, Init
    PROVE  Inv(I)
<1>1. maps \in [Nid -> Maps] /\ Agree
  <2>1. \A n \in Nid : Home[n] \in datacenter
    BY MessengerAssumption
  <2> QED
    BY <2>1, NoMapsAgree, SetNodeLocationAgrees DEF Init, Agree
<1>2. addresses \in [Nid -> SUBSET Nid]
  BY MessengerAssumption DEF Init
<1>3. ConversationType /\ Sorted
  <2>1. << >> \in History
    BY NoHistory
  <2> QED
    BY <2>1 DEF Init, ConversationType, Sorted, Increasing
<1>4. LinksType(I) /\ ReceivingType(I)
  BY DEF Init, LinksType, Links, ReceivingType
<1>5. DOMAIN call = Client /\ \A n \in Client : call[n] = NULL
  BY DEF Init
<1>6. made \in [Client -> SUBSET Item] /\ \A n \in Client : IsFiniteSet(made[n])
  BY FS_EmptySet DEF Init
<1>7. handled \in [Client -> SUBSET I]
  BY DEF Init
<1> QED
  BY <1>1, <1>2, <1>3, <1>4, <1>5, <1>6, <1>7 DEF Inv, Typed

\* What is said of nodes changes the maps by setNodeLocation and getNodeLocation only.
LEMMA SetLocationOK ==
    ASSUME NEW I \in SUBSET Item, Inv(I),
           NEW n \in Client, NEW at \in Locations, at[1] = n, SetLocation(n, at[2], at[3])
    PROVE  Inv(I)'
<1>1. at[2] \in Nid /\ at[3] \in datacenter /\ n \in Nid
  BY MessengerAssumption
<1>2. maps[n] \in Maps /\ MapsAgree(maps[n])
  BY <1>1 DEF Inv, Typed, Agree
<1>3. maps' = [maps EXCEPT ![n] = setNodeLocation(maps[n], at[2], at[3])]
  BY DEF SetLocation
<1>4. /\ setNodeLocation(maps[n], at[2], at[3]) \in Maps
      /\ MapsAgree(setNodeLocation(maps[n], at[2], at[3]))
  BY <1>1, <1>2, SetNodeLocationAgrees
<1>5. maps' \in [Nid -> Maps] /\ Agree'
  BY <1>1, <1>3, <1>4 DEF Inv, Typed, Agree
<1> QED
  BY <1>5 DEF Inv, Typed, SetLocation, conversation, links, receiving, history,
              ConversationType, LinksType, ReceivingType, Sorted

LEMMA GetLocationOK ==
    ASSUME NEW I \in SUBSET Item, Inv(I),
           NEW n \in Nid, NEW d \in Nid, GetLocation(n, d)
    PROVE  Inv(I)'
<1>1. maps[n] \in Maps /\ MapsAgree(maps[n])
  BY DEF Inv, Typed, Agree
<1>2. maps' = [maps EXCEPT ![n] = getNodeLocation(maps[n], d)]
  BY DEF GetLocation
<1>3. getNodeLocation(maps[n], d) \in Maps /\ MapsAgree(getNodeLocation(maps[n], d))
  BY <1>1, GetNodeLocationAgrees
<1>4. maps' \in [Nid -> Maps] /\ Agree'
  BY <1>2, <1>3 DEF Inv, Typed, Agree
<1> QED
  BY <1>4 DEF Inv, Typed, GetLocation, conversation, links, receiving, history,
              ConversationType, LinksType, ReceivingType, Sorted

LEMMA SetNodeAddrOK ==
    ASSUME NEW I \in SUBSET Item, Inv(I),
           NEW n \in Nid, NEW d \in Nid, SetNodeAddr(n, d)
    PROVE  Inv(I)'
<1>1. addresses' \in [Nid -> SUBSET Nid]
  BY DEF Inv, Typed, SetNodeAddr
<1> QED
  BY <1>1 DEF Inv, Typed, SetNodeAddr, conversation, links, receiving, history,
              ConversationType, LinksType, ReceivingType, Sorted, Agree

LEMMA NetIdleOK ==
    ASSUME NEW I \in SUBSET Item, Inv(I), NEW n \in Nid, NetIdle(n)
    PROVE  Inv(I)'
<1>1. PICK d \in Nid :
        /\ queue[n][d] # << >>
        /\ wire' = [wire EXCEPT ![n][d] = Append(wire[n][d], Head(queue[n][d]))]
        /\ queue' = [queue EXCEPT ![n][d] = Tail(queue[n][d])]
  BY DEF NetIdle
<1>2. wire[n][d] \in Seq(Packet(I)) /\ queue[n][d] \in Seq(Packet(I))
  BY DEF Inv, Typed, LinksType, Links
<1>3. /\ Append(wire[n][d], Head(queue[n][d])) \in Seq(Packet(I))
      /\ Tail(queue[n][d]) \in Seq(Packet(I))
  BY <1>1, <1>2, HeadTail, AppendType
<1>4. LinksType(I)'
  BY <1>1, <1>3, LinksUpdate DEF Inv, Typed, LinksType
<1> QED
  BY <1>4 DEF Inv, Typed, NetIdle, conversation, receiving, history,
              ConversationType, ReceivingType, Sorted, Agree

LEMMA FileSentOK ==
    ASSUME NEW I \in SUBSET Item, Inv(I), NEW n \in Nid, NEW d \in Nid, FileSent(n, d)
    PROVE  Inv(I)'
<1>1. PICK i \in DOMAIN queue[n][d] :
        queue' = [queue EXCEPT ![n][d] = Written(queue[n][d], queue[n][d][i].item)]
  BY DEF FileSent
<1>2. queue[n][d] \in Seq(Packet(I))
  BY DEF Inv, Typed, LinksType, Links
<1>3. Written(queue[n][d], queue[n][d][i].item) \in Seq(Packet(I))
  BY <1>2, WrittenType
<1>4. LinksType(I)'
  BY <1>1, <1>3, LinksUpdate DEF Inv, Typed, LinksType, FileSent
<1> QED
  BY <1>4 DEF Inv, Typed, FileSent, conversation, receiving, history,
              ConversationType, ReceivingType, Sorted, Agree

LEMMA BeginOK ==
    ASSUME NEW I \in SUBSET Item, Inv(I),
           NEW n \in Client, NEW d \in Client, NEW kind \in Kinds[n], Begin(n, d, kind),
           ItemMsg(n, d, kind) \in I
    PROVE  Inv(I)'
<1> DEFINE it == ItemMsg(n, d, kind)
<1>1. sequence_numbers[n][d] \in Nat /\ IsFiniteSet(made[n]) /\ made[n] \in SUBSET Item
  BY DEF Inv, Typed, ConversationType
<1>2. it \in Item
  <2>1. Cardinality(made[n]) \in Nat
    BY <1>1, FS_CardinalityType
  <2>2. kind \in {"text", "file"}
    BY MessengerAssumption
  <2> QED
    BY <1>1, <2>1, <2>2 DEF Item, ItemMsg
<1>3. /\ call' = [call EXCEPT ![n] = [item |-> it, dest |-> d]]
      /\ made' = [made EXCEPT ![n] = made[n] \cup {it}]
      /\ sequence_numbers' = [sequence_numbers EXCEPT ![n][d] = @ + 1]
      /\ it \in I
      /\ UNCHANGED <<maps, addresses, received, messages, links, receiving, handled>>
  BY DEF Begin
<1> HIDE DEF it
<1>4. DOMAIN call' = Client /\ \A c \in Client : call'[c] # NULL => call'[c] \in Sending(I)
  <2>1. d \in Int
    BY DatacentersAssumption, MessengerAssumption
  <2> QED
    BY <1>2, <1>3, <2>1 DEF Inv, Typed, Sending
<1>5. made' \in [Client -> SUBSET Item] /\ \A c \in Client : IsFiniteSet(made'[c])
  <2>1. IsFiniteSet(made[n] \cup {it})
    BY <1>1, FS_AddElement
  <2> QED
    BY <1>2, <1>3, <2>1 DEF Inv, Typed
<1>6. ConversationType' /\ Sorted'
  BY <1>1, <1>3 DEF Inv, Typed, ConversationType, Sorted
<1>7. LinksType(I)' /\ ReceivingType(I)' /\ Agree'
  BY <1>3 DEF Inv, Typed, links, receiving, LinksType, ReceivingType, Agree
<1> QED
  BY <1>3, <1>4, <1>5, <1>6, <1>7 DEF Inv, Typed

\* What a client sends itself is not marked, wherever it comes in the conversation.
LEMMA SentIncreases ==
    ASSUME NEW items \in Seq(Shown), Increasing(items), NEW it \in Item
    PROVE  /\ Append(items, [received |-> FALSE, item |-> it]) \in Seq(Shown)
           /\ Increasing(Append(items, [received |-> FALSE, item |-> it]))
<1> DEFINE e == [received |-> FALSE, item |-> it]
<1>1. e \in Shown /\ ~e.received
  BY DEF Shown
<1> HIDE DEF e
<1>2. /\ Append(items, e) \in Seq(Shown)
      /\ DOMAIN items = 1 .. Len(items) /\ Len(items) \in Nat
      /\ DOMAIN Append(items, e) = 1 .. Len(items) + 1
      /\ \A i \in 1 .. Len(items) + 1 :
            Append(items, e)[i] = IF i <= Len(items) THEN items[i] ELSE e
  BY <1>1
<1>3. ASSUME NEW i \in 1 .. Len(items) + 1, NEW j \in 1 .. Len(items) + 1, i < j,
             Append(items, e)[i].received, Append(items, e)[j].received
      PROVE  Append(items, e)[i].item.index < Append(items, e)[j].item.index
  <2>1. i \in 1 .. Len(items) /\ j \in 1 .. Len(items)
    BY <1>1, <1>2, <1>3
  <2>2. Append(items, e)[i] = items[i] /\ Append(items, e)[j] = items[j]
    BY <1>2, <2>1
  <2> QED
    BY <1>2, <1>3, <2>1, <2>2 DEF Increasing
<1>4. Increasing(Append(items, e))
  BY <1>2, <1>3 DEF Increasing
<1> QED
  BY <1>2, <1>4 DEF e

LEMMA SendOK ==
    ASSUME NEW I \in SUBSET Item, Inv(I), NEW n \in Client, Send(n)
    PROVE  Inv(I)'
<1> DEFINE it == call[n].item
           e == [received |-> FALSE, item |-> it]
<1>1. it \in I /\ call[n].dest \in Nid /\ n \in Nid /\ it.to \in Client
  BY MessengerAssumption DEF Inv, Typed, Send, Sending, Item
<1>2. /\ Sent(n, call[n].dest, it)
      /\ messages' = [messages EXCEPT ![n][it.to] = Append(messages[n][it.to], e)]
      /\ call' = [call EXCEPT ![n] = NULL]
      /\ UNCHANGED <<maps, addresses, sequence_numbers, received, receiving, made, handled>>
  BY DEF Send, history
<1>3. LinksType(I)'
  BY <1>1, <1>2, SentType DEF Inv, Typed
<1>4. messages[n][it.to] \in Seq(Shown) /\ Increasing(messages[n][it.to])
  BY <1>1 DEF Inv, Typed, ConversationType, Sorted
<1>5. /\ Append(messages[n][it.to], e) \in Seq(Shown)
      /\ Increasing(Append(messages[n][it.to], e))
  BY <1>1, <1>4, SentIncreases
<1> HIDE DEF it, e
<1>6. ConversationType' /\ Sorted'
  BY <1>1, <1>2, <1>5 DEF Inv, Typed, ConversationType, Sorted
<1>7. DOMAIN call' = Client /\ \A c \in Client : call'[c] # NULL => call'[c] \in Sending(I)
  BY <1>2 DEF Inv, Typed
<1> QED
  BY <1>2, <1>3, <1>6, <1>7 DEF Inv, Typed, receiving, ReceivingType, Agree

LEMMA RetryOK ==
    ASSUME NEW I \in SUBSET Item, Inv(I), NEW n \in Client, Retry(n)
    PROVE  Inv(I)'
<1>1. call[n] \in Sending(I) /\ maps[n] \in Maps
  BY MessengerAssumption DEF Inv, Typed, Retry
<1>2. getServer(maps[n]) \in Int
  BY <1>1, GetServerType
<1>3. call' = [call EXCEPT ![n] = [call[n] EXCEPT !.dest = getServer(maps[n])]]
  BY DEF Retry
<1>4. [call[n] EXCEPT !.dest = getServer(maps[n])] \in Sending(I)
  BY <1>1, <1>2 DEF Sending
<1>5. DOMAIN call' = Client /\ \A c \in Client : call'[c] # NULL => call'[c] \in Sending(I)
  BY <1>3, <1>4 DEF Inv, Typed
<1> QED
  BY <1>5 DEF Inv, Typed, Retry, conversation, links, receiving, history,
              ConversationType, LinksType, ReceivingType, Sorted, Agree

\* What is held by index, with one item more.
LEMMA HistoryWith ==
    ASSUME NEW h \in History, NEW it \in Item
    PROVE  [i \in DOMAIN h \cup {it.index} |-> IF i = it.index THEN it ELSE h[i]] \in History
<1>1. it.index \in Nat
  BY DEF Item
<1>2. PICK D \in SUBSET Nat : h \in [D -> Item]
  BY DEF History
<1> DEFINE E == D \cup {it.index}
<1>3. E \in SUBSET Nat /\ DOMAIN h \cup {it.index} = E
  BY <1>1, <1>2
<1>4. [i \in E |-> IF i = it.index THEN it ELSE h[i]] \in [E -> Item]
  BY <1>2
<1> QED
  BY <1>3, <1>4 DEF History

\* add_received, from the main thread or as a todo.
LEMMA AddReceivedOK ==
    ASSUME NEW I \in SUBSET Item, Inv(I),
           NEW n \in Client, NEW it \in I, AddReceived(n, it),
           UNCHANGED sequence_numbers
    PROVE  ConversationType' /\ Sorted' /\ handled' \in [Client -> SUBSET I]
<1>1. it \in Item /\ it.from \in Client /\ it.index \in Nat
  BY DEF Item
<1>2. PICK mark \in BOOLEAN :
        messages' = [messages EXCEPT ![n][it.from] =
                        Inserted(messages[n][it.from], [received |-> mark, item |-> it])]
  BY DEF AddReceived
<1> DEFINE e == [received |-> mark, item |-> it]
           new == Inserted(messages[n][it.from], e)
<1>3. e \in Shown
  BY DEF Shown
<1>4. messages[n][it.from] \in Seq(Shown) /\ Increasing(messages[n][it.from])
  BY <1>1 DEF Inv, Typed, ConversationType, Sorted
<1>5. new \in Seq(Shown) /\ Increasing(new)
  BY <1>3, <1>4, InsertedIncreases
<1>6. messages' = [messages EXCEPT ![n][it.from] = new]
  BY <1>2
<1> HIDE DEF new
<1>7. messages' \in [Client -> [Client -> Seq(Shown)]] /\ Sorted'
  BY <1>1, <1>5, <1>6 DEF Inv, Typed, ConversationType, Sorted
<1> DEFINE h == received[n][it.from]
           k == [i \in DOMAIN h \cup {it.index} |-> IF i = it.index THEN it ELSE h[i]]
<1>8. received \in [Client -> [Client -> History]]
  BY DEF Inv, Typed, ConversationType
<1>9. k \in History
  BY <1>1, <1>8, HistoryWith
<1>10. received' = [received EXCEPT ![n][it.from] = k]
  BY DEF AddReceived
<1> HIDE DEF k, h
<1>11. received' \in [Client -> [Client -> History]]
  BY <1>1, <1>8, <1>9, <1>10
<1>12. handled' \in [Client -> SUBSET I]
  BY DEF AddReceived, Inv, Typed
<1> QED
  BY <1>7, <1>11, <1>12 DEF Inv, Typed, ConversationType

\* What waits on a wire.
LEMMA HeardType ==
    ASSUME NEW I \in SUBSET Item, Inv(I),
           NEW n \in Nid, NEW s \in Nid, NEW kind, Heard(n, s, kind)
    PROVE  /\ wire[s][n] \in Seq(Packet(I)) /\ wire[s][n] # << >>
           /\ Head(wire[s][n]).item \in I
           /\ Tail(wire[s][n]) \in Seq(Packet(I))
           /\ kind = "text" => SubSeq(wire[s][n], 3, Len(wire[s][n])) \in Seq(Packet(I))
<1>1. wire[s][n] \in Seq(Packet(I)) /\ wire[s][n] # << >>
  BY DEF Inv, Typed, LinksType, Links, Heard
<1>2. Head(wire[s][n]) \in Packet(I) /\ Tail(wire[s][n]) \in Seq(Packet(I))
  BY <1>1, HeadTail
<1>3. ASSUME kind = "text"
      PROVE  SubSeq(wire[s][n], 3, Len(wire[s][n])) \in Seq(Packet(I))
  <2>1. Len(wire[s][n]) >= 2
    BY <1>3 DEF Heard
  <2>2. Len(wire[s][n]) \in Nat
    BY <1>1
  <2> QED
    BY <1>1, <2>1, <2>2, PartType
<1> QED
  BY <1>1, <1>2, <1>3 DEF Packet

LEMMA HandleTextOK ==
    ASSUME NEW I \in SUBSET Item, Inv(I), NEW n \in Nid, NEW s \in Nid, HandleText(n, s)
    PROVE  Inv(I)'
<1> DEFINE it == Head(wire[s][n]).item
           rest == SubSeq(wire[s][n], 3, Len(wire[s][n]))
<1>1. /\ n \in Client /\ Heard(n, s, "text") /\ AddReceived(n, it)
      /\ wire' = [wire EXCEPT ![s][n] = rest]
      /\ UNCHANGED <<maps, addresses, sequence_numbers, call, queue, receiving, made>>
  BY DEF HandleText
<1>2. it \in I /\ rest \in Seq(Packet(I))
  BY <1>1, HeardType
<1> HIDE DEF it, rest
<1>3. ConversationType' /\ Sorted' /\ handled' \in [Client -> SUBSET I]
  BY <1>1, <1>2, AddReceivedOK
<1>4. LinksType(I)'
  BY <1>1, <1>2, LinksUpdate DEF Inv, Typed, LinksType
<1> QED
  BY <1>1, <1>3, <1>4 DEF Inv, Typed, receiving, ReceivingType, Agree

\* recv_file gives a deputy what it is to receive.
LEMMA RecvFileType ==
    ASSUME NEW I \in SUBSET Item, Inv(I),
           NEW n \in Nid, NEW s \in Nid, NEW it \in I, RecvFile(n, s, it),
           UNCHANGED todos
    PROVE  ReceivingType(I)'
<1>1. [item |-> it, source |-> s, pc |-> "get"] \in Transfer(I)
  BY DEF Transfer
<1> QED
  BY <1>1 DEF Inv, Typed, ReceivingType, RecvFile

LEMMA HandleFileOK ==
    ASSUME NEW I \in SUBSET Item, Inv(I), NEW n \in Nid, NEW s \in Nid, HandleFile(n, s)
    PROVE  Inv(I)'
<1>1. /\ Heard(n, s, "file") /\ RecvFile(n, s, Head(wire[s][n]).item)
      /\ wire' = [wire EXCEPT ![s][n] = Tail(wire[s][n])]
      /\ UNCHANGED <<maps, addresses, conversation, call, queue, todos, history>>
  BY DEF HandleFile
<1>2. Head(wire[s][n]).item \in I /\ Tail(wire[s][n]) \in Seq(Packet(I))
  BY <1>1, HeardType
<1>3. ReceivingType(I)'
  BY <1>1, <1>2, RecvFileType
<1>4. LinksType(I)'
  BY <1>1, <1>2, LinksUpdate DEF Inv, Typed, LinksType
<1> QED
  BY <1>1, <1>3, <1>4 DEF Inv, Typed, conversation, history, ConversationType, Sorted, Agree

\* What the server relays goes to a connection, or nowhere when Target is no node.
LEMMA RelayTextOK ==
    ASSUME NEW I \in SUBSET Item, Inv(I), Server \in Nid, NEW s \in Nid, RelayText(s)
    PROVE  Inv(I)'
<1> DEFINE it == Head(wire[s][Server]).item
           tail == SubSeq(wire[s][Server], 3, Len(wire[s][Server]))
           rest == [wire EXCEPT ![s][Server] = tail]
           t == Target(it)
           direct == queue[Server][t] = << >>
<1>1. Heard(Server, s, "text")
  BY DEF RelayText
<1>2. it \in I /\ tail \in Seq(Packet(I))
  BY <1>1, HeardType
<1>3. /\ wire' = IF direct THEN [rest EXCEPT ![Server][t] = @ \o Entries(it)] ELSE rest
      /\ queue' = IF direct THEN queue
                  ELSE [queue EXCEPT ![Server][t] = @ \o Entries(it)]
      /\ UNCHANGED <<maps, addresses, conversation, call, receiving, history>>
  BY DEF RelayText
<1>4. Entries(it) \in Seq(Packet(I))
  BY <1>2, EntriesType
<1> HIDE DEF it, tail
<1>5. rest \in Links(I) /\ queue \in Links(I)
  BY <1>2, LinksUpdate DEF Inv, Typed, LinksType
<1> HIDE DEF rest
<1>6. ASSUME NEW c \in Links(I)
      PROVE  [c EXCEPT ![Server][t] = c[Server][t] \o Entries(it)] \in Links(I)
  BY <1>4, UpdateTarget
<1>7. LinksType(I)'
  BY <1>3, <1>5, <1>6 DEF LinksType
<1> QED
  BY <1>3, <1>7 DEF Inv, Typed, conversation, receiving, history,
                    ConversationType, ReceivingType, Sorted, Agree

LEMMA RelayFileOK ==
    ASSUME NEW I \in SUBSET Item, Inv(I), Server \in Nid, NEW s \in Nid, RelayFile(s)
    PROVE  Inv(I)'
<1> DEFINE it == Head(wire[s][Server]).item
           rest == [wire EXCEPT ![s][Server] = Tail(wire[s][Server])]
           t == Target(it)
           direct == queue[Server][t] = << >>
           item == SubSeq(Entries(it), 1, 1)
           file == SubSeq(Entries(it), 2, 2)
           more == IF direct THEN file ELSE Entries(it)
<1>1. Heard(Server, s, "file")
  BY DEF RelayFile
<1>2. it \in I /\ Tail(wire[s][Server]) \in Seq(Packet(I))
  BY <1>1, HeardType
<1>3. /\ wire' = IF direct THEN [rest EXCEPT ![Server][t] = @ \o item] ELSE rest
      /\ queue' = [queue EXCEPT ![Server][t] = @ \o more]
      /\ RecvFile(Server, s, it)
      /\ UNCHANGED <<maps, addresses, conversation, call, todos, history>>
  BY DEF RelayFile
<1>4. item \in Seq(Packet(I))
  BY <1>2, EntriesType, PartType
<1>5. more \in Seq(Packet(I))
  BY <1>2, EntriesType, PartType
<1>6. rest \in Links(I) /\ queue \in Links(I)
  BY <1>2, LinksUpdate DEF Inv, Typed, LinksType
<1>7. ReceivingType(I)'
  BY <1>2, <1>3, RecvFileType
<1> HIDE DEF it, rest, item, file, more
<1>8. LinksType(I)'
  BY <1>3, <1>4, <1>5, <1>6, UpdateTarget DEF LinksType
<1> QED
  BY <1>3, <1>7, <1>8 DEF Inv, Typed, conversation, history,
                          ConversationType, Sorted, Agree
-----------------------------------------------------------------------------
LEMMA DeputyGetOK ==
    ASSUME NEW I \in SUBSET Item, Inv(I),
           NEW n \in Nid, NEW p \in deputies[n], DeputyGet(n, p)
    PROVE  Inv(I)'
<1>1. /\ wire[p.source][n] # << >>
      /\ wire' = [wire EXCEPT ![p.source][n] = Tail(wire[p.source][n])]
      /\ deputies' = [deputies EXCEPT ![n] =
                        (deputies[n] \ {p}) \cup {[p EXCEPT !.pc = "resume"]}]
      /\ UNCHANGED <<maps, addresses, conversation, call, queue, todos, history>>
  BY DEF DeputyGet
<1>2. p \in Transfer(I)
  BY DEF Inv, Typed, ReceivingType
<1>3. [p EXCEPT !.pc = "resume"] \in Transfer(I) /\ p.source \in Nid
  BY <1>2 DEF Transfer
<1>4. ReceivingType(I)'
  BY <1>1, <1>3 DEF Inv, Typed, ReceivingType
<1>5. wire[p.source][n] \in Seq(Packet(I))
  BY <1>3 DEF Inv, Typed, LinksType, Links
<1>6. Tail(wire[p.source][n]) \in Seq(Packet(I))
  BY <1>1, <1>5, HeadTail
<1>7. LinksType(I)'
  BY <1>1, <1>6, LinksUpdate DEF Inv, Typed, LinksType
<1> QED
  BY <1>1, <1>4, <1>7 DEF Inv, Typed, conversation, history,
                    ConversationType, Sorted, Agree

LEMMA AddTodoOK ==
    ASSUME NEW I \in SUBSET Item, Inv(I),
           NEW n \in Nid, NEW p \in deputies[n], AddTodo(n, p)
    PROVE  Inv(I)'
<1>1. p \in Transfer(I)
  BY DEF Inv, Typed, ReceivingType
<1>2. [p EXCEPT !.pc = "callback"] \in Transfer(I)
  BY <1>1 DEF Transfer
<1>3. Append(todos[n], p) \in Seq(Transfer(I))
  BY <1>1, AppendType DEF Inv, Typed, ReceivingType
<1>4. ReceivingType(I)'
  BY <1>2, <1>3 DEF Inv, Typed, ReceivingType, AddTodo
<1> QED
  BY <1>4 DEF Inv, Typed, AddTodo, conversation, links, history,
              ConversationType, LinksType, Sorted, Agree

\* do_todos takes the first todo.
LEMMA DoTodoType ==
    ASSUME NEW I \in SUBSET Item, Inv(I), NEW n \in Nid, NEW func, DoTodo(n, func)
    PROVE  Head(todos[n]).item \in I /\ todos' \in [Nid -> Seq(Transfer(I))]
<1>1. todos[n] \in Seq(Transfer(I)) /\ todos[n] # << >>
  BY DEF Inv, Typed, ReceivingType, DoTodo
<1>2. Head(todos[n]) \in Transfer(I) /\ Tail(todos[n]) \in Seq(Transfer(I))
  BY <1>1, HeadTail
<1> QED
  BY <1>2 DEF Transfer, Inv, Typed, ReceivingType, DoTodo

LEMMA ResumeOK ==
    ASSUME NEW I \in SUBSET Item, Inv(I), NEW n \in Nid, Resume(n)
    PROVE  Inv(I)'
<1>1. ReceivingType(I)'
  BY DoTodoType DEF Inv, Typed, ReceivingType, Resume
<1> QED
  BY <1>1 DEF Inv, Typed, Resume, conversation, links, history,
              ConversationType, LinksType, Sorted, Agree

LEMMA SetFinishedOK ==
    ASSUME NEW I \in SUBSET Item, Inv(I), NEW n \in Nid, SetFinished(n)
    PROVE  Inv(I)'
<1>1. /\ n \in Client /\ DoTodo(n, "callback") /\ AddReceived(n, Head(todos[n]).item)
      /\ UNCHANGED <<maps, addresses, sequence_numbers, call, links, deputies, made>>
  BY DEF SetFinished
<1>2. Head(todos[n]).item \in I /\ todos' \in [Nid -> Seq(Transfer(I))]
  BY <1>1, DoTodoType
<1>3. ConversationType' /\ Sorted' /\ handled' \in [Client -> SUBSET I]
  BY <1>1, <1>2, AddReceivedOK
<1>4. ReceivingType(I)'
  BY <1>1, <1>2 DEF Inv, Typed, ReceivingType
<1> QED
  BY <1>1, <1>3, <1>4 DEF Inv, Typed, links, LinksType, Agree

LEMMA OnFinishedOK ==
    ASSUME NEW I \in SUBSET Item, Inv(I), Server \in Nid, OnFinished
    PROVE  Inv(I)'
<1> DEFINE it == Head(todos[Server]).item
<1>1. /\ DoTodo(Server, "callback")
      /\ queue' = [queue EXCEPT ![Server] = [d \in Nid |-> Written(queue[Server][d], it)]]
      /\ UNCHANGED <<maps, addresses, conversation, call, wire, suspended, deputies, history>>
  BY DEF OnFinished
<1>2. todos' \in [Nid -> Seq(Transfer(I))]
  BY <1>1, DoTodoType
<1>3. \A d \in Nid : Written(queue[Server][d], it) \in Seq(Packet(I))
  BY WrittenType DEF Inv, Typed, LinksType, Links
<1> HIDE DEF it
<1>4. LinksType(I)'
  BY <1>1, <1>3 DEF Inv, Typed, LinksType, Links
<1>5. ReceivingType(I)'
  BY <1>1, <1>2 DEF Inv, Typed, ReceivingType
<1> QED
  BY <1>1, <1>4, <1>5 DEF Inv, Typed, conversation, history,
                          ConversationType, Sorted, Agree

\* messenger_destroy leaves empty conversations, which have no order to break.
LEMMA DestroyOK ==
    ASSUME NEW I \in SUBSET Item, Inv(I), NEW n \in Client, Destroy(n)
    PROVE  Inv(I)'
<1>1. /\ sequence_numbers' = [sequence_numbers EXCEPT ![n] = [d \in Client |-> 0]]
      /\ messages' = [messages EXCEPT ![n] = [s \in Client |-> << >>]]
      /\ received' = [received EXCEPT ![n] = [s \in Client |-> << >>]]
      /\ UNCHANGED <<made, handled>>
  BY DEF Destroy
<1>2. ConversationType'
  <2>1. << >> \in History
    BY NoHistory
  <2> QED
    BY <1>1, <2>1 DEF Inv, Typed, ConversationType
<1>3. Sorted'
  <2>1. Increasing(<< >>)
    BY DEF Increasing
  <2> QED
    BY <1>1, <2>1 DEF Inv, Typed, ConversationType, Sorted
<1> QED
  BY <1>2, <1>3 DEF Inv, Typed, Destroy, links, receiving, LinksType, ReceivingType, Agree
-----------------------------------------------------------------------------
(***************************************************************************)
(* The theorems                                                            *)
(***************************************************************************)
LEMMA StutterOK ==
    ASSUME NEW I \in SUBSET Item, Inv(I), UNCHANGED vars
    PROVE  Inv(I)'
  BY DEF Inv, Typed, vars, conversation, links, receiving, history,
         ConversationType, LinksType, ReceivingType, Sorted, Agree

LEMMA HandlerOK ==
    ASSUME NEW I \in SUBSET Item, Inv(I), NEW n \in Nid, NEW s \in Nid, Handler(n, s)
    PROVE  Inv(I)'
  BY HandleTextOK, HandleFileOK, RelayTextOK, RelayFileOK DEF Handler

LEMMA NodeOK ==
    ASSUME NEW I \in SUBSET Item, Inv(I), NEW n \in Nid, Node(n)
    PROVE  Inv(I)'
<1>1. CASE NetIdle(n)
  BY <1>1, NetIdleOK
<1>2. CASE Resume(n)
  BY <1>2, ResumeOK
<1>3. ASSUME NEW p \in deputies[n], DeputyGet(n, p) \/ AddTodo(n, p)
      PROVE  Inv(I)'
  BY <1>3, DeputyGetOK, AddTodoOK
<1>4. ASSUME NEW s \in Nid, Accept(n, s) \/ FileSent(n, s) \/ Handler(n, s)
      PROVE  Inv(I)'
  BY <1>4, SetNodeAddrOK, FileSentOK, HandlerOK DEF Accept
<1>5. CASE n = Server /\ OnFinished
  BY <1>5, OnFinishedOK
<1>6. CASE n # Server /\ (Send(n) \/ Retry(n) \/ SetFinished(n))
  <2>1. n \in Client
    BY <1>6, MessengerAssumption
  <2> QED
    BY <1>6, <2>1, SendOK, RetryOK, SetFinishedOK
<1> QED
  BY <1>1, <1>2, <1>3, <1>4, <1>5, <1>6 DEF Node

LEMMA ApplicationOK ==
    ASSUME NEW I \in SUBSET Item, Inv(I), NEW n \in Client, Application(n),
           \A c \in Client : made'[c] \subseteq I
    PROVE  Inv(I)'
<1>1. ASSUME NEW d \in Client, NEW kind \in Kinds[n], Begin(n, d, kind)
      PROVE  Inv(I)'
  <2>1. ItemMsg(n, d, kind) \in made'[n]
    BY <1>1 DEF Begin, Inv, Typed
  <2> QED
    BY <1>1, <2>1, BeginOK
<1> QED
  BY <1>1, SetLocationOK, DestroyOK DEF Application

LEMMA StepOK ==
    ASSUME NEW I \in SUBSET Item, Inv(I), [Next]_vars, \A n \in Client : made'[n] \subseteq I
    PROVE  Inv(I)'
<1>1. CASE \E n \in Nid : Node(n)
  BY <1>1, NodeOK
<1>2. ASSUME NEW at \in Asked, GetLocation(at[1], at[2])
      PROVE  Inv(I)'
  <2>1. at[1] \in Nid /\ at[2] \in Nid
    BY MessengerAssumption
  <2> QED
    BY <1>2, <2>1, GetLocationOK
<1>3. ASSUME NEW by \in Told, SetNodeAddr(by[1], by[2])
      PROVE  Inv(I)'
  <2>1. by[1] \in Nid /\ by[2] \in Nid
    BY MessengerAssumption
  <2> QED
    BY <1>3, <2>1, SetNodeAddrOK
<1>4. CASE Handler(Server, Server)
  <2>1. Server \in Nid
    BY MessengerAssumption
  <2> QED
    BY <1>4, <2>1, HandlerOK
<1>5. CASE \E n \in Client : Application(n)
  BY <1>5, ApplicationOK
<1>6. CASE UNCHANGED vars
  BY <1>6, StutterOK
<1> QED
  BY <1>1, <1>2, <1>3, <1>4, <1>5, <1>6 DEF Next
-----------------------------------------------------------------------------
(***************************************************************************)
(* What was made, handled and kept.                                        *)
(***************************************************************************)
\* The items that a client has made: nothing else is under way.
Issued == {it \in Item : it.from \in Client /\ it \in made[it.from]}

\* A sequence number is unique between a sender and a receiver (messenger.cpp:6), until
\* the sender begins again.
NumberedOnce(n) ==
    \A a \in made[n] :
        /\ a \in Item /\ a.from = n
        /\ n \notin destroyed => a.index < sequence_numbers[n][a.to]
        /\ n \notin destroyed => \A b \in made[n] : a.to = b.to /\ a.index = b.index => a = b

\* What is marked in a conversation was handled.
MarkedHandled(n, s) ==
    \A i \in DOMAIN messages[n][s] : messages[n][s][i].received =>
        messages[n][s][i].item \in handled[n] /\ messages[n][s][i].item.from = s

IInv ==
    /\ Inv(Issued)
    /\ \A n \in Client : NumberedOnce(n)
    /\ \A n, s \in Client : MarkedHandled(n, s)
    /\ Kept

\* The steps that change a conversation.
LEMMA Changes ==
    ASSUME NEW I \in SUBSET Item, Inv(I), [Next]_vars
    PROVE  \/ UNCHANGED <<conversation, history>>
           \/ \E n, d \in Client : \E kind \in Kinds[n] : Begin(n, d, kind)
           \/ \E n \in Client : Send(n)
           \/ \E n \in Client : \E it \in I :
                 AddReceived(n, it) /\ UNCHANGED <<sequence_numbers, made, destroyed>>
           \/ \E n \in Client : Destroy(n)
<1>1. ASSUME NEW n \in Nid, NEW s \in Nid, HandleText(n, s)
      PROVE  \E c \in Client : \E it \in I :
                AddReceived(c, it) /\ UNCHANGED <<sequence_numbers, made, destroyed>>
  <2>1. n \in Client /\ Heard(n, s, "text") /\ AddReceived(n, Head(wire[s][n]).item)
        /\ UNCHANGED <<sequence_numbers, made, destroyed>>
    BY <1>1 DEF HandleText
  <2>2. Head(wire[s][n]).item \in I
    BY <2>1, HeardType
  <2> QED
    BY <2>1, <2>2
<1>2. ASSUME NEW n \in Nid, SetFinished(n)
      PROVE  \E c \in Client : \E it \in I :
                AddReceived(c, it) /\ UNCHANGED <<sequence_numbers, made, destroyed>>
  <2>1. n \in Client /\ DoTodo(n, "callback") /\ AddReceived(n, Head(todos[n]).item)
        /\ UNCHANGED <<sequence_numbers, made, destroyed>>
    BY <1>2 DEF SetFinished
  <2>2. Head(todos[n]).item \in I
    BY <2>1, DoTodoType
  <2> QED
    BY <2>1, <2>2
<1> DEFINE Same == UNCHANGED <<conversation, history>>
<1>3. ASSUME NEW n \in Nid, NEW s \in Nid, HandleFile(n, s) \/ RelayText(s) \/ RelayFile(s)
      PROVE  Same
  BY <1>3 DEF HandleFile, RelayText, RelayFile
<1>4. ASSUME NEW n \in Nid, NEW s \in Nid, Handler(n, s)
      PROVE  Same \/ HandleText(n, s)
  BY <1>3, <1>4 DEF Handler
<1>5. ASSUME NEW n \in Nid,
             \/ NetIdle(n) \/ Resume(n) \/ Retry(n) \/ OnFinished
             \/ \E p \in deputies[n] : DeputyGet(n, p) \/ AddTodo(n, p)
             \/ \E s \in Nid : SetNodeAddr(n, s) \/ FileSent(n, s)
      PROVE  Same
  BY <1>5 DEF NetIdle, Resume, Retry, DeputyGet, AddTodo, OnFinished, SetNodeAddr, FileSent
<1>6. ASSUME NEW n \in Nid, Node(n)
      PROVE  \/ Same \/ (\E c \in Client : Send(c))
             \/ (\E s \in Nid : HandleText(n, s)) \/ SetFinished(n)
  BY <1>4, <1>5, <1>6, MessengerAssumption DEF Node, Accept
<1>7. ASSUME NEW n \in Client, Application(n)
      PROVE  \/ Same \/ (\E c, d \in Client : \E kind \in Kinds[c] : Begin(c, d, kind))
             \/ \E c \in Client : Destroy(c)
  BY <1>7 DEF Application, SetLocation
<1>8. ASSUME NEW at \in Asked, GetLocation(at[1], at[2])
      PROVE  Same
  BY <1>8 DEF GetLocation
<1>9. ASSUME NEW by \in Told, SetNodeAddr(by[1], by[2])
      PROVE  Same
  BY <1>9 DEF SetNodeAddr
<1>10. Server \in Nid
  BY MessengerAssumption
<1>11. ASSUME UNCHANGED vars
       PROVE  Same
  BY <1>11 DEF vars
<1> HIDE DEF Same
<1>12. \/ Same \/ (\E n \in Client : Send(n))
       \/ (\E n \in Nid : \E s \in Nid : HandleText(n, s)) \/ (\E n \in Nid : SetFinished(n))
       \/ (\E c, d \in Client : \E kind \in Kinds[c] : Begin(c, d, kind))
       \/ (\E c \in Client : Destroy(c))
  <2>1. CASE \E n \in Nid : Node(n)
    BY <1>6, <2>1
  <2>2. CASE \E at \in Asked : GetLocation(at[1], at[2])
    BY <1>8, <2>2
  <2>3. CASE \E by \in Told : SetNodeAddr(by[1], by[2])
    BY <1>9, <2>3
  <2>4. CASE Handler(Server, Server)
    BY <1>4, <1>10, <2>4
  <2>5. CASE \E n \in Client : Application(n)
    BY <1>7, <2>5
  <2>6. CASE UNCHANGED vars
    BY <1>11, <2>6
  <2> QED
    BY <2>1, <2>2, <2>3, <2>4, <2>5, <2>6 DEF Next
<1> QED
  BY <1>1, <1>2, <1>12 DEF Same

\* What add_received does to a conversation: nothing leaves it, and the item comes in
\* unless a marked one has its index.
LEMMA InsertedKeeps ==
    ASSUME NEW items \in Seq(Shown), NEW e \in Shown
    PROVE  /\ \A i \in DOMAIN items :
                 \E j \in DOMAIN Inserted(items, e) : Inserted(items, e)[j] = items[i]
           /\ \A j \in DOMAIN Inserted(items, e) :
                 \/ Inserted(items, e)[j] = e
                 \/ \E i \in DOMAIN items : Inserted(items, e)[j] = items[i]
           /\ \/ \E j \in DOMAIN Inserted(items, e) : Inserted(items, e)[j] = e
              \/ \E i \in DOMAIN items :
                    items[i].received /\ items[i].item.index = e.item.index
<1> DEFINE at == {i \in DOMAIN items : MayMatch(items[i]) /\ Stops(items[i], e)}
           p == Min(at)
           k == Len(items)
<1>1. k \in Nat /\ DOMAIN items = 1 .. k
  OBVIOUS
<1>2. CASE at = {}
  <2>1. Inserted(items, e) = Append(items, e)
    BY <1>2 DEF Inserted
  <2>2. /\ DOMAIN Append(items, e) = 1 .. k + 1 /\ Append(items, e)[k + 1] = e
        /\ \A i \in 1 .. k : Append(items, e)[i] = items[i]
    OBVIOUS
  <2>3. k + 1 \in 1 .. k + 1 /\ (\A i \in 1 .. k : i \in 1 .. k + 1)
        /\ \A i \in 1 .. k + 1 : i = k + 1 \/ i \in 1 .. k
    BY <1>1
  <2> QED
    BY <1>1, <2>1, <2>2, <2>3
<1>3. CASE at # {}
  <2>1. at \in SUBSET Nat
    BY <1>1
  <2>2. p \in at
    BY <1>3, <2>1, MinOf
  <2>3. p \in 1 .. k /\ items[p].received
    BY <1>1, <2>2 DEF MayMatch
  <2>4. CASE items[p].item.index = e.item.index
    <3>1. Inserted(items, e) = items
      BY <1>3, <2>4 DEF Inserted
    <3> QED
      BY <1>1, <2>3, <2>4, <3>1
  <2>5. CASE items[p].item.index # e.item.index
    <3> DEFINE t == InsertAt(items, p, e)
    <3>1. Inserted(items, e) = t
      BY <1>3, <2>5 DEF Inserted
    <3> HIDE DEF p
    <3>2. /\ t \in Seq(Shown) /\ Len(t) = k + 1
          /\ \A j \in 1 .. k + 1 :
                t[j] = IF j < p THEN items[j] ELSE IF j = p THEN e ELSE items[j - 1]
      BY <2>3, InsertAtOf
    <3> HIDE DEF t, at
    <3>3. DOMAIN t = 1 .. k + 1
      BY <3>2
    <3> HIDE DEF k
    <3>4. p \in 1 .. k + 1 /\ t[p] = e
      BY <1>1, <2>3, <3>2
    <3>5. \A i \in 1 .. k : \E j \in 1 .. k + 1 : t[j] = items[i]
      <4> SUFFICES ASSUME NEW i \in 1 .. k PROVE \E j \in 1 .. k + 1 : t[j] = items[i]
        OBVIOUS
      <4>1. CASE i < p
        <5>1. i \in 1 .. k + 1 /\ t[i] = items[i]
          BY <1>1, <2>3, <3>2, <4>1
        <5> QED
          BY <5>1
      <4>2. CASE ~(i < p)
        <5>1. i + 1 \in 1 .. k + 1 /\ t[i + 1] = items[i]
          BY <1>1, <2>3, <3>2, <4>2
        <5> QED
          BY <5>1
      <4> QED
        BY <4>1, <4>2
    <3>6. \A j \in 1 .. k + 1 : t[j] = e \/ \E i \in 1 .. k : t[j] = items[i]
      <4> SUFFICES ASSUME NEW j \in 1 .. k + 1, j # p PROVE \E i \in 1 .. k : t[j] = items[i]
        BY <3>4
      <4>1. CASE j < p
        <5>1. j \in 1 .. k /\ t[j] = items[j]
          BY <1>1, <2>3, <3>2, <4>1
        <5> QED
          BY <5>1
      <4>2. CASE ~(j < p)
        <5>1. j - 1 \in 1 .. k /\ t[j] = items[j - 1]
          BY <1>1, <2>3, <3>2, <4>2
        <5> QED
          BY <5>1
      <4> QED
        BY <4>1, <4>2
    <3> QED
      BY <1>1, <3>1, <3>3, <3>4, <3>5, <3>6
  <2> QED
    BY <2>4, <2>5
<1> QED
  BY <1>2, <1>3

LEMMA ItemMsgType ==
    ASSUME NEW n \in Client, NEW d \in Client, NEW kind \in Kinds[n],
           sequence_numbers \in [Client -> [Client -> Nat]], IsFiniteSet(made[n])
    PROVE  ItemMsg(n, d, kind) \in Item
<1>1. Cardinality(made[n]) \in Nat
  BY FS_CardinalityType
<1>2. kind \in {"text", "file"}
  BY MessengerAssumption
<1> QED
  BY <1>1, <1>2 DEF Item, ItemMsg

LEMMA SeqMore ==
    ASSUME NEW S, NEW T, S \subseteq T
    PROVE  Seq(S) \subseteq Seq(T)
  OBVIOUS

\* Begin takes a number nobody has, and messenger_destroy ends the claim.
LEMMA NumberedOK ==
    ASSUME IInv, [Next]_vars, NEW n \in Client
    PROVE  NumberedOnce(n)'
<1>0. /\ Inv(Issued) /\ Issued \in SUBSET Item /\ NumberedOnce(n)
      /\ sequence_numbers \in [Client -> [Client -> Nat]] /\ made \in [Client -> SUBSET Item]
      /\ IsFiniteSet(made[n])
  BY DEF IInv, Inv, Typed, ConversationType, Issued
<1>1. PICK I \in SUBSET Item : I = Issued
  BY <1>0
<1>2. Inv(I)
  BY <1>0, <1>1
<1>3. ASSUME UNCHANGED <<sequence_numbers, made, destroyed>>
      PROVE  NumberedOnce(n)'
  BY <1>0, <1>3 DEF NumberedOnce
<1>4. ASSUME NEW m \in Client, NEW d \in Client, NEW kind \in Kinds[m], Begin(m, d, kind)
      PROVE  NumberedOnce(n)'
  <2> DEFINE it == ItemMsg(m, d, kind)
  <2>1. /\ made' = [made EXCEPT ![m] = made[m] \cup {it}] /\ destroyed' = destroyed
        /\ sequence_numbers' = [sequence_numbers EXCEPT ![m][d] = sequence_numbers[m][d] + 1]
    BY <1>4 DEF Begin
  <2>2. CASE m # n
    <3>1. made'[n] = made[n] /\ sequence_numbers'[n] = sequence_numbers[n]
      BY <1>0, <2>1, <2>2
    <3> QED
      BY <1>0, <2>1, <3>1 DEF NumberedOnce
  <2>3. CASE m = n
    <3>1. it.from = n /\ it.to = d /\ it.index = sequence_numbers[n][d]
      BY <2>3 DEF ItemMsg
    <3>2. it \in Item
      BY <1>0, <1>4, <2>3, ItemMsgType
    <3> HIDE DEF it
    <3>3. made'[n] = made[n] \cup {it}
      BY <1>0, <2>1, <2>3
    <3>4. /\ sequence_numbers[n][d] \in Nat
          /\ sequence_numbers'[n][d] = sequence_numbers[n][d] + 1
          /\ \A e \in Client : e # d => sequence_numbers'[n][e] = sequence_numbers[n][e]
      BY <1>0, <2>1, <2>3
    <3>5. \A a \in Item : a.index \in Nat /\ a.to \in Client
      BY DEF Item
    <3>6. ASSUME NEW a \in made[n]
          PROVE  /\ a \in Item /\ a.from = n
                 /\ n \notin destroyed =>
                      a.index < sequence_numbers'[n][a.to]
                        /\ (a.to = d => a.index < sequence_numbers[n][d])
      BY <1>0, <3>4, <3>5 DEF NumberedOnce
    <3>7. n \notin destroyed => it.index < sequence_numbers'[n][it.to]
      BY <3>1, <3>4
    <3>8. ASSUME n \notin destroyed, NEW a \in made'[n], NEW b \in made'[n],
                 a.to = b.to, a.index = b.index
          PROVE  a = b
      <4>1. CASE a \in made[n] /\ b \in made[n]
        BY <1>0, <3>8, <4>1 DEF NumberedOnce
      <4>2. CASE a = it /\ b = it
        BY <4>2
      <4>3. CASE a \in made[n] /\ b = it
        <5>1. a.index < sequence_numbers[n][d] /\ a.index = sequence_numbers[n][d]
          BY <3>1, <3>6, <3>8, <4>3
        <5> QED
          BY <3>4, <5>1
      <4>4. CASE b \in made[n] /\ a = it
        <5>1. b.index < sequence_numbers[n][d] /\ b.index = sequence_numbers[n][d]
          BY <3>1, <3>6, <3>8, <4>4
        <5> QED
          BY <3>4, <5>1
      <4> QED
        BY <3>3, <4>1, <4>2, <4>3, <4>4
    <3> QED
      BY <2>1, <3>1, <3>2, <3>3, <3>6, <3>7, <3>8 DEF NumberedOnce
  <2> QED
    BY <2>2, <2>3
<1>5. ASSUME NEW m \in Client, Destroy(m)
      PROVE  NumberedOnce(n)'
  <2>1. /\ sequence_numbers' = [sequence_numbers EXCEPT ![m] = [d \in Client |-> 0]]
        /\ made' = made /\ destroyed' = destroyed \cup {m}
    BY <1>5 DEF Destroy
  <2>2. CASE m = n
    BY <1>0, <2>1, <2>2 DEF NumberedOnce
  <2>3. CASE m # n
    <3>1. sequence_numbers'[n] = sequence_numbers[n]
      BY <1>0, <2>1, <2>3
    <3> QED
      BY <1>0, <2>1, <2>3, <3>1 DEF NumberedOnce
  <2> QED
    BY <2>2, <2>3
<1>6. UNCHANGED <<conversation, history>> => UNCHANGED <<sequence_numbers, made, destroyed>>
  BY DEF conversation, history
<1>7. (\E m \in Client : Send(m)) => UNCHANGED <<sequence_numbers, made, destroyed>>
  BY DEF Send, history
<1> QED
  BY <1>2, <1>3, <1>4, <1>5, <1>6, <1>7, Changes

\* What was made stays issued, and all that is made is.
LEMMA IssuedOK ==
    ASSUME IInv, [Next]_vars
    PROVE  /\ Issued \subseteq Issued' /\ Issued' \in SUBSET Item
           /\ \A n \in Client : made'[n] \subseteq Issued'
<1>1. \A n \in Client : \A a \in made'[n] : a \in Item /\ a.from = n
  BY NumberedOK DEF NumberedOnce
<1>2. \A n \in Client : made[n] \subseteq made'[n]
  <2>1. PICK I \in SUBSET Item : I = Issued
    BY DEF Issued
  <2>2. Inv(I) /\ made \in [Client -> SUBSET Item]
    BY <2>1 DEF IInv, Inv, Typed
  <2>3. ASSUME NEW n \in Client, NEW d \in Client, NEW kind \in Kinds[n], Begin(n, d, kind)
        PROVE  \A m \in Client : made[m] \subseteq made'[m]
    BY <2>2, <2>3 DEF Begin
  <2>4. made' = made => \A m \in Client : made[m] \subseteq made'[m]
    OBVIOUS
  <2> QED
    BY <2>2, <2>3, <2>4, Changes DEF Send, Destroy, history
<1> QED
  BY <1>1, <1>2 DEF Issued

\* What may be under way with fewer items may with more.
LEMMA TypedMore ==
    ASSUME NEW I \in SUBSET Item, NEW J \in SUBSET Item, I \subseteq J, Inv(I)
    PROVE  Inv(J)
<1>1. Packet(I) \subseteq Packet(J) /\ Transfer(I) \subseteq Transfer(J)
  BY DEF Packet, Transfer
<1>2. Seq(Packet(I)) \subseteq Seq(Packet(J)) /\ Seq(Transfer(I)) \subseteq Seq(Transfer(J))
  BY <1>1, SeqMore
<1>3. Links(I) \subseteq Links(J)
  BY <1>2 DEF Links
<1>4. LinksType(J) /\ ReceivingType(J)
  BY <1>1, <1>2, <1>3 DEF Inv, Typed, LinksType, ReceivingType
<1>5. Sending(I) \subseteq Sending(J)
  BY DEF Sending
<1>6. handled \in [Client -> SUBSET J]
  BY DEF Inv, Typed
<1> QED
  BY <1>4, <1>5, <1>6 DEF Inv, Typed

LEMMA InvOK ==
    ASSUME IInv, [Next]_vars
    PROVE  Inv(Issued)'
<1>1. PICK I \in SUBSET Item : I = Issued
  BY DEF Issued
<1>2. PICK J \in SUBSET Item : J = Issued'
  BY IssuedOK
<1>3. Inv(I) /\ I \subseteq J /\ \A n \in Client : made'[n] \subseteq J
  BY <1>1, <1>2, IssuedOK DEF IInv
<1>4. Inv(J)
  BY <1>3, TypedMore
<1>5. Inv(J)'
  BY <1>3, <1>4, StepOK
<1> QED
  BY <1>2, <1>5

\* What the steps do to the conversation of one client with another.
LEMMA ConversationSame ==
    ASSUME IInv, NEW n \in Client, NEW s \in Client,
           messages'[n][s] = messages[n][s], handled[n] \subseteq handled'[n]
    PROVE  MarkedHandled(n, s)'
  BY DEF IInv, MarkedHandled

LEMMA MarkedOK ==
    ASSUME IInv, [Next]_vars, NEW n \in Client, NEW s \in Client
    PROVE  MarkedHandled(n, s)'
<1>0. /\ MarkedHandled(n, s) /\ messages \in [Client -> [Client -> Seq(Shown)]]
      /\ handled \in [Client -> SUBSET Item]
  BY DEF IInv, Inv, Typed, ConversationType, Issued
<1>1. PICK I \in SUBSET Item : I = Issued
  BY DEF Issued
<1>2. Inv(I)
  BY <1>1 DEF IInv
<1>3. ASSUME messages' = messages, handled' = handled
      PROVE  MarkedHandled(n, s)'
  BY <1>3, ConversationSame
<1>4. ASSUME NEW m \in Client, Send(m)
      PROVE  MarkedHandled(n, s)'
  <2> DEFINE it == call[m].item
             e == [received |-> FALSE, item |-> it]
  <2>1. /\ messages' = [messages EXCEPT ![m][it.to] = Append(messages[m][it.to], e)]
        /\ handled' = handled
    BY <1>4 DEF Send, history
  <2>2. CASE m = n /\ it.to = s
    <3>1. it \in Item
      BY <1>4 DEF IInv, Inv, Typed, Sending, Send, Issued
    <3>2. messages[n][s] \in Seq(Shown) /\ e \in Shown /\ ~e.received
      BY <1>0, <3>1 DEF Shown
    <3>3. messages'[n][s] = Append(messages[n][s], e)
      BY <1>0, <2>1, <2>2
    <3> HIDE DEF e
    <3>4. \A i \in DOMAIN Append(messages[n][s], e) :
             \/ Append(messages[n][s], e)[i] = e
             \/ i \in DOMAIN messages[n][s]
                /\ Append(messages[n][s], e)[i] = messages[n][s][i]
      BY <3>2
    <3>5. ASSUME NEW i \in DOMAIN messages'[n][s], messages'[n][s][i].received
          PROVE  messages'[n][s][i].item \in handled'[n] /\ messages'[n][s][i].item.from = s
      <4>1. i \in DOMAIN messages[n][s] /\ messages'[n][s][i] = messages[n][s][i]
        BY <3>2, <3>3, <3>4, <3>5
      <4> QED
        BY <1>0, <2>1, <3>5, <4>1 DEF MarkedHandled
    <3> QED
      BY <3>5 DEF MarkedHandled
  <2>3. CASE ~(m = n /\ it.to = s)
    <3>1. messages'[n][s] = messages[n][s]
      BY <1>0, <2>1, <2>3
    <3> QED
      BY <2>1, <3>1, ConversationSame
  <2> QED
    BY <2>2, <2>3
<1>5. ASSUME NEW m \in Client, NEW it \in Item, AddReceived(m, it)
      PROVE  MarkedHandled(n, s)'
  <2>1. PICK mark \in BOOLEAN :
          messages' = [messages EXCEPT ![m][it.from] =
                          Inserted(messages[m][it.from], [received |-> mark, item |-> it])]
    BY <1>5 DEF AddReceived
  <2> DEFINE e == [received |-> mark, item |-> it]
  <2>2. handled' = [handled EXCEPT ![m] = handled[m] \cup {it}]
    BY <1>5 DEF AddReceived
  <2>3. handled[n] \subseteq handled'[n] /\ (m = n => it \in handled'[n])
    BY <1>0, <2>2
  <2>4. CASE m = n /\ it.from = s
    <3>1. messages[n][s] \in Seq(Shown) /\ e \in Shown /\ e.item = it
      BY <1>0 DEF Shown
    <3>2. messages'[n][s] = Inserted(messages[n][s], e)
      BY <1>0, <2>1, <2>4
    <3> HIDE DEF e
    <3>3. \A j \in DOMAIN messages'[n][s] :
             \/ messages'[n][s][j] = e
             \/ \E i \in DOMAIN messages[n][s] : messages'[n][s][j] = messages[n][s][i]
      BY <3>1, <3>2, InsertedKeeps
    <3>4. ASSUME NEW j \in DOMAIN messages'[n][s], messages'[n][s][j].received
          PROVE  messages'[n][s][j].item \in handled'[n] /\ messages'[n][s][j].item.from = s
      <4>1. CASE messages'[n][s][j] = e
        BY <2>3, <2>4, <3>1, <4>1
      <4>2. ASSUME NEW i \in DOMAIN messages[n][s], messages'[n][s][j] = messages[n][s][i]
            PROVE  messages'[n][s][j].item \in handled'[n] /\ messages'[n][s][j].item.from = s
        BY <1>0, <2>3, <3>4, <4>2 DEF MarkedHandled
      <4> QED
        BY <3>3, <4>1, <4>2
    <3> QED
      BY <3>4 DEF MarkedHandled
  <2>5. CASE ~(m = n /\ it.from = s)
    <3>1. messages'[n][s] = messages[n][s]
      BY <1>0, <2>1, <2>5
    <3> QED
      BY <2>3, <3>1, ConversationSame
  <2> QED
    BY <2>4, <2>5
<1>6. ASSUME NEW m \in Client, Destroy(m)
      PROVE  MarkedHandled(n, s)'
  <2>1. messages' = [messages EXCEPT ![m] = [t \in Client |-> << >>]] /\ handled' = handled
    BY <1>6 DEF Destroy
  <2>2. CASE m = n
    <3>1. messages'[n][s] = << >>
      BY <1>0, <2>1, <2>2
    <3> QED
      BY <3>1 DEF MarkedHandled
  <2>3. CASE m # n
    <3>1. messages'[n][s] = messages[n][s]
      BY <1>0, <2>1, <2>3
    <3> QED
      BY <2>1, <3>1, ConversationSame
  <2> QED
    BY <2>2, <2>3
<1>7. ASSUME UNCHANGED <<conversation, history>>
      PROVE  MarkedHandled(n, s)'
  BY <1>3, <1>7 DEF conversation, history
<1>8. ASSUME NEW m \in Client, NEW d \in Client, NEW kind \in Kinds[m], Begin(m, d, kind)
      PROVE  MarkedHandled(n, s)'
  BY <1>3, <1>8 DEF Begin
<1> QED
  BY <1>2, <1>4, <1>5, <1>6, <1>7, <1>8, Changes

\* What it means that an item of s is kept by n.
KeptBy(n, it) ==
    /\ it.index \in DOMAIN received[n][it.from] /\ received[n][it.from][it.index] = it
    /\ \E i \in DOMAIN messages[n][it.from] : messages[n][it.from][i].item = it

\* Two items of a sender for one receiver with one number are one.
LEMMA SameNumber ==
    ASSUME IInv, NEW a \in Issued, NEW b \in Issued, a.from = b.from, a.to = b.to,
           a.index = b.index, a.from \notin destroyed
    PROVE  a = b
  BY DEF IInv, NumberedOnce, Issued

\* add_received keeps what was there, for it overwrites only what has the same number.
LEMMA AddReceivedKeeps ==
    ASSUME IInv, NEW m \in Client, NEW it \in Issued, AddReceived(m, it), destroyed' = destroyed
    PROVE  Kept'
<1>0. /\ messages \in [Client -> [Client -> Seq(Shown)]]
      /\ received \in [Client -> [Client -> History]]
      /\ handled \in [Client -> SUBSET Issued] /\ it \in Item /\ it.from \in Client
  BY DEF IInv, Inv, Typed, ConversationType, Issued
<1>1. PICK mark \in BOOLEAN :
        messages' = [messages EXCEPT ![m][it.from] =
                        Inserted(messages[m][it.from], [received |-> mark, item |-> it])]
  BY DEF AddReceived
<1> DEFINE e == [received |-> mark, item |-> it]
           h == received[m][it.from]
           k == [i \in DOMAIN h \cup {it.index} |-> IF i = it.index THEN it ELSE h[i]]
<1>2. /\ handled' = [handled EXCEPT ![m] = handled[m] \cup {it}]
      /\ received' = [received EXCEPT ![m][it.from] = k]
  BY DEF AddReceived
<1>3. e \in Shown /\ e.item = it
  BY <1>0 DEF Shown
<1>4. /\ it.index \in DOMAIN k /\ k[it.index] = it
      /\ \A i \in DOMAIN h : i \in DOMAIN k /\ (i # it.index => k[i] = h[i])
  OBVIOUS
<1> HIDE DEF e, h, k
<1> SUFFICES ASSUME NEW n \in Client, NEW a \in handled'[n], ~Astray(n, a.from)',
                    {n, a.from} \cap destroyed' = {}
             PROVE  KeptBy(n, a)'
  BY DEF Kept, KeptBy
<1>5. handled[n] \subseteq handled'[n] /\ (a \in handled[n] \/ (m = n /\ a = it))
  BY <1>0, <1>2
<1>6. n \notin destroyed /\ a.from \notin destroyed /\ a \in Issued /\ a.from \in Client
  BY <1>0, <1>5 DEF Issued
<1>7. ~Astray(n, a.from)
  BY <1>5 DEF Astray
<1>8. a \in handled[n] => KeptBy(n, a)
  BY <1>6, <1>7 DEF IInv, Kept, KeptBy
<1>9. CASE ~(m = n /\ it.from = a.from)
  <2>1. messages'[n][a.from] = messages[n][a.from] /\ received'[n][a.from] = received[n][a.from]
    BY <1>0, <1>1, <1>2, <1>6, <1>9
  <2>2. a \in handled[n]
    BY <1>5, <1>9
  <2> QED
    BY <1>8, <2>1, <2>2 DEF KeptBy
<1>10. CASE m = n /\ it.from = a.from
  <2>1. messages'[n][a.from] = Inserted(messages[n][a.from], e)
    BY <1>0, <1>1, <1>6, <1>10 DEF e
  <2>2. received'[n][a.from] = k /\ h = received[n][a.from]
    BY <1>0, <1>2, <1>6, <1>10 DEF h
  <2>3. messages[n][a.from] \in Seq(Shown)
    BY <1>0, <1>6
\* Everything n has of this sender is for n.
  <2>4. it \in handled'[n]
    BY <1>0, <1>2, <1>10
  <2>5. \A b \in handled'[n] : b.from = a.from => b.to = n
    BY DEF Astray
  <2>6. a.to = n /\ it.to = n
    BY <1>10, <2>4, <2>5
  <2>7. a.index = it.index => a = it
    BY <1>6, <1>10, <2>6, SameNumber
  <2>8. a.index \in DOMAIN k /\ k[a.index] = a
    <3>1. CASE a = it
      BY <1>4, <3>1
    <3>2. CASE a # it
      <4>1. a \in handled[n] /\ a.index # it.index
        BY <1>5, <2>7, <3>2
      <4>2. a.index \in DOMAIN h /\ h[a.index] = a
        BY <1>8, <2>2, <4>1 DEF KeptBy
      <4> QED
        BY <1>4, <4>1, <4>2
    <3> QED
      BY <3>1, <3>2
  <2>9. \A i \in DOMAIN messages[n][a.from] :
           \E j \in DOMAIN messages'[n][a.from] :
              messages'[n][a.from][j] = messages[n][a.from][i]
    BY <1>3, <2>1, <2>3, InsertedKeeps
  <2>10. \E i \in DOMAIN messages'[n][a.from] : messages'[n][a.from][i].item = a
    <3>1. CASE a \in handled[n]
      BY <1>8, <2>9, <3>1 DEF KeptBy
    <3>2. CASE a = it
      <4>1. CASE \E j \in DOMAIN messages'[n][a.from] : messages'[n][a.from][j] = e
        BY <1>3, <3>2, <4>1
      <4>2. CASE \E i \in DOMAIN messages[n][a.from] :
                    messages[n][a.from][i].received
                      /\ messages[n][a.from][i].item.index = it.index
        <5>1. PICK i \in DOMAIN messages[n][a.from] :
                 messages[n][a.from][i].received /\ messages[n][a.from][i].item.index = it.index
          BY <4>2
        <5> DEFINE b == messages[n][a.from][i].item
        <5>2. b \in handled[n] /\ b.from = a.from
          BY <1>6, <5>1 DEF IInv, MarkedHandled
        <5>3. b \in Issued /\ b.to = n
          BY <1>0, <1>5, <2>5, <5>2
        <5>4. b = it
          BY <1>6, <1>10, <2>6, <5>1, <5>2, <5>3, SameNumber
        <5> QED
          BY <2>9, <3>2, <5>4
      <4>3. \A q \in Seq(Shown) :
               \/ \E j \in DOMAIN Inserted(q, e) : Inserted(q, e)[j] = e
               \/ \E i \in DOMAIN q : q[i].received /\ q[i].item.index = e.item.index
        BY <1>3, InsertedKeeps
      <4>4. e.item.index = it.index
        BY <1>3
      <4> QED
        BY <2>1, <2>3, <4>1, <4>2, <4>3, <4>4
    <3> QED
      BY <1>5, <3>1, <3>2
  <2> QED
    BY <2>2, <2>8, <2>10 DEF KeptBy
<1> QED
  BY <1>9, <1>10

LEMMA KeptOK ==
    ASSUME IInv, [Next]_vars
    PROVE  Kept'
<1>0. /\ messages \in [Client -> [Client -> Seq(Shown)]]
      /\ received \in [Client -> [Client -> History]]
      /\ handled \in [Client -> SUBSET Issued] /\ Kept
  BY DEF IInv, Inv, Typed, ConversationType
<1>1. PICK I \in SUBSET Item : I = Issued
  BY DEF Issued
<1>2. Inv(I)
  BY <1>1 DEF IInv
<1>3. ASSUME UNCHANGED <<received, messages, handled, destroyed>>
      PROVE  Kept'
  BY <1>0, <1>3 DEF Kept, Astray
<1>4. ASSUME NEW m \in Client, Send(m)
      PROVE  Kept'
  <2> DEFINE it == call[m].item
             e == [received |-> FALSE, item |-> it]
  <2>1. /\ messages' = [messages EXCEPT ![m][it.to] = Append(messages[m][it.to], e)]
        /\ UNCHANGED <<received, handled, destroyed>>
    BY <1>4 DEF Send, history
  <2>2. it \in Item /\ it.to \in Client
    BY <1>4 DEF IInv, Inv, Typed, Sending, Send, Issued, Item
  <2>3. e \in Shown
    BY <2>2 DEF Shown
  <2> HIDE DEF e, it
  <2>4. ASSUME NEW n \in Client, NEW s \in Client, NEW i \in DOMAIN messages[n][s]
        PROVE  i \in DOMAIN messages'[n][s] /\ messages'[n][s][i] = messages[n][s][i]
    <3>1. CASE m = n /\ it.to = s
      <4>1. messages'[n][s] = Append(messages[n][s], e) /\ messages[n][s] \in Seq(Shown)
        BY <1>0, <2>1, <3>1
      <4> QED
        BY <2>3, <4>1
    <3>2. CASE ~(m = n /\ it.to = s)
      BY <1>0, <2>1, <3>2
    <3> QED
      BY <3>1, <3>2
  <2>5. ASSUME NEW n \in Client, NEW a \in handled[n], ~Astray(n, a.from),
               {n, a.from} \cap destroyed = {}
        PROVE  KeptBy(n, a)'
    <3>1. KeptBy(n, a) /\ a.from \in Client
      BY <1>0, <2>5 DEF Kept, KeptBy, Issued
    <3> QED
      BY <2>1, <2>4, <3>1 DEF KeptBy
  <2> QED
    BY <2>1, <2>5 DEF Kept, KeptBy, Astray
<1>5. ASSUME NEW m \in Client, NEW it \in I, AddReceived(m, it), destroyed' = destroyed
      PROVE  Kept'
  BY <1>1, <1>5, AddReceivedKeeps
<1>6. ASSUME NEW m \in Client, Destroy(m)
      PROVE  Kept'
  <2>1. /\ messages' = [messages EXCEPT ![m] = [s \in Client |-> << >>]]
        /\ received' = [received EXCEPT ![m] = [s \in Client |-> << >>]]
        /\ handled' = handled /\ destroyed' = destroyed \cup {m}
    BY <1>6 DEF Destroy
  <2>2. \A n \in Client : n # m => messages'[n] = messages[n] /\ received'[n] = received[n]
    BY <1>0, <2>1
  <2>3. ASSUME NEW n \in Client, NEW a \in handled[n], ~Astray(n, a.from),
               {n, a.from} \cap destroyed' = {}
        PROVE  KeptBy(n, a)'
    <3>1. n # m /\ {n, a.from} \cap destroyed = {}
      BY <2>1, <2>3
    <3>2. KeptBy(n, a)
      BY <1>0, <2>3, <3>1 DEF Kept, KeptBy
    <3> QED
      BY <2>2, <3>1, <3>2 DEF KeptBy
  <2> QED
    BY <2>1, <2>3 DEF Kept, KeptBy, Astray
<1>7. ASSUME UNCHANGED <<conversation, history>>
      PROVE  Kept'
  BY <1>3, <1>7 DEF conversation, history
<1>8. ASSUME NEW m \in Client, NEW d \in Client, NEW kind \in Kinds[m], Begin(m, d, kind)
      PROVE  Kept'
  BY <1>3, <1>8 DEF Begin
<1> QED
  BY <1>2, <1>4, <1>5, <1>6, <1>7, <1>8, Changes
-----------------------------------------------------------------------------
(***************************************************************************)
(* The theorems                                                            *)
(***************************************************************************)
\* The inductive invariant.
THEOREM Invariant == Spec => []IInv
<1>1. Init => IInv
  <2> SUFFICES ASSUME Init PROVE IInv
    OBVIOUS
  <2>1. PICK I \in SUBSET Item : I = Issued
    BY DEF Issued
  <2>2. Inv(Issued)
    BY <2>1, InitOK
  <2>3. \A n \in Client : made[n] = {} /\ handled[n] = {}
    BY DEF Init
  <2>4. \A n, s \in Client : MarkedHandled(n, s)
    BY DEF Init, MarkedHandled
  <2> QED
    BY <2>2, <2>3, <2>4 DEF IInv, NumberedOnce, Kept
<1>2. IInv /\ [Next]_vars => IInv'
  BY InvOK, NumberedOK, MarkedOK, KeptOK DEF IInv
<1> QED
  BY <1>1, <1>2, PTL DEF Spec

\* The variables have their types, whatever is sent and wherever it is sent.
THEOREM Types == Spec => []TypeOK
<1>1. IInv => TypeOK
  <2> SUFFICES ASSUME IInv PROVE TypeOK
    OBVIOUS
  <2>1. PICK I \in SUBSET Item : I = Issued
    BY DEF Issued
  <2>2. Inv(I) /\ I \subseteq Item /\ Item \in SUBSET Item
    BY <2>1 DEF IInv
  <2> QED
    BY <2>2, TypedMore DEF TypeOK, Inv
<1> QED
  BY <1>1, Invariant, PTL

\* The two maps of datacenters.cpp agree in every process, for any number of nodes and
\* datacenters, and whatever it is told and asked about them.
THEOREM MapsAlwaysAgree == Spec => []Agree
<1>1. IInv => Agree
  BY DEF IInv, Inv
<1> QED
  BY <1>1, Invariant, PTL

\* The loop of add_received keeps the marked items of every conversation increasing,
\* for any number of items, by any routes, with and without messenger_destroy.
THEOREM AlwaysSorted == Spec => []Sorted
<1>1. IInv => Sorted
  BY DEF IInv, Inv
<1> QED
  BY <1>1, Invariant, PTL

\* What add_received was given stays in the conversation and under its index, for any
\* clients and routes, unless one of the two calls messenger_destroy or an item for
\* somebody else came astray.
THEOREM NothingLost == Spec => []Kept
<1>1. IInv => Kept
  BY DEF IInv
<1> QED
  BY <1>1, Invariant, PTL
=============================================================================
