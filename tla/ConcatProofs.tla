---------------------------- MODULE ConcatProofs ----------------------------
(***************************************************************************)
(* For any streams, items and nodes: no thread of include/concat.h holds   *)
(* the address of a freed node or stream, nothing is leaked, and reading   *)
(* through the pointers is reading one sequence; and the lists implement   *)
(* Stream.tla: every step of a writer or of the listener is a step of the  *)
(* one sequence, or none.                                                  *)
(***************************************************************************)
EXTENDS Concat, SequenceTheorems, WellFoundedInduction, TLAPS

-----------------------------------------------------------------------------
(***************************************************************************)
(* The inductive invariant                                                 *)
(***************************************************************************)
\* The lengths of a list and of its parts.
Total(s) == Len(All(s))
Past(s) == Len(spent[s])
Ahead(s) == Len(unread[s])

Cells ==
    /\ alive \subseteq Stream /\ allocated \subseteq Node
    /\ next \in [Node -> Node \cup {NULL}]
    /\ val \in [Node -> Item \cup Child \cup {NULL}]
    /\ first \in [Stream -> Node \cup {NULL}]
    /\ last \in [Stream -> Stream \cup Node]
    /\ listener \in [Stream -> Stream \cup Node]
    /\ spent \in [Stream -> Seq(Node)] /\ unread \in [Stream -> Seq(Node)]

\* The cells of a stream agree with its list.
Linked(s) ==
    /\ first[s] = IF Total(s) = 0 THEN NULL ELSE All(s)[1]
    /\ \A i \in 1 .. Total(s) :
          next[All(s)[i]] = IF i = Total(s) THEN NULL ELSE All(s)[i + 1]
    /\ last[s] = IF Total(s) = 0 THEN s ELSE All(s)[Total(s)]
    /\ listener[s] = IF Past(s) = 0 THEN s ELSE All(s)[Past(s)]

\* A node is in one place of one list.
Distinct ==
    \A s, t \in alive : \A i \in 1 .. Total(s), j \in 1 .. Total(t) :
        All(s)[i] = All(t)[j] => s = t /\ i = j

\* A given stream is live and in one node; only the outer list has any.
Values ==
    /\ \A s \in alive : \A i \in 1 .. Total(s) :
          \/ val[All(s)[i]] \in Item
          \/ s = Root /\ val[All(s)[i]] \in Child \cap alive
    /\ Root \in alive => \A i, j \in 1 .. Total(Root) :
          val[All(Root)[i]] = val[All(Root)[j]] /\ val[All(Root)[i]] \in Child => i = j
    /\ \A c \in alive : c # Root =>
          Root \in alive /\ \E i \in 1 .. Total(Root) : val[All(Root)[i]] = c

\* What has not been constructed, or has been deleted.
Dead ==
    \A s \in Stream : s \notin alive =>
        Past(s) = 0 /\ Ahead(s) = 0 /\ first[s] = NULL /\ last[s] = s /\ listener[s] = s

Allocated ==
    /\ \A s \in alive : \A i \in 1 .. Total(s) : All(s)[i] \in allocated
    /\ \A n \in allocated : \E s \in alive : \E i \in 1 .. Total(s) : n = All(s)[i]

Shape ==
    Cells /\ (\A s \in alive : Linked(s)) /\ Distinct /\ Values /\ Dead /\ Allocated

\* The listener has left the given streams behind it.
Left ==
    \A i \in 1 .. Past(Root) :
        val[All(Root)[i]] \in Child =>
            off[val[All(Root)[i]]] /\ Ahead(val[All(Root)[i]]) = 0

\* Where a writer is: in its sweep, the node behind the oldest is its cursor, and the
\* oldest is read.
WriterAt(s) ==
    /\ off[s] => ppc[s] = "idle"
    /\ ~off[s] => s \in alive
    /\ ppc[s] # "loop" => iter[s] = NULL
    /\ ppc[s] = "sweep" => Total(s) >= 1
    /\ ppc[s] = "loop" => Past(s) >= 1 /\ iter[s] = next[first[s]]
Writing ==
    /\ off \in [Stream -> BOOLEAN]
    /\ ppc \in [Stream -> {"idle", "sweep", "loop"}]
    /\ iter \in [Stream -> Node \cup {NULL}]
    /\ \A s \in Stream : WriterAt(s)

\* Where the listener is.  The node it finds next, and the given stream it is in, which
\* is in front of it in the outer list.
Front(s) == All(s)[Past(s) + 1]
InGiven(n) == cur \in Child /\ Ahead(Root) >= 1 /\ n = Front(Root) /\ val[n] = cur
Getting == {"load", "off", "reload", "end", "have"}
Asking == {"ready_closed", "ready_given", "ready_end", "empty_closed", "empty_given"}

ListenTypes ==
    /\ cpc \in Getting \cup Asking \cup {"idle", "ready", "empty", "exited", "gone"}
    /\ op \in {NULL, "get", "peek", "skip", "depleted", "ready", "empty"}
    /\ cur \in Stream
    /\ closed \in BOOLEAN /\ isready \in BOOLEAN /\ promised \in BOOLEAN
    /\ got \in Item \cup {NULL} /\ answer \in {NULL, "yes", "no"}
    /\ cpc \in Getting => op \notin {"ready", "empty"}
    /\ cpc \in {"ready", "ready_closed", "ready_given", "ready_end"} => op = "ready"
    /\ cpc \in {"empty", "empty_closed", "empty_given"} => op = "empty"
    /\ cpc = "idle" => ~promised

ListenerAt ==
    /\ IF cpc = "gone" THEN alive = {} /\ off[Root] ELSE Root \in alive
    /\ cpc \notin Getting \cup Asking => cur = Root /\ outer = NULL /\ node = NULL
    /\ cpc \in Asking => outer = NULL /\ InGiven(node)
    /\ cpc \in Getting => IF cur = Root THEN outer = NULL ELSE InGiven(outer)
    /\ cpc = "load" => node \in {NULL, outer}
    /\ cpc \in {"off", "reload", "end"} => node = NULL
    /\ cpc \in {"reload", "end", "empty_given"} => off[cur]
    /\ cpc = "end" => Ahead(cur) = 0
    /\ cpc = "have" => Ahead(cur) >= 1 /\ node = Front(cur)
    /\ cpc \in {"ready_given", "ready_end"} /\ closed => off[cur]
    /\ cpc = "ready_end" => (isready => Ahead(cur) >= 1)
    /\ cpc = "ready_end" /\ closed /\ ~isready => Ahead(cur) = 0

\* What a call of ready that began with something to read goes on to find.
Promises ==
    op = "ready" /\ promised =>
        /\ Readable
        /\ cpc = "ready_given" /\ ~closed => Ahead(cur) >= 1
        /\ cpc = "ready_end" /\ ~closed => isready

IInv == Shape /\ Left /\ Writing /\ ListenTypes /\ ListenerAt /\ Promises
-----------------------------------------------------------------------------
(***************************************************************************)
(* Sequences and lists                                                     *)
(***************************************************************************)
\* A set of numbers that is not empty has a least one.
LEMMA Least ==
    ASSUME NEW S \in SUBSET Nat, S # {}
    PROVE  \E x \in S : \A y \in S : x <= y
<1>1. PICK x \in S : \A y \in S : ~ (<<y, x>> \in OpToRel(<, Nat))
  BY WFMin, NatLessThanWellFounded
<1>2. \A y \in S : y \in Nat /\ x \in Nat
  OBVIOUS
<1>3. \A y \in S : ~ (y < x)
  BY <1>1, <1>2, Zenon DEF OpToRel
<1>4. \A y \in S : x <= y
  BY <1>2, <1>3
<1> QED
  BY <1>4

LEMMA Seqs ==
    ASSUME NEW S, NEW s \in Seq(S)
    PROVE  /\ Len(s) \in Nat /\ DOMAIN s = 1 .. Len(s)
           /\ \A i \in 1 .. Len(s) : s[i] \in S
           /\ s = << >> <=> Len(s) = 0
  OBVIOUS

LEMMA AppendOf ==
    ASSUME NEW S, NEW s \in Seq(S), NEW e \in S
    PROVE  /\ Append(s, e) \in Seq(S) /\ Len(Append(s, e)) = Len(s) + 1
           /\ DOMAIN Append(s, e) = 1 .. Len(s) + 1
           /\ \A i \in 1 .. Len(s) : Append(s, e)[i] = s[i]
           /\ Append(s, e)[Len(s) + 1] = e
           /\ Append(s, e) # << >>
  OBVIOUS

LEMMA TailOf ==
    ASSUME NEW S, NEW s \in Seq(S), s # << >>
    PROVE  /\ Tail(s) \in Seq(S) /\ Len(Tail(s)) = Len(s) - 1
           /\ DOMAIN Tail(s) = 1 .. Len(s) - 1
           /\ \A i \in 1 .. Len(s) - 1 : Tail(s)[i] = s[i + 1]
           /\ Head(s) = s[1] /\ Head(s) \in S /\ Len(s) \in Nat /\ Len(s) >= 1
  OBVIOUS

LEMMA ConcatOf ==
    ASSUME NEW S, NEW a \in Seq(S), NEW b \in Seq(S)
    PROVE  /\ a \o b \in Seq(S) /\ Len(a \o b) = Len(a) + Len(b)
           /\ DOMAIN (a \o b) = 1 .. Len(a) + Len(b)
           /\ \A i \in 1 .. Len(a) : (a \o b)[i] = a[i]
           /\ \A i \in 1 .. Len(b) : (a \o b)[Len(a) + i] = b[i]
           /\ \A i \in 1 .. Len(a) + Len(b) :
                 (a \o b)[i] = IF i <= Len(a) THEN a[i] ELSE b[i - Len(a)]
<1>1. /\ a \o b \in Seq(S) /\ Len(a \o b) = Len(a) + Len(b)
      /\ \A i \in 1 .. Len(a) + Len(b) :
            (a \o b)[i] = IF i <= Len(a) THEN a[i] ELSE b[i - Len(a)]
  BY ConcatProperties
<1>2. Len(a) \in Nat /\ Len(b) \in Nat
  OBVIOUS
<1>3. \A i \in 1 .. Len(a) : (a \o b)[i] = a[i]
  BY <1>1, <1>2
<1>4. \A i \in 1 .. Len(b) : (a \o b)[Len(a) + i] = b[i]
  <2> SUFFICES ASSUME NEW i \in 1 .. Len(b)
               PROVE  (a \o b)[Len(a) + i] = b[i]
    OBVIOUS
  <2>1. Len(a) + i \in 1 .. Len(a) + Len(b) /\ ~(Len(a) + i <= Len(a))
           /\ Len(a) + i - Len(a) = i
    BY <1>2
  <2> QED
    BY <1>1, <2>1
<1>5. DOMAIN (a \o b) = 1 .. Len(a) + Len(b)
  BY <1>1, Seqs
<1> QED
  BY <1>1, <1>3, <1>4, <1>5

LEMMA ConcatAppend ==
    ASSUME NEW S, NEW a \in Seq(S), NEW b \in Seq(S), NEW e \in S
    PROVE  a \o Append(b, e) = Append(a \o b, e)
<1> DEFINE q == Append(b, e)
           l == a \o q
           r == Append(a \o b, e)
<1>1. Len(a) \in Nat /\ Len(b) \in Nat
  OBVIOUS
<1>2. /\ q \in Seq(S) /\ Len(q) = Len(b) + 1
      /\ \A i \in 1 .. Len(b) : q[i] = b[i]
      /\ q[Len(b) + 1] = e
  BY AppendOf
<1> HIDE DEF q
<1>3. /\ l \in Seq(S) /\ Len(l) = Len(a) + Len(q)
      /\ \A i \in 1 .. Len(a) + Len(q) :
            l[i] = IF i <= Len(a) THEN a[i] ELSE q[i - Len(a)]
  BY <1>2, ConcatProperties
<1>4. /\ a \o b \in Seq(S) /\ Len(a \o b) = Len(a) + Len(b)
      /\ \A i \in 1 .. Len(a) + Len(b) :
            (a \o b)[i] = IF i <= Len(a) THEN a[i] ELSE b[i - Len(a)]
  BY ConcatOf
<1>5. /\ r \in Seq(S) /\ Len(r) = Len(a) + Len(b) + 1
      /\ \A i \in 1 .. Len(a) + Len(b) : r[i] = (a \o b)[i]
      /\ r[Len(a) + Len(b) + 1] = e
  BY <1>4, AppendOf
<1> HIDE DEF l, r
<1>6. ASSUME NEW i \in 1 .. Len(l)
      PROVE  l[i] = r[i]
  <2>0. i \in 1 .. Len(a) + (Len(b) + 1) /\ i \in Nat /\ Len(q) = Len(b) + 1
    BY <1>1, <1>2, <1>3
  <2>1. CASE i <= Len(a)
    <3>1. i \in 1 .. Len(a) + Len(b)
      BY <1>1, <2>0, <2>1
    <3> QED
      BY <1>3, <1>4, <1>5, <2>0, <2>1, <3>1
  <2>2. CASE i > Len(a) /\ i <= Len(a) + Len(b)
    <3>1. i - Len(a) \in 1 .. Len(b) /\ ~(i <= Len(a)) /\ i \in 1 .. Len(a) + Len(b)
      BY <1>1, <2>2
    <3>2. l[i] = q[i - Len(a)]
      BY <1>1, <1>3, <2>0, <3>1
    <3> QED
      BY <1>2, <1>4, <1>5, <3>1, <3>2
  <2>3. CASE i = Len(a) + Len(b) + 1
    <3>1. i - Len(a) = Len(b) + 1 /\ ~(i <= Len(a)) /\ i \in 1 .. Len(a) + (Len(b) + 1)
      BY <1>1, <2>3
    <3>2. l[i] = q[i - Len(a)]
      BY <1>3, <2>0, <3>1
    <3> QED
      BY <1>2, <1>5, <2>3, <3>1, <3>2
  <2> QED
    BY <1>1, <2>0, <2>1, <2>2, <2>3
<1> QED
  BY <1>1, <1>2, <1>3, <1>5, <1>6, SeqEqual DEF l, r, q

\* Reading a node moves it from one part of the list to the other.
LEMMA ConcatMove ==
    ASSUME NEW S, NEW a \in Seq(S), NEW b \in Seq(S), b # << >>
    PROVE  Append(a, Head(b)) \o Tail(b) = a \o b
<1> DEFINE p == Append(a, Head(b))
           t == Tail(b)
           l == p \o t
           r == a \o b
<1>1. /\ Len(a) \in Nat /\ Len(b) \in Nat /\ Len(b) >= 1 /\ Head(b) = b[1] /\ Head(b) \in S
      /\ t \in Seq(S) /\ Len(t) = Len(b) - 1
      /\ \A i \in 1 .. Len(b) - 1 : t[i] = b[i + 1]
  BY TailOf
<1>2. /\ p \in Seq(S) /\ Len(p) = Len(a) + 1
      /\ \A i \in 1 .. Len(a) : p[i] = a[i]
      /\ p[Len(a) + 1] = b[1]
  BY <1>1, AppendOf
<1> HIDE DEF p, t
<1>3. /\ l \in Seq(S) /\ Len(l) = Len(p) + Len(t)
      /\ \A i \in 1 .. Len(p) + Len(t) : l[i] = IF i <= Len(p) THEN p[i] ELSE t[i - Len(p)]
  <2>1. p \in Seq(S) /\ t \in Seq(S)
    BY <1>1, <1>2
  <2> QED
    BY <2>1, ConcatOf
<1>4. /\ r \in Seq(S) /\ Len(r) = Len(a) + Len(b)
      /\ \A i \in 1 .. Len(a) + Len(b) : r[i] = IF i <= Len(a) THEN a[i] ELSE b[i - Len(a)]
  BY ConcatOf
<1> HIDE DEF l, r
<1>5. ASSUME NEW i \in 1 .. Len(r)
      PROVE  l[i] = r[i]
  <2>0. /\ i \in 1 .. Len(a) + Len(b) /\ i \in 1 .. Len(p) + Len(t) /\ i \in Nat
        /\ Len(p) = Len(a) + 1
    BY <1>1, <1>2, <1>4
  <2>1. CASE i <= Len(a)
    <3>1. l[i] = p[i] /\ r[i] = a[i] /\ i \in 1 .. Len(a)
      BY <1>1, <1>3, <1>4, <2>0, <2>1
    <3> QED
      BY <1>2, <3>1
  <2>2. CASE i = Len(a) + 1
    <3>1. i <= Len(p) /\ ~(i <= Len(a)) /\ i - Len(a) = 1
      BY <1>1, <2>0, <2>2
    <3>2. l[i] = p[i] /\ r[i] = b[i - Len(a)]
      BY <1>3, <1>4, <2>0, <3>1
    <3> QED
      BY <1>2, <2>2, <3>1, <3>2
  <2>3. CASE i > Len(a) + 1
    <3>1. /\ l[i] = t[i - (Len(a) + 1)] /\ r[i] = b[i - Len(a)]
          /\ i - (Len(a) + 1) \in 1 .. Len(b) - 1 /\ i - (Len(a) + 1) + 1 = i - Len(a)
      BY <1>1, <1>3, <1>4, <2>0, <2>3
    <3> QED
      BY <1>1, <3>1
  <2> QED
    BY <1>1, <2>0, <2>1, <2>2, <2>3
<1>6. Len(l) = Len(r)
  BY <1>1, <1>2, <1>3, <1>4
<1>7. l = r
  BY <1>3, <1>4, <1>5, <1>6, SeqEqual
<1> QED
  BY <1>7 DEF l, r, p, t

LEMMA ConcatTail ==
    ASSUME NEW S, NEW a \in Seq(S), NEW b \in Seq(S), a # << >>
    PROVE  Tail(a) \o b = Tail(a \o b)
<1> DEFINE l == Tail(a) \o b
           c == a \o b
           r == Tail(c)
<1>1. /\ Len(a) \in Nat /\ Len(b) \in Nat /\ Len(a) >= 1
      /\ Tail(a) \in Seq(S) /\ Len(Tail(a)) = Len(a) - 1
      /\ \A i \in 1 .. Len(a) - 1 : Tail(a)[i] = a[i + 1]
  BY TailOf
<1>2. /\ l \in Seq(S) /\ Len(l) = Len(a) - 1 + Len(b)
      /\ \A i \in 1 .. Len(a) - 1 + Len(b) :
            l[i] = IF i <= Len(a) - 1 THEN Tail(a)[i] ELSE b[i - (Len(a) - 1)]
  BY <1>1, ConcatOf
<1>3. /\ c \in Seq(S) /\ Len(c) = Len(a) + Len(b)
      /\ \A i \in 1 .. Len(a) + Len(b) : c[i] = IF i <= Len(a) THEN a[i] ELSE b[i - Len(a)]
  BY ConcatOf
<1> HIDE DEF l, c
<1>4. c # << >>
  BY <1>1, <1>3
<1>5. /\ r \in Seq(S) /\ Len(r) = Len(c) - 1
      /\ \A i \in 1 .. Len(c) - 1 : r[i] = c[i + 1]
  BY <1>3, <1>4, TailOf
<1> HIDE DEF r
<1>6. ASSUME NEW i \in 1 .. Len(r)
      PROVE  l[i] = r[i]
  <2>0. /\ i \in 1 .. Len(a) - 1 + Len(b) /\ i + 1 \in 1 .. Len(a) + Len(b) /\ i \in Nat
        /\ r[i] = c[i + 1]
    BY <1>1, <1>3, <1>5
  <2>1. CASE i <= Len(a) - 1
    <3>1. l[i] = Tail(a)[i] /\ c[i + 1] = a[i + 1] /\ i \in 1 .. Len(a) - 1
      BY <1>1, <1>2, <1>3, <2>0, <2>1
    <3> QED
      BY <1>1, <2>0, <3>1
  <2>2. CASE i > Len(a) - 1
    <3>1. /\ l[i] = b[i - (Len(a) - 1)] /\ c[i + 1] = b[i + 1 - Len(a)]
          /\ i - (Len(a) - 1) = i + 1 - Len(a)
      BY <1>1, <1>2, <1>3, <2>0, <2>2
    <3> QED
      BY <2>0, <3>1
  <2> QED
    BY <1>1, <2>0, <2>1, <2>2
<1>7. Len(l) = Len(r)
  BY <1>1, <1>2, <1>3, <1>5
<1>8. l = r
  BY <1>2, <1>5, <1>6, <1>7, SeqEqual
<1> QED
  BY <1>8 DEF l, r, c

\* From finds the nodes of a list from its first one on.
LEMMA FromIs ==
    ASSUME NULL \notin Node, NEW a \in Seq(Node), NEW n,
           n = IF a = << >> THEN NULL ELSE a[1],
           \A i \in DOMAIN a : next[a[i]] = IF i = Len(a) THEN NULL ELSE a[i + 1]
    PROVE  From(n) = {a[i] : i \in DOMAIN a}
<1> DEFINE R == {a[i] : i \in DOMAIN a}
           Closed(S) == n \in S \cup {NULL} /\ \A k \in S : next[k] \in S \cup {NULL}
<1>1. Len(a) \in Nat /\ DOMAIN a = 1 .. Len(a) /\ (a = << >> <=> Len(a) = 0)
         /\ \A i \in 1 .. Len(a) : a[i] \in Node
  BY Seqs
<1>2. R \in SUBSET Node /\ Closed(R)
  <2>1. n \in R \cup {NULL}
    BY <1>1
  <2>2. ASSUME NEW i \in DOMAIN a
        PROVE  next[a[i]] \in R \cup {NULL}
    BY <1>1
  <2> QED
    BY <1>1, <2>1, <2>2
<1>3. ASSUME NEW S \in SUBSET Node, Closed(S)
      PROVE  R \subseteq S
  <2> DEFINE Out == {i \in 1 .. Len(a) : a[i] \notin S}
  <2>1. SUFFICES ASSUME Out # {} PROVE FALSE
    BY <1>1
  <2>2. Out \in SUBSET Nat
    BY <1>1
  <2>3. PICK i \in Out : \A j \in Out : i <= j
    BY <2>1, <2>2, Least
  <2>4. i \in 1 .. Len(a) /\ i \in Nat
    BY <1>1
  <2>5. i # 1
    BY <1>1, <1>3, <2>4
  <2>6. i - 1 \in 1 .. Len(a) /\ i - 1 \notin Out
    BY <1>1, <2>3, <2>4, <2>5
  <2>7. a[i - 1] \in S
    BY <2>6
  <2>8. next[a[i - 1]] = a[i]
    BY <1>1, <2>4, <2>6
  <2>9. a[i] \in S
    BY <1>1, <1>3, <2>4, <2>7, <2>8
  <2> QED
    BY <2>3, <2>9
<1> HIDE DEF R
<1>4. From(n) = {m \in Node : \A S \in SUBSET Node : Closed(S) => m \in S}
  BY DEF From
<1> HIDE DEF Closed
<1>5. From(n) = R
  BY <1>2, <1>3, <1>4
<1> QED
  BY <1>5 DEF R

LEMMA Apart ==
    ASSUME ConcatAssumption
    PROVE  /\ NULL \notin Item /\ NULL \notin Node /\ NULL \notin Child /\ NULL \notin Stream
           /\ Root \in Stream /\ Root \notin Child /\ Child \subseteq Stream
           /\ \A n \in Node : n \notin Stream
           /\ \A x \in Item : x \notin Child
           /\ \A s \in Stream : s = Root \/ s \in Child
  BY DEF ConcatAssumption, Stream

\* The places of a list.
LEMMA Lists ==
    ASSUME Cells, NEW s \in Stream
    PROVE  /\ Total(s) \in Nat /\ Past(s) \in Nat /\ Ahead(s) \in Nat
           /\ Total(s) = Past(s) + Ahead(s)
           /\ \A i \in 1 .. Total(s) : All(s)[i] \in Node
<1> DEFINE a == spent[s]
           b == unread[s]
<1>1. a \in Seq(Node) /\ b \in Seq(Node) /\ All(s) = a \o b
  BY DEF All, Cells
<1>2. Past(s) = Len(a) /\ Ahead(s) = Len(b) /\ Total(s) = Len(All(s))
  BY DEF Past, Ahead, Total
<1> HIDE DEF a, b
<1>3. /\ a \o b \in Seq(Node) /\ Len(a \o b) = Len(a) + Len(b)
      /\ Len(a) \in Nat /\ Len(b) \in Nat
  BY <1>1, ConcatOf, Seqs
<1>4. Len(a \o b) \in Nat /\ \A i \in 1 .. Len(a \o b) : (a \o b)[i] \in Node
  BY <1>3, Seqs
<1> QED
  BY <1>1, <1>2, <1>3, <1>4

\* The history in the places of the list.
LEMMA Parts ==
    ASSUME Cells, NEW s \in Stream
    PROVE  /\ DOMAIN All(s) = 1 .. Total(s) /\ DOMAIN unread[s] = 1 .. Ahead(s)
           /\ \A i \in 1 .. Past(s) : spent[s][i] = All(s)[i]
           /\ \A i \in 1 .. Ahead(s) : unread[s][i] = All(s)[Past(s) + i]
           /\ All(s) = << >> <=> Total(s) = 0
           /\ spent[s] = << >> <=> Past(s) = 0
           /\ unread[s] = << >> <=> Ahead(s) = 0
           /\ unread[s] # << >> => Head(unread[s]) = Front(s)
<1> DEFINE a == spent[s]
           b == unread[s]
<1>1. a \in Seq(Node) /\ b \in Seq(Node) /\ All(s) = a \o b
  BY DEF All, Cells
<1>2. Past(s) = Len(a) /\ Ahead(s) = Len(b) /\ Total(s) = Len(All(s))
  BY DEF Past, Ahead, Total
<1> HIDE DEF a, b
<1>3. /\ a \o b \in Seq(Node) /\ Len(a \o b) = Len(a) + Len(b)
      /\ \A i \in 1 .. Len(a) : (a \o b)[i] = a[i]
      /\ \A i \in 1 .. Len(b) : (a \o b)[Len(a) + i] = b[i]
  BY <1>1, ConcatOf
<1>4. /\ DOMAIN (a \o b) = 1 .. Len(a \o b) /\ DOMAIN b = 1 .. Len(b)
      /\ a \o b = << >> <=> Len(a \o b) = 0
      /\ a = << >> <=> Len(a) = 0
      /\ b = << >> <=> Len(b) = 0
  BY <1>1, <1>3, Seqs
<1>5. b # << >> => Head(b) = (a \o b)[Len(a) + 1]
  <2> SUFFICES ASSUME b # << >>
               PROVE  Head(b) = (a \o b)[Len(a) + 1]
    OBVIOUS
  <2>1. Head(b) = b[1] /\ Len(b) \in Nat /\ Len(b) >= 1
    BY <1>1, TailOf
  <2>2. 1 \in 1 .. Len(b)
    BY <2>1
  <2> QED
    BY <1>3, <2>1, <2>2
<1>6. /\ \A i \in 1 .. Past(s) : a[i] = All(s)[i]
      /\ \A i \in 1 .. Ahead(s) : b[i] = All(s)[Past(s) + i]
  BY <1>1, <1>2, <1>3
<1>7. b # << >> => Head(b) = Front(s)
  BY <1>1, <1>2, <1>5 DEF Front
<1>8. /\ DOMAIN All(s) = 1 .. Total(s) /\ DOMAIN b = 1 .. Ahead(s)
      /\ All(s) = << >> <=> Total(s) = 0
      /\ a = << >> <=> Past(s) = 0
      /\ b = << >> <=> Ahead(s) = 0
  BY <1>1, <1>2, <1>4
<1> QED
  BY <1>6, <1>7, <1>8 DEF a, b

\* The four ways in which a list changes.
LEMMA ListSame ==
    ASSUME NEW s, spent'[s] = spent[s], unread'[s] = unread[s]
    PROVE  /\ Total(s)' = Total(s) /\ Past(s)' = Past(s) /\ Ahead(s)' = Ahead(s)
           /\ All(s)' = All(s)
  BY DEF Total, Past, Ahead, All

LEMMA ListAppend ==
    ASSUME Cells, NEW s \in Stream, NEW n \in Node, spent'[s] = spent[s],
           unread'[s] = Append(unread[s], n)
    PROVE  /\ unread'[s] \in Seq(Node) /\ Total(s)' = Total(s) + 1 /\ Past(s)' = Past(s)
           /\ Ahead(s)' = Ahead(s) + 1 /\ All(s)'[Total(s) + 1] = n
           /\ \A i \in 1 .. Total(s) : All(s)'[i] = All(s)[i]
<1> DEFINE a == spent[s]
           b == unread[s]
           c == Append(b, n)
           all == a \o b
<1>1. /\ a \in Seq(Node) /\ b \in Seq(Node) /\ All(s) = all /\ All(s)' = a \o c
      /\ Past(s) = Len(a) /\ Ahead(s) = Len(b) /\ Total(s) = Len(all)
      /\ Past(s)' = Len(a) /\ Ahead(s)' = Len(c) /\ Total(s)' = Len(a \o c)
      /\ unread'[s] = c
  BY DEF All, Cells, Past, Ahead, Total
<1> HIDE DEF a, b
<1>2. c \in Seq(Node) /\ Len(c) = Len(b) + 1 /\ a \o c = Append(all, n) /\ all \in Seq(Node)
  BY <1>1, AppendOf, ConcatAppend, ConcatOf
<1> HIDE DEF c, all
<1>3. /\ Len(Append(all, n)) = Len(all) + 1 /\ Append(all, n)[Len(all) + 1] = n
      /\ \A i \in 1 .. Len(all) : Append(all, n)[i] = all[i]
  BY <1>2, AppendOf
<1> QED
  BY <1>1, <1>2, <1>3

LEMMA ListMove ==
    ASSUME Cells, NEW s \in Stream, Ahead(s) >= 1,
           spent'[s] = Append(spent[s], Head(unread[s])), unread'[s] = Tail(unread[s])
    PROVE  /\ spent'[s] \in Seq(Node) /\ unread'[s] \in Seq(Node)
           /\ Total(s)' = Total(s) /\ Past(s)' = Past(s) + 1 /\ Ahead(s)' = Ahead(s) - 1
           /\ All(s)' = All(s)
<1> DEFINE a == spent[s]
           b == unread[s]
           c == Append(a, Head(b))
           d == Tail(b)
<1>1. /\ a \in Seq(Node) /\ b \in Seq(Node) /\ All(s) = a \o b /\ All(s)' = c \o d
      /\ Past(s) = Len(a) /\ Ahead(s) = Len(b) /\ Total(s) = Len(All(s))
      /\ Past(s)' = Len(c) /\ Ahead(s)' = Len(d) /\ Total(s)' = Len(All(s)')
      /\ unread'[s] = d /\ spent'[s] = c /\ b # << >>
  BY Parts, Lists DEF All, Cells, Past, Ahead, Total
<1> HIDE DEF a, b
<1>2. /\ c \in Seq(Node) /\ Len(c) = Len(a) + 1 /\ d \in Seq(Node) /\ Len(d) = Len(b) - 1
      /\ c \o d = a \o b
  <2>1. Head(b) \in Node /\ d \in Seq(Node) /\ Len(d) = Len(b) - 1
    BY <1>1, TailOf
  <2>2. c \in Seq(Node) /\ Len(c) = Len(a) + 1
    BY <1>1, <2>1, AppendOf
  <2>3. c \o d = a \o b
    BY <1>1, ConcatMove
  <2> QED
    BY <2>1, <2>2, <2>3
<1> HIDE DEF c, d
<1> QED
  BY <1>1, <1>2

LEMMA ListTail ==
    ASSUME Cells, NEW s \in Stream, Past(s) >= 1,
           spent'[s] = Tail(spent[s]), unread'[s] = unread[s]
    PROVE  /\ spent'[s] \in Seq(Node) /\ Total(s)' = Total(s) - 1 /\ Past(s)' = Past(s) - 1
           /\ Ahead(s)' = Ahead(s) /\ \A i \in 1 .. Total(s) - 1 : All(s)'[i] = All(s)[i + 1]
<1> DEFINE a == spent[s]
           b == unread[s]
           c == Tail(a)
           all == a \o b
<1>1. /\ a \in Seq(Node) /\ b \in Seq(Node) /\ All(s) = all /\ All(s)' = c \o b
      /\ Past(s) = Len(a) /\ Ahead(s) = Len(b) /\ Total(s) = Len(all)
      /\ Past(s)' = Len(c) /\ Ahead(s)' = Len(b) /\ Total(s)' = Len(c \o b)
      /\ spent'[s] = c /\ a # << >>
  BY Parts, Lists DEF All, Cells, Past, Ahead, Total
<1> HIDE DEF a, b
<1>2. c \in Seq(Node) /\ Len(c) = Len(a) - 1 /\ Len(a) \in Nat /\ Len(a) >= 1
  BY <1>1, TailOf
<1>3. c \o b = Tail(all)
  BY <1>1, ConcatTail
<1>4. all \in Seq(Node) /\ Len(all) = Len(a) + Len(b) /\ Len(b) \in Nat
  BY <1>1, ConcatProperties
<1> HIDE DEF c, all
<1>5. all # << >>
  BY <1>2, <1>4, Seqs
<1>6. Len(Tail(all)) = Len(all) - 1 /\ \A i \in 1 .. Len(all) - 1 : Tail(all)[i] = all[i + 1]
  BY <1>4, <1>5, TailOf
<1> QED
  BY <1>1, <1>2, <1>3, <1>4, <1>6

LEMMA ListEmpty ==
    ASSUME NEW s, spent'[s] = << >>, unread'[s] = << >>
    PROVE  Total(s)' = 0 /\ Past(s)' = 0 /\ Ahead(s)' = 0
<1>1. << >> \o << >> = << >> /\ Len(<< >>) = 0
  OBVIOUS
<1> QED
  BY <1>1 DEF Total, Past, Ahead, All
-----------------------------------------------------------------------------
(***************************************************************************)
(* The lists and the cells                                                 *)
(***************************************************************************)
LEMMA FromFirst ==
    ASSUME ConcatAssumption, Cells, NEW s \in Stream, Linked(s)
    PROVE  From(first[s]) = {All(s)[i] : i \in 1 .. Total(s)}
<1> DEFINE a == All(s)
<1>1. a \in Seq(Node) /\ DOMAIN a = 1 .. Total(s) /\ (a = << >> <=> Total(s) = 0)
         /\ Len(a) = Total(s)
  <2>1. spent[s] \in Seq(Node) /\ unread[s] \in Seq(Node)
    BY DEF Cells
  <2>2. All(s) \in Seq(Node)
    BY <2>1, ConcatProperties DEF All
  <2> QED
    BY <2>2, Parts DEF Total
<1>2. /\ first[s] = IF a = << >> THEN NULL ELSE a[1]
      /\ \A i \in DOMAIN a : next[a[i]] = IF i = Len(a) THEN NULL ELSE a[i + 1]
  BY <1>1 DEF Linked
<1> HIDE DEF a
<1>3. From(first[s]) = {a[i] : i \in DOMAIN a}
  BY <1>1, <1>2, Apart, FromIs
<1> QED
  BY <1>1, <1>3 DEF a

\* What the listener of a stream finds.
LEMMA Listened ==
    ASSUME ConcatAssumption, Shape, NEW s \in alive
    PROVE  /\ s \in Stream
           /\ Ahead(s) = 0 => At(listener[s]) = NULL
           /\ Ahead(s) >= 1 => At(listener[s]) = Front(s) /\ Front(s) \in Node
                 /\ Front(s) # NULL /\ Front(s) \in allocated
                 /\ (val[Front(s)] \in Item
                       \/ (s = Root /\ val[Front(s)] \in Child \cap alive))
<1>1. s \in Stream /\ Cells /\ Linked(s)
  BY DEF Shape, Cells
<1>2. /\ Total(s) \in Nat /\ Past(s) \in Nat /\ Ahead(s) \in Nat
      /\ Total(s) = Past(s) + Ahead(s)
      /\ \A i \in 1 .. Total(s) : All(s)[i] \in Node
  BY <1>1, Lists
<1>3. ASSUME Past(s) = 0
      PROVE  /\ Ahead(s) = 0 => At(listener[s]) = NULL
             /\ Ahead(s) >= 1 => At(listener[s]) = Front(s)
  <2>1. listener[s] = s /\ At(listener[s]) = first[s]
    BY <1>1, <1>3 DEF Linked, At
  <2> QED
    BY <1>1, <1>2, <1>3, <2>1 DEF Linked, Front
<1>4. ASSUME Past(s) >= 1
      PROVE  /\ Ahead(s) = 0 => At(listener[s]) = NULL
             /\ Ahead(s) >= 1 => At(listener[s]) = Front(s)
  <2>1. Past(s) \in 1 .. Total(s) /\ Past(s) # 0
    BY <1>2, <1>4
  <2>2. listener[s] = All(s)[Past(s)] /\ All(s)[Past(s)] \in Node
    BY <1>1, <1>2, <2>1 DEF Linked
  <2>3. At(listener[s]) = next[All(s)[Past(s)]]
    BY <2>2, Apart DEF At
  <2>4. At(listener[s]) = IF Past(s) = Total(s) THEN NULL ELSE Front(s)
    BY <1>1, <2>1, <2>3 DEF Linked, Front
  <2> QED
    BY <1>2, <2>4
<1>5. /\ Ahead(s) = 0 => At(listener[s]) = NULL
      /\ Ahead(s) >= 1 => At(listener[s]) = Front(s)
  BY <1>2, <1>3, <1>4
<1>6. ASSUME Ahead(s) >= 1
      PROVE  /\ Front(s) \in Node /\ Front(s) # NULL /\ Front(s) \in allocated
             /\ (val[Front(s)] \in Item \/ (s = Root /\ val[Front(s)] \in Child \cap alive))
  <2>1. Past(s) + 1 \in 1 .. Total(s)
    BY <1>2, <1>6
  <2>2. All(s)[Past(s) + 1] \in Node
    BY <1>2, <2>1
  <2>3. All(s)[Past(s) + 1] \in allocated
    BY <2>1 DEF Shape, Allocated
  <2>4. \/ val[All(s)[Past(s) + 1]] \in Item
        \/ s = Root /\ val[All(s)[Past(s) + 1]] \in Child \cap alive
    BY <2>1 DEF Shape, Values
  <2> QED
    BY <2>2, <2>3, <2>4, Apart DEF Front
<1> QED
  BY <1>1, <1>5, <1>6

\* A list is Linked still when nothing of it has changed.
LEMMA LinkedSame ==
    ASSUME NEW s, Linked(s), spent'[s] = spent[s], unread'[s] = unread[s],
           first'[s] = first[s], last'[s] = last[s], listener'[s] = listener[s],
           \A i \in 1 .. Total(s) : next'[All(s)[i]] = next[All(s)[i]]
    PROVE  Linked(s)'
<1>1. Total(s)' = Total(s) /\ Past(s)' = Past(s) /\ All(s)' = All(s)
  BY ListSame
<1>2. ASSUME NEW i \in 1 .. Total(s)
      PROVE  next'[All(s)'[i]] = IF i = Total(s) THEN NULL ELSE All(s)'[i + 1]
  BY <1>1 DEF Linked
<1> QED
  BY <1>1, <1>2 DEF Linked

LEMMA SameShape ==
    ASSUME Shape, UNCHANGED <<heap, listener, history>>
    PROVE  Shape'
<1>1. /\ allocated' = allocated /\ alive' = alive /\ next' = next /\ val' = val
      /\ first' = first /\ last' = last /\ listener' = listener
      /\ spent' = spent /\ unread' = unread
  BY DEF heap, history
<1>2. \A s : Total(s)' = Total(s) /\ Past(s)' = Past(s) /\ Ahead(s)' = Ahead(s)
               /\ All(s)' = All(s)
  BY <1>1, ListSame
<1>3. Cells' /\ Dead'
  BY <1>1, <1>2 DEF Shape, Cells, Dead
<1>4. \A s \in alive' : Linked(s)'
  BY <1>1, LinkedSame DEF Shape
<1>5. Distinct' /\ Allocated'
  BY <1>1, <1>2 DEF Shape, Distinct, Allocated
<1>6. Values'
  BY <1>1, <1>2 DEF Shape, Values
<1> QED
  BY <1>3, <1>4, <1>5, <1>6 DEF Shape

\* The listener goes past a node.
LEMMA MoveShape ==
    ASSUME ConcatAssumption, Shape, NEW s \in alive, Ahead(s) >= 1, MoveTo(s, Front(s)),
           UNCHANGED heap
    PROVE  /\ Shape' /\ Past(s)' = Past(s) + 1 /\ Ahead(s)' = Ahead(s) - 1
           /\ \A t \in Stream : All(t)' = All(t) /\ Total(t)' = Total(t)
           /\ \A t \in Stream \ {s} : /\ Past(t)' = Past(t) /\ Ahead(t)' = Ahead(t)
                                      /\ unread'[t] = unread[t]
           /\ unread'[s] = Tail(unread[s])
<1>1. /\ allocated' = allocated /\ alive' = alive /\ next' = next /\ val' = val
      /\ first' = first /\ last' = last /\ listener' = [listener EXCEPT ![s] = Front(s)]
      /\ spent' = [spent EXCEPT ![s] = Append(spent[s], Head(unread[s]))]
      /\ unread' = [unread EXCEPT ![s] = Tail(unread[s])]
  BY DEF heap, MoveTo
<1>2. Cells /\ s \in Stream /\ Linked(s)
  BY DEF Shape, Cells
<1>3. spent'[s] = Append(spent[s], Head(unread[s])) /\ unread'[s] = Tail(unread[s])
         /\ listener'[s] = Front(s)
  BY <1>1, <1>2 DEF Cells
<1>4. ASSUME NEW t \in Stream \ {s}
      PROVE  spent'[t] = spent[t] /\ unread'[t] = unread[t] /\ listener'[t] = listener[t]
  BY <1>1, <1>2 DEF Cells
<1>5. /\ spent'[s] \in Seq(Node) /\ unread'[s] \in Seq(Node)
      /\ Total(s)' = Total(s) /\ Past(s)' = Past(s) + 1 /\ Ahead(s)' = Ahead(s) - 1
      /\ All(s)' = All(s)
  BY <1>2, <1>3, ListMove
<1>6. \A t \in Stream \ {s} :
         /\ Total(t)' = Total(t) /\ Past(t)' = Past(t) /\ Ahead(t)' = Ahead(t)
         /\ All(t)' = All(t)
  BY <1>4, ListSame
<1>7. \A t \in Stream : All(t)' = All(t) /\ Total(t)' = Total(t)
  BY <1>5, <1>6
<1>8. Front(s) \in Node
  BY Listened
<1>9. Cells'
  <2>1. spent' \in [Stream -> Seq(Node)]
    BY <1>1, <1>2, <1>3, <1>5 DEF Cells
  <2>2. unread' \in [Stream -> Seq(Node)]
    BY <1>1, <1>2, <1>3, <1>5 DEF Cells
  <2>3. listener' \in [Stream -> Stream \cup Node]
    BY <1>1, <1>2, <1>8 DEF Cells
  <2> QED
    BY <1>1, <1>2, <2>1, <2>2, <2>3 DEF Cells
<1>10. Linked(s)'
  <2>1. Past(s)' # 0 /\ listener'[s] = All(s)[Past(s) + 1]
    BY <1>2, <1>3, <1>5, Lists DEF Front
  <2>2. /\ first'[s] = IF Total(s)' = 0 THEN NULL ELSE All(s)'[1]
        /\ last'[s] = IF Total(s)' = 0 THEN s ELSE All(s)'[Total(s)']
    BY <1>1, <1>2, <1>5 DEF Linked
  <2>3. \A i \in 1 .. Total(s)' :
           next'[All(s)'[i]] = IF i = Total(s)' THEN NULL ELSE All(s)'[i + 1]
    BY <1>1, <1>2, <1>5 DEF Linked
  <2> QED
    BY <1>5, <2>1, <2>2, <2>3 DEF Linked
<1>11. ASSUME NEW t \in alive', t # s
       PROVE  Linked(t)'
  <2>1. t \in Stream \ {s} /\ Linked(t)
    BY <1>1, <1>11 DEF Shape, Cells
  <2> QED
    BY <1>1, <1>4, <2>1, LinkedSame
<1>12. Distinct' /\ Allocated'
  <2>1. \A t \in alive : t \in Stream
    BY DEF Shape, Cells
  <2> QED
    BY <1>1, <1>7, <2>1 DEF Shape, Distinct, Allocated
<1>13. Values'
  <2>1. (\A t \in alive : t \in Stream) /\ Root \in Stream
    BY Apart DEF Shape, Cells
  <2> QED
    BY <1>1, <1>7, <2>1 DEF Shape, Values
<1>14. Dead'
  BY <1>1, <1>4, <1>6 DEF Shape, Dead
<1> QED
  BY <1>3, <1>4, <1>5, <1>6, <1>7, <1>9, <1>10, <1>11, <1>12, <1>13, <1>14 DEF Shape

\* A stream that is not live is an empty list.
LEMMA LinkedAll ==
    ASSUME Shape, NEW s \in Stream
    PROVE  Linked(s)
<1>1. ASSUME s \notin alive
      PROVE  /\ Total(s) = 0 /\ Past(s) = 0
             /\ first[s] = NULL /\ last[s] = s /\ listener[s] = s
  BY <1>1, Lists DEF Shape, Dead
<1>2. ASSUME s \notin alive
      PROVE  \A i \in 1 .. Total(s) : FALSE
  BY <1>1, <1>2
<1>3. s \notin alive => Linked(s)
  BY <1>1, <1>2 DEF Linked
<1> QED
  BY <1>3 DEF Shape

\* The writer of s links a node.
LEMMA LinkShape ==
    ASSUME ConcatAssumption, Shape, NEW s \in alive, NEW x,
           x \in Item \/ (s = Root /\ x \in Child \ alive),
           Link(s, x, first, last), listener' = listener, alive' = alive \cup ({x} \cap Child)
    PROVE  /\ Shape'
           /\ \A t \in Stream : Past(t)' = Past(t)
           /\ \A t \in Stream \ {s} : /\ Total(t)' = Total(t) /\ Ahead(t)' = Ahead(t)
                                      /\ unread'[t] = unread[t] /\ All(t)' = All(t)
           /\ Total(s)' = Total(s) + 1 /\ Ahead(s)' = Ahead(s) + 1
           /\ \A i \in 1 .. Total(s) : All(s)'[i] = All(s)[i]
           /\ \E n \in Node \ allocated :
                 val' = [val EXCEPT ![n] = x] /\ unread'[s] = Append(unread[s], n)
<1> DEFINE n == CHOOSE m \in Node : m \notin allocated
<1>1. /\ allocated' = allocated \cup {n}
      /\ val' = [val EXCEPT ![n] = x]
      /\ first' = IF last[s] \in Stream THEN [first EXCEPT ![last[s]] = n] ELSE first
      /\ next' = [m \in Node |-> CASE m = n       -> NULL
                                   [] m = last[s] -> n
                                   [] OTHER       -> next[m]]
      /\ last' = [last EXCEPT ![s] = n]
      /\ unread' = [unread EXCEPT ![s] = Append(unread[s], n)]
      /\ spent' = spent
  BY DEF Link
<1>2. n \in Node /\ n \notin allocated
  BY DEF Link
<1> HIDE DEF n
<1>3. Cells /\ s \in Stream /\ (\A t \in Stream : Linked(t)) /\ alive \subseteq Stream
  BY LinkedAll DEF Shape, Cells
<1>4. /\ \A t \in Stream : /\ Total(t) \in Nat /\ Past(t) \in Nat /\ Ahead(t) \in Nat
                           /\ Total(t) = Past(t) + Ahead(t)
      /\ \A t \in Stream : \A i \in 1 .. Total(t) : All(t)[i] \in Node
  BY <1>3, Lists
<1>5. /\ unread'[s] \in Seq(Node) /\ Total(s)' = Total(s) + 1 /\ Past(s)' = Past(s)
      /\ Ahead(s)' = Ahead(s) + 1 /\ All(s)'[Total(s) + 1] = n
      /\ \A i \in 1 .. Total(s) : All(s)'[i] = All(s)[i]
  <2>1. spent'[s] = spent[s] /\ unread'[s] = Append(unread[s], n)
    BY <1>1, <1>3 DEF Cells
  <2> QED
    BY <1>2, <1>3, <2>1, ListAppend
<1>6. \A t \in Stream \ {s} :
         /\ spent'[t] = spent[t] /\ unread'[t] = unread[t]
         /\ last'[t] = last[t] /\ listener'[t] = listener[t]
  BY <1>1, <1>3 DEF Cells
<1>7. \A t \in Stream \ {s} :
         Total(t)' = Total(t) /\ Past(t)' = Past(t) /\ Ahead(t)' = Ahead(t) /\ All(t)' = All(t)
  BY <1>6, ListSame
<1>8. \A t \in alive : \A i \in 1 .. Total(t) : All(t)[i] # n
  BY <1>2 DEF Shape, Allocated
<1>9. \A t \in Stream : t \notin alive => Total(t) = 0
  BY <1>4 DEF Shape, Dead
<1>10. \A t \in alive' : \A i \in 1 .. Total(t)' :
          \/ t = s /\ i = Total(s) + 1 /\ All(t)'[i] = n
          \/ t \in alive /\ i \in 1 .. Total(t) /\ All(t)'[i] = All(t)[i] /\ All(t)'[i] # n
  <2> SUFFICES ASSUME NEW t \in alive', NEW i \in 1 .. Total(t)'
               PROVE  \/ t = s /\ i = Total(s) + 1 /\ All(t)'[i] = n
                      \/ /\ t \in alive /\ i \in 1 .. Total(t)
                         /\ All(t)'[i] = All(t)[i] /\ All(t)'[i] # n
    OBVIOUS
  <2>1. t \in Stream
    BY <1>3, Apart
  <2>2. CASE t = s
    <3>1. i = Total(s) + 1 \/ i \in 1 .. Total(s)
      BY <1>3, <1>4, <1>5, <2>2
    <3> QED
      BY <1>5, <1>8, <2>2, <3>1
  <2>3. CASE t # s
    <3>1. i \in 1 .. Total(t) /\ All(t)'[i] = All(t)[i]
      BY <1>7, <2>1, <2>3
    <3>2. t \in alive
      BY <1>9, <2>1, <3>1
    <3> QED
      BY <1>8, <3>1, <3>2
  <2> QED
    BY <2>2, <2>3
<1>11. Cells'
  <2>1. first' \in [Stream -> Node \cup {NULL}]
    BY <1>1, <1>2, <1>3 DEF Cells
  <2>2. next' \in [Node -> Node \cup {NULL}]
    BY <1>1, <1>2, <1>3 DEF Cells
  <2>3. val' \in [Node -> Item \cup Child \cup {NULL}]
    BY <1>1, <1>3 DEF Cells
  <2>4. last' \in [Stream -> Stream \cup Node]
    BY <1>1, <1>2, <1>3 DEF Cells
  <2>5. spent' \in [Stream -> Seq(Node)] /\ unread' \in [Stream -> Seq(Node)]
    BY <1>1, <1>3, <1>5 DEF Cells
  <2>6. alive' \subseteq Stream /\ allocated' \subseteq Node
    BY <1>1, <1>2, <1>3, Apart DEF Cells
  <2> QED
    BY <1>3, <2>1, <2>2, <2>3, <2>4, <2>5, <2>6 DEF Cells
\* The end of the list of s.
<1>12. /\ Total(s) = 0 => last[s] = s
       /\ Total(s) # 0 => last[s] = All(s)[Total(s)] /\ Total(s) \in 1 .. Total(s)
                             /\ last[s] \in Node /\ last[s] \notin Stream
  BY <1>3, <1>4, Apart DEF Linked
<1>13. \A t \in Stream : \A i \in 1 .. Total(t) :
          /\ All(t)[i] = last[s] => t = s /\ i = Total(s)
          /\ t = s /\ i = Total(s) => All(t)[i] = last[s]
  <2> SUFFICES ASSUME NEW t \in Stream, NEW i \in 1 .. Total(t)
               PROVE  /\ All(t)[i] = last[s] => t = s /\ i = Total(s)
                      /\ t = s /\ i = Total(s) => All(t)[i] = last[s]
    OBVIOUS
  <2>1. All(t)[i] \in Node /\ t \in alive /\ All(t)[i] \notin Stream
    BY <1>4, <1>9, Apart
  <2>2. All(t)[i] = last[s] => Total(s) # 0
    BY <1>3, <1>12, <2>1
  <2>3. All(t)[i] = last[s] => t = s /\ i = Total(s)
    BY <1>12, <2>1, <2>2 DEF Shape, Distinct
  <2>4. t = s /\ i = Total(s) => All(t)[i] = last[s]
    BY <1>12
  <2> QED
    BY <2>3, <2>4
<1>14. \A t \in Stream : \A i \in 1 .. Total(t) :
          next'[All(t)[i]] = IF t = s /\ i = Total(s) THEN n ELSE next[All(t)[i]]
  <2> SUFFICES ASSUME NEW t \in Stream, NEW i \in 1 .. Total(t)
               PROVE  next'[All(t)[i]] = IF t = s /\ i = Total(s) THEN n ELSE next[All(t)[i]]
    OBVIOUS
  <2>1. All(t)[i] \in Node /\ t \in alive /\ All(t)[i] # n
    BY <1>4, <1>8, <1>9
  <2>2. next'[All(t)[i]] = IF All(t)[i] = last[s] THEN n ELSE next[All(t)[i]]
    BY <1>1, <2>1
  <2> QED
    BY <1>13, <2>2
<1>15. ASSUME NEW t \in Stream, t # s
       PROVE  Linked(t)'
  <2>1. first'[t] = first[t]
    BY <1>1, <1>3, <1>12, <1>15 DEF Cells
  <2>2. \A i \in 1 .. Total(t) : next'[All(t)[i]] = next[All(t)[i]]
    BY <1>14, <1>15
  <2> QED
    BY <1>3, <1>6, <1>15, <2>1, <2>2, LinkedSame
<1>16. Linked(s)'
  <2>1. first'[s] = IF Total(s)' = 0 THEN NULL ELSE All(s)'[1]
    <3>1. Total(s)' # 0
      BY <1>3, <1>4, <1>5
    <3>2. CASE Total(s) = 0
      BY <1>1, <1>3, <1>5, <1>12, <3>1, <3>2 DEF Cells
    <3>3. CASE Total(s) # 0
      <4>1. 1 \in 1 .. Total(s) /\ first'[s] = first[s]
        BY <1>1, <1>3, <1>4, <1>12, <3>3
      <4> QED
        BY <1>3, <1>5, <3>1, <3>3, <4>1 DEF Linked
    <3> QED
      BY <3>2, <3>3
  <2>2. ASSUME NEW i \in 1 .. Total(s)'
        PROVE  next'[All(s)'[i]] = IF i = Total(s)' THEN NULL ELSE All(s)'[i + 1]
    <3>1. /\ i \in Nat /\ Total(s) \in Nat /\ Total(s)' = Total(s) + 1
          /\ i = Total(s) + 1 \/ i \in 1 .. Total(s)
      BY <1>3, <1>4, <1>5
    <3>2. CASE i = Total(s) + 1
      <4>1. next'[n] = NULL
        <5>1. n # last[s]
          BY <1>2, <1>3, <1>8, <1>12, Apart
        <5> QED
          BY <1>1, <1>2, <5>1
      <4>2. i = Total(s)' /\ All(s)'[i] = n
        BY <1>5, <3>2
      <4> QED
        BY <4>1, <4>2
    <3>3. CASE i \in 1 .. Total(s) /\ i = Total(s)
      <4>1. i # Total(s)'
        BY <3>1, <3>3
      <4>2. All(s)'[i] = All(s)[i] /\ All(s)'[i + 1] = n
        BY <1>5, <3>3
      <4> QED
        BY <1>3, <1>14, <3>3, <4>1, <4>2
    <3>4. CASE i \in 1 .. Total(s) /\ i # Total(s)
      <4>1. i # Total(s)' /\ i + 1 \in 1 .. Total(s)
        BY <3>1, <3>4
      <4>2. All(s)'[i] = All(s)[i] /\ All(s)'[i + 1] = All(s)[i + 1]
        BY <1>5, <3>4, <4>1
      <4>3. next'[All(s)[i]] = All(s)[i + 1]
        BY <1>3, <1>14, <3>4 DEF Linked
      <4> QED
        BY <4>1, <4>2, <4>3
    <3> QED
      BY <3>1, <3>2, <3>3, <3>4
  <2>3. last'[s] = IF Total(s)' = 0 THEN s ELSE All(s)'[Total(s)']
    <3>1. Total(s)' # 0 /\ last'[s] = n
      BY <1>1, <1>3, <1>4, <1>5 DEF Cells
    <3> QED
      BY <1>5, <3>1
  <2>4. listener'[s] = IF Past(s)' = 0 THEN s ELSE All(s)'[Past(s)']
    <3>1. Past(s) = 0 \/ Past(s) \in 1 .. Total(s)
      BY <1>3, <1>4
    <3> QED
      BY <1>3, <1>5, <3>1 DEF Linked
  <2> QED
    BY <2>1, <2>2, <2>3, <2>4 DEF Linked
<1>17. Distinct'
  BY <1>10 DEF Shape, Distinct
<1>18. Allocated'
  <2>1. \A t \in alive' : \A i \in 1 .. Total(t)' : All(t)'[i] \in allocated'
    BY <1>1, <1>10 DEF Shape, Allocated
  <2>2. ASSUME NEW m \in allocated'
        PROVE  \E t \in alive' : \E i \in 1 .. Total(t)' : m = All(t)'[i]
    <3>1. CASE m = n
      <4>1. Total(s) + 1 \in 1 .. Total(s)'
        BY <1>3, <1>4, <1>5
      <4> QED
        BY <1>5, <3>1, <4>1
    <3>2. CASE m \in allocated
      <4>1. PICK t \in alive : \E i \in 1 .. Total(t) : m = All(t)[i]
        BY <3>2 DEF Shape, Allocated
      <4>2. PICK i \in 1 .. Total(t) : m = All(t)[i]
        BY <4>1
      <4>3. i \in 1 .. Total(t)' /\ All(t)'[i] = All(t)[i]
        BY <1>3, <1>4, <1>5, <1>7, SMTT(30)
      <4> QED
        BY <4>2, <4>3
    <3> QED
      BY <1>1, <3>1, <3>2
  <2> QED
    BY <2>1, <2>2 DEF Allocated
<1>19. Values'
  <2>1. val'[n] = x /\ \A m \in Node : m # n => val'[m] = val[m]
    BY <1>1, <1>2, <1>3 DEF Cells
  <2>2. \A t \in alive' : \A i \in 1 .. Total(t)' :
           \/ t = s /\ i = Total(s) + 1 /\ val'[All(t)'[i]] = x
           \/ t \in alive /\ i \in 1 .. Total(t) /\ val'[All(t)'[i]] = val[All(t)[i]]
    BY <1>3, <1>4, <1>10, <2>1
  <2>3. \A t \in alive' : \A i \in 1 .. Total(t)' :
           \/ val'[All(t)'[i]] \in Item
           \/ t = Root /\ val'[All(t)'[i]] \in Child \cap alive'
    BY <2>2 DEF Shape, Values
  <2>4. Root \in alive' => Root \in alive
    BY Apart
  <2>5. ASSUME Root \in alive', NEW i \in 1 .. Total(Root)', NEW j \in 1 .. Total(Root)',
               val'[All(Root)'[i]] = val'[All(Root)'[j]], val'[All(Root)'[i]] \in Child
        PROVE  i = j
    <3>1. /\ \/ Root = s /\ i = Total(s) + 1 /\ val'[All(Root)'[i]] = x
             \/ i \in 1 .. Total(Root) /\ val'[All(Root)'[i]] = val[All(Root)[i]]
          /\ \/ Root = s /\ j = Total(s) + 1 /\ val'[All(Root)'[j]] = x
             \/ j \in 1 .. Total(Root) /\ val'[All(Root)'[j]] = val[All(Root)[j]]
      BY <2>2, <2>5
    <3>2. x \in Item \/ x \notin alive
      OBVIOUS
    <3>3. \A k \in 1 .. Total(Root) : val[All(Root)[k]] \in Child => val[All(Root)[k]] # x
      BY <2>4, <2>5, <3>2, Apart DEF Shape, Values
    <3> QED
      BY <2>4, <2>5, <3>1, <3>3 DEF Shape, Values
  <2>6. ASSUME NEW c \in alive', c # Root
        PROVE  Root \in alive' /\ \E i \in 1 .. Total(Root)' : val'[All(Root)'[i]] = c
    <3>1. CASE c \in alive
      <4>1. PICK i \in 1 .. Total(Root) : val[All(Root)[i]] = c
        BY <2>6, <3>1 DEF Shape, Values
      <4>2. Root \in alive /\ Root \in Stream
        BY <2>6, <3>1, Apart DEF Shape, Values
      <4>3. i \in 1 .. Total(Root)' /\ All(Root)'[i] = All(Root)[i] /\ All(Root)[i] \in Node
               /\ All(Root)[i] # n
        BY <1>4, <1>5, <1>7, <1>8, <4>2
      <4> QED
        BY <2>1, <4>1, <4>2, <4>3
    <3>2. CASE c \notin alive
      <4>1. c = x /\ s = Root
        BY <3>2, Apart
      <4>2. Total(s) + 1 \in 1 .. Total(s)' /\ val'[All(s)'[Total(s) + 1]] = x
        BY <1>3, <1>4, <1>5, <2>1
      <4> QED
        BY <4>1, <4>2
    <3> QED
      BY <3>1, <3>2
  <2> QED
    BY <2>3, <2>5, <2>6 DEF Values
<1>20. Dead'
  <2> SUFFICES ASSUME NEW t \in Stream, t \notin alive'
               PROVE  /\ Past(t)' = 0 /\ Ahead(t)' = 0
                      /\ first'[t] = NULL /\ last'[t] = t /\ listener'[t] = t
    BY DEF Dead
  <2>1. t \notin alive /\ t # s
    OBVIOUS
  <2>2. first'[t] = first[t]
    BY <1>1, <1>3, <1>12, <2>1 DEF Cells
  <2> QED
    BY <1>6, <1>7, <2>1, <2>2 DEF Shape, Dead
<1>21. \A t \in alive' : Linked(t)'
  BY <1>11, <1>15, <1>16 DEF Cells
<1>22. Shape'
  BY <1>11, <1>17, <1>18, <1>19, <1>20, <1>21 DEF Shape
<1>23. unread'[s] = Append(unread[s], n)
  BY <1>1, <1>3 DEF Cells
<1> QED
  BY <1>1, <1>2, <1>5, <1>6, <1>7, <1>22, <1>23

\* The writer of s frees the oldest node of its list, and the stream given in it.
LEMMA FreeShape ==
    ASSUME ConcatAssumption, Shape, Left, NEW s \in alive, Past(s) >= 2,
           \A c \in Child : off[c] => ppc[c] = "idle", SweepFree(s)
    PROVE  /\ Shape'
           /\ Total(s)' = Total(s) - 1 /\ Past(s)' = Past(s) - 1
           /\ \A i \in 1 .. Total(s) - 1 : All(s)'[i] = All(s)[i + 1]
           /\ alive' \subseteq alive /\ Given(first[s]) = alive \ alive'
           /\ s \in alive' /\ Root \in alive'
           /\ allocated' \subseteq allocated
           /\ \A t \in Stream : Ahead(t)' = Ahead(t)
           /\ \A t \in alive' \ {s} : /\ Total(t)' = Total(t) /\ Past(t)' = Past(t)
                                      /\ All(t)' = All(t)
           /\ \A m \in allocated' : next'[m] = next[m] /\ val'[m] = val[m]
           /\ first'[s] = All(s)[2] /\ \A t \in alive' \ {s} : first'[t] = first[t]
           /\ \A c \in alive \ alive' : c \in Child /\ off[c] /\ Ahead(c) = 0
<1> DEFINE prev == first[s]
           G == Given(prev)
           F == {prev} \cup GivenNodes(prev)
<1>1. /\ Freed(F, G)
      /\ first' = [t \in Stream |-> CASE t = s    -> next[prev]
                                      [] t \in G  -> NULL
                                      [] OTHER    -> first[t]]
      /\ last' = [t \in Stream |-> IF t \in G THEN t ELSE last[t]]
      /\ listener' = [t \in Stream |-> IF t \in G THEN t ELSE listener[t]]
      /\ spent' = [t \in Stream |-> CASE t = s    -> Rest(spent[s])
                                      [] t \in G  -> << >>
                                      [] OTHER    -> spent[t]]
      /\ unread' = unread
  BY DEF SweepFree
<1>2. /\ allocated' = allocated \ F
      /\ alive' = alive \ G
      /\ next' = [m \in Node |-> IF m \in F THEN NULL ELSE next[m]]
      /\ val' = [m \in Node |-> IF m \in F THEN NULL ELSE val[m]]
  BY <1>1 DEF Freed
<1>3. Cells /\ s \in Stream /\ (\A t \in Stream : Linked(t)) /\ alive \subseteq Stream
  BY LinkedAll DEF Shape, Cells
<1>4. /\ \A t \in Stream : /\ Total(t) \in Nat /\ Past(t) \in Nat /\ Ahead(t) \in Nat
                           /\ Total(t) = Past(t) + Ahead(t)
      /\ \A t \in Stream : \A i \in 1 .. Total(t) : All(t)[i] \in Node
  BY <1>3, Lists
<1>5. /\ Total(s) >= 2 /\ 1 \in 1 .. Total(s) /\ 2 \in 1 .. Total(s) /\ 1 \in 1 .. Past(s)
      /\ Total(s) # 0 /\ Total(s) # 1
  BY <1>3, <1>4
<1>6. prev = All(s)[1] /\ next[prev] = All(s)[2] /\ prev \in Node
  BY <1>3, <1>4, <1>5 DEF Linked
\* What is given in it.
<1>7. \A c \in G : /\ c = val[prev] /\ c \in Child /\ c \in alive /\ s = Root /\ c # s
                   /\ off[c] /\ Ahead(c) = 0
  <2> SUFFICES ASSUME NEW c \in G
               PROVE  /\ c = val[prev] /\ c \in Child /\ c \in alive /\ s = Root /\ c # s
                      /\ off[c] /\ Ahead(c) = 0
    OBVIOUS
  <2>1. c = val[prev] /\ c \in Child
    BY DEF Given
  <2>2. s = Root /\ c \in alive /\ c # s
    BY <1>5, <1>6, <2>1, Apart DEF Shape, Values
  <2>3. off[c] /\ Ahead(c) = 0
    BY <1>5, <1>6, <2>1, <2>2 DEF Left
  <2> QED
    BY <2>1, <2>2, <2>3
<1>8. G \subseteq alive /\ s \notin G /\ G \subseteq Stream /\ G \subseteq Child
  BY <1>3, <1>7
<1>9. \A m : m \in F <=> \/ m = prev
                        \/ \E c \in G : \E i \in 1 .. Total(c) : m = All(c)[i]
  <2>1. \A c \in G : From(first[c]) = {All(c)[i] : i \in 1 .. Total(c)}
    BY <1>3, <1>8, FromFirst
  <2>2. F = {prev} \cup UNION {From(first[c]) : c \in G}
    BY DEF GivenNodes
  <2> HIDE DEF G
  <2>3. ASSUME NEW m
        PROVE  m \in F <=> m = prev \/ \E c \in G : m \in From(first[c])
    BY <2>2
  <2> QED
    BY <2>1, <2>3
<1> HIDE DEF prev, G, F
<1>0. /\ first'[s] = next[prev] /\ spent'[s] = Rest(spent[s])
      /\ \A t \in Stream : t \in G => first'[t] = NULL /\ spent'[t] = << >>
      /\ \A t \in Stream : t # s /\ t \notin G => first'[t] = first[t] /\ spent'[t] = spent[t]
  BY <1>1, <1>3, <1>8
\* Which places of the lists are freed.
<1>10. \A t \in alive : \A i \in 1 .. Total(t) :
          All(t)[i] \in F <=> t \in G \/ (t = s /\ i = 1)
  <2> SUFFICES ASSUME NEW t \in alive, NEW i \in 1 .. Total(t)
               PROVE  All(t)[i] \in F <=> t \in G \/ (t = s /\ i = 1)
    OBVIOUS
  <2>1. All(t)[i] = prev <=> t = s /\ i = 1
    BY <1>5, <1>6 DEF Shape, Distinct
  <2>2. t \in G => All(t)[i] \in F
    BY <1>9
  <2>3. ASSUME NEW c \in G, NEW j \in 1 .. Total(c), All(t)[i] = All(c)[j]
        PROVE  t \in G
    BY <1>8, <2>3 DEF Shape, Distinct
  <2>4. All(t)[i] \in F => All(t)[i] = prev \/ t \in G
    BY <1>9, <2>3
  <2> QED
    BY <1>9, <2>1, <2>2, <2>4
\* The lists that are left.
<1>11. /\ spent'[s] \in Seq(Node) /\ Total(s)' = Total(s) - 1 /\ Past(s)' = Past(s) - 1
       /\ Ahead(s)' = Ahead(s) /\ \A i \in 1 .. Total(s) - 1 : All(s)'[i] = All(s)[i + 1]
  <2>1. spent'[s] = Tail(spent[s])
    <3>1. spent[s] # << >>
      BY <1>3, Parts
    <3> QED
      BY <1>0, <3>1 DEF Rest
  <2>2. unread'[s] = unread[s] /\ Past(s) >= 1
    BY <1>1, <1>3, <1>4
  <2> QED
    BY <1>3, <2>1, <2>2, ListTail
<1>12. \A t \in Stream : t \notin G /\ t # s =>
          /\ spent'[t] = spent[t] /\ unread'[t] = unread[t]
          /\ first'[t] = first[t] /\ last'[t] = last[t] /\ listener'[t] = listener[t]
  BY <1>0, <1>1
<1>13. \A t \in Stream : t \notin G /\ t # s =>
          /\ Total(t)' = Total(t) /\ Past(t)' = Past(t) /\ Ahead(t)' = Ahead(t)
          /\ All(t)' = All(t)
  BY <1>12, ListSame
<1>14. \A c \in G : /\ spent'[c] = << >> /\ unread'[c] = << >>
                    /\ first'[c] = NULL /\ last'[c] = c /\ listener'[c] = c
  <2> SUFFICES ASSUME NEW c \in G
               PROVE  /\ spent'[c] = << >> /\ unread'[c] = << >>
                      /\ first'[c] = NULL /\ last'[c] = c /\ listener'[c] = c
    OBVIOUS
  <2>1. unread[c] = << >>
    BY <1>3, <1>7, <1>8, Parts
  <2>2. c \in Stream /\ c # s
    BY <1>8
  <2> QED
    BY <1>1, <2>1, <2>2
<1>15. \A c \in G : Total(c)' = 0 /\ Past(c)' = 0 /\ Ahead(c)' = 0
  BY <1>14, ListEmpty
<1>16. \A t \in alive' : \A i \in 1 .. Total(t)' :
          LET j == IF t = s THEN i + 1 ELSE i IN
          /\ t \in alive /\ j \in 1 .. Total(t) /\ All(t)'[i] = All(t)[j] /\ i \in Nat
          /\ All(t)[j] \notin F
  <2> SUFFICES ASSUME NEW t \in alive', NEW i \in 1 .. Total(t)'
               PROVE  LET j == IF t = s THEN i + 1 ELSE i IN
                      /\ t \in alive /\ j \in 1 .. Total(t) /\ All(t)'[i] = All(t)[j]
                      /\ i \in Nat /\ All(t)[j] \notin F
    OBVIOUS
  <2>1. t \in alive /\ t \notin G /\ t \in Stream
    BY <1>2, <1>3
  <2>2. CASE t = s
    <3>1. /\ i \in 1 .. Total(s) - 1 /\ i + 1 \in 1 .. Total(s) /\ i \in Nat /\ i + 1 # 1
      BY <1>3, <1>4, <1>11, <2>2
    <3>2. All(s)[i + 1] \notin F
      BY <1>8, <1>10, <3>1
    <3> QED
      BY <1>11, <2>1, <2>2, <3>1, <3>2
  <2>3. CASE t # s
    <3>1. i \in 1 .. Total(t) /\ All(t)'[i] = All(t)[i] /\ i \in Nat
      BY <1>4, <1>13, <2>1, <2>3
    <3>2. All(t)[i] \notin F
      BY <1>10, <2>1, <2>3, <3>1
    <3> QED
      BY <2>1, <2>3, <3>1, <3>2
  <2> QED
    BY <2>2, <2>3
<1>17. \A t \in alive' : \A i \in 1 .. Total(t)' :
          \E j \in 1 .. Total(t) : /\ All(t)'[i] = All(t)[j] /\ All(t)[j] \notin F
                                   /\ j = (IF t = s THEN i + 1 ELSE i) /\ i \in Nat
  BY <1>16
<1>18. Cells'
  <2>1. first' \in [Stream -> Node \cup {NULL}]
    <3>1. \A t \in Stream : first[t] \in Node \cup {NULL}
      BY <1>3 DEF Cells
    <3>2. next[prev] \in Node \cup {NULL}
      BY <1>3, <1>6 DEF Cells
    <3> QED
      BY <1>1, <3>1, <3>2
  <2>2. next' \in [Node -> Node \cup {NULL}] /\ val' \in [Node -> Item \cup Child \cup {NULL}]
    BY <1>2, <1>3 DEF Cells
  <2>3. last' \in [Stream -> Stream \cup Node] /\ listener' \in [Stream -> Stream \cup Node]
    BY <1>1, <1>3 DEF Cells
  <2>4. spent' \in [Stream -> Seq(Node)]
    <3>1. \A t \in Stream : spent[t] \in Seq(Node)
      BY <1>3 DEF Cells
    <3>2. Rest(spent[s]) \in Seq(Node)
      BY <1>0, <1>11
    <3> QED
      BY <1>1, <3>1, <3>2
  <2>5. unread' \in [Stream -> Seq(Node)] /\ alive' \subseteq Stream /\ allocated' \subseteq Node
    BY <1>1, <1>2, <1>3 DEF Cells
  <2> QED
    BY <2>1, <2>2, <2>3, <2>4, <2>5 DEF Cells
<1>19. ASSUME NEW t \in alive', t # s
       PROVE  Linked(t)'
  <2>1. t \in Stream /\ t \notin G /\ t \in alive
    BY <1>2, <1>3
  <2>2. \A i \in 1 .. Total(t) : next'[All(t)[i]] = next[All(t)[i]]
    BY <1>2, <1>4, <1>10, <1>19, <2>1
  <2> QED
    BY <1>3, <1>12, <1>19, <2>1, <2>2, LinkedSame
<1>20. Linked(s)'
  <2>1. /\ Total(s)' \in Nat /\ Total(s)' # 0 /\ Past(s)' # 0 /\ Past(s) # 0
        /\ Total(s)' + 1 = Total(s) /\ Past(s)' + 1 = Past(s)
        /\ 1 \in 1 .. Total(s) - 1 /\ Total(s)' \in 1 .. Total(s) - 1
        /\ Past(s)' \in 1 .. Total(s) - 1
    BY <1>3, <1>4, <1>11, SMTT(30)
  <2>2. first'[s] = All(s)'[1]
    <3>1. All(s)'[1] = All(s)[1 + 1]
      BY <1>11, <2>1
    <3> QED
      BY <1>0, <1>6, <3>1
  <2>3. last'[s] = All(s)'[Total(s)'] /\ listener'[s] = All(s)'[Past(s)']
    <3>1. /\ All(s)'[Total(s)'] = All(s)[Total(s)] /\ All(s)'[Past(s)'] = All(s)[Past(s)]
      BY <1>11, <2>1
    <3>2. last[s] = All(s)[Total(s)] /\ listener[s] = All(s)[Past(s)]
      BY <1>3, <1>5, <2>1 DEF Linked
    <3>3. last'[s] = last[s] /\ listener'[s] = listener[s]
      BY <1>1, <1>3, <1>8
    <3> QED
      BY <3>1, <3>2, <3>3
  <2>4. ASSUME NEW i \in 1 .. Total(s)'
        PROVE  next'[All(s)'[i]] = IF i = Total(s)' THEN NULL ELSE All(s)'[i + 1]
    <3>1. i \in 1 .. Total(s) - 1 /\ i + 1 \in 1 .. Total(s) /\ i \in Nat /\ i + 1 # 1
      BY <1>3, <1>4, <1>11
    <3>2. All(s)'[i] = All(s)[i + 1] /\ All(s)[i + 1] \notin F /\ All(s)[i + 1] \in Node
      BY <1>3, <1>4, <1>8, <1>10, <1>11, <3>1
    <3>3. next'[All(s)'[i]] = next[All(s)[i + 1]]
      BY <1>2, <3>2
    <3>4. CASE i = Total(s)'
      <4>1. i + 1 = Total(s)
        BY <2>1, <3>4
      <4> QED
        BY <1>3, <3>1, <3>3, <3>4, <4>1 DEF Linked
    <3>5. CASE i # Total(s)'
      <4>1. i + 1 # Total(s) /\ i + 1 \in 1 .. Total(s) - 1
        BY <2>1, <3>1, <3>5
      <4>2. All(s)'[i + 1] = All(s)[i + 1 + 1]
        BY <1>11, <4>1
      <4> QED
        BY <1>3, <3>1, <3>3, <3>5, <4>1, <4>2 DEF Linked
    <3> QED
      BY <3>4, <3>5
  <2> QED
    BY <2>1, <2>2, <2>3, <2>4 DEF Linked
<1>21. Distinct'
  <2> SUFFICES ASSUME NEW t \in alive', NEW u \in alive',
                      NEW i \in 1 .. Total(t)', NEW j \in 1 .. Total(u)',
                      All(t)'[i] = All(u)'[j]
               PROVE  t = u /\ i = j
    BY DEF Distinct
  <2>1. t \in alive /\ u \in alive
    BY <1>2
  <2>2. PICK k \in 1 .. Total(t) : /\ All(t)'[i] = All(t)[k] /\ i \in Nat
                                   /\ k = (IF t = s THEN i + 1 ELSE i)
    BY <1>17
  <2>3. PICK l \in 1 .. Total(u) : /\ All(u)'[j] = All(u)[l] /\ j \in Nat
                                   /\ l = (IF u = s THEN j + 1 ELSE j)
    BY <1>17
  <2>4. All(t)[k] = All(u)[l]
    BY <2>2, <2>3, Zenon
  <2>5. t = u /\ k = l
    BY <2>1, <2>2, <2>3, <2>4 DEF Shape, Distinct
  <2> QED
    BY <2>2, <2>3, <2>5
<1>22. Allocated'
  <2>1. \A t \in alive' : \A i \in 1 .. Total(t)' : All(t)'[i] \in allocated'
    BY <1>2, <1>17 DEF Shape, Allocated
  <2>2. ASSUME NEW m \in allocated'
        PROVE  \E t \in alive' : \E i \in 1 .. Total(t)' : m = All(t)'[i]
    <3>1. m \in allocated /\ m \notin F
      BY <1>2
    <3>2. PICK t \in alive : \E i \in 1 .. Total(t) : m = All(t)[i]
      BY <3>1 DEF Shape, Allocated
    <3>3. PICK i \in 1 .. Total(t) : m = All(t)[i]
      BY <3>2
    <3>4. t \notin G /\ ~(t = s /\ i = 1) /\ t \in Stream /\ t \in alive'
      BY <1>2, <1>3, <1>10, <3>1, <3>3
    <3>5. CASE t = s
      <4>1. i - 1 \in 1 .. Total(s) - 1 /\ i - 1 + 1 = i
        BY <1>3, <1>4, <3>4, <3>5
      <4> QED
        BY <1>11, <3>3, <3>4, <3>5, <4>1
    <3>6. CASE t # s
      BY <1>13, <3>3, <3>4, <3>6
    <3> QED
      BY <3>5, <3>6
  <2> QED
    BY <2>1, <2>2 DEF Allocated
<1>23. \A m \in Node : m \notin F => next'[m] = next[m] /\ val'[m] = val[m]
  BY <1>2
<1>24. Root \in alive'
  <2>1. Root \in alive
    BY DEF Shape, Values
  <2> QED
    BY <1>2, <1>8, <2>1, Apart
<1>25. Values'
  <2>1. \A t \in alive' : \A i \in 1 .. Total(t)' :
           \E j \in 1 .. Total(t) : /\ val'[All(t)'[i]] = val[All(t)[j]] /\ t \in alive
                                    /\ j = (IF t = s THEN i + 1 ELSE i) /\ i \in Nat
                                    /\ All(t)[j] \notin F
    BY <1>2, <1>3, <1>4, <1>17, <1>23
  <2>2. \A c \in G : s = Root /\ c = val[All(s)[1]]
    BY <1>6, <1>7
  <2>3. ASSUME NEW t \in alive', NEW i \in 1 .. Total(t)'
        PROVE  \/ val'[All(t)'[i]] \in Item
               \/ t = Root /\ val'[All(t)'[i]] \in Child \cap alive'
    <3>1. PICK j \in 1 .. Total(t) : /\ val'[All(t)'[i]] = val[All(t)[j]] /\ t \in alive
                                     /\ j = (IF t = s THEN i + 1 ELSE i) /\ i \in Nat
                                     /\ All(t)[j] \notin F
      BY <2>1
    <3>2. \/ val[All(t)[j]] \in Item
          \/ t = Root /\ val[All(t)[j]] \in Child \cap alive
      BY <3>1 DEF Shape, Values
    <3>3. ASSUME t = Root, val[All(t)[j]] \in Child, val[All(t)[j]] \in G
          PROVE  FALSE
      <4>1. s = Root /\ val[All(s)[j]] = val[All(s)[1]] /\ 1 \in 1 .. Total(s)
        BY <1>5, <2>2, <3>3
      <4>2. j = 1
        BY <3>1, <3>3, <4>1 DEF Shape, Values
      <4> QED
        BY <3>1, <3>3, <4>1, <4>2
    <3> QED
      BY <1>2, <3>1, <3>2, <3>3
  <2>4. ASSUME NEW i \in 1 .. Total(Root)', NEW j \in 1 .. Total(Root)',
               val'[All(Root)'[i]] = val'[All(Root)'[j]], val'[All(Root)'[i]] \in Child
        PROVE  i = j
    <3>1. PICK k \in 1 .. Total(Root) : /\ val'[All(Root)'[i]] = val[All(Root)[k]]
                                        /\ Root \in alive /\ i \in Nat
                                        /\ k = (IF Root = s THEN i + 1 ELSE i)
      BY <1>24, <2>1
    <3>2. PICK l \in 1 .. Total(Root) : /\ val'[All(Root)'[j]] = val[All(Root)[l]]
                                        /\ j \in Nat
                                        /\ l = (IF Root = s THEN j + 1 ELSE j)
      BY <1>24, <2>1
    <3>3. val[All(Root)[k]] = val[All(Root)[l]] /\ val[All(Root)[k]] \in Child
      BY <2>4, <3>1, <3>2, Zenon
    <3>4. k = l
      BY <3>1, <3>3, Zenon DEF Shape, Values
    <3> QED
      BY <3>1, <3>2, <3>4
  <2>5. ASSUME NEW c \in alive', c # Root
        PROVE  \E i \in 1 .. Total(Root)' : val'[All(Root)'[i]] = c
    <3>1. c \in alive /\ c \notin G /\ Root \in alive /\ Root \notin G
      BY <1>2, <1>24
    <3>2. PICK i \in 1 .. Total(Root) : val[All(Root)[i]] = c
      BY <2>5, <3>1 DEF Shape, Values
    <3>3. ~(Root = s /\ i = 1)
      <4>1. ASSUME Root = s, i = 1
            PROVE  c \in G
        <5>1. c = val[prev] /\ c \in Child
          BY <1>3, <1>6, <2>5, <3>1, <3>2, <4>1, Apart
        <5> QED
          BY <5>1 DEF G, Given
      <4> QED
        BY <3>1, <4>1
    <3>4. All(Root)[i] \notin F /\ All(Root)[i] \in Node
      BY <1>3, <1>4, <1>10, <3>1, <3>3
    <3>5. CASE Root = s
      <4>1. i - 1 \in 1 .. Total(s) - 1 /\ i - 1 + 1 = i
        BY <1>3, <1>4, <3>3, <3>5
      <4>2. All(s)'[i - 1] = All(s)[i] /\ i - 1 \in 1 .. Total(s)'
        BY <1>11, <4>1
      <4> QED
        BY <1>23, <3>2, <3>4, <3>5, <4>2
    <3>6. CASE Root # s
      <4>1. All(Root)' = All(Root) /\ Total(Root)' = Total(Root)
        BY <1>3, <1>13, <3>1, <3>6
      <4> QED
        BY <1>23, <3>2, <3>4, <4>1
    <3> QED
      BY <3>5, <3>6
  <2> QED
    BY <1>24, <2>3, <2>4, <2>5 DEF Values
<1>26. Dead'
  <2> SUFFICES ASSUME NEW t \in Stream, t \notin alive'
               PROVE  /\ Past(t)' = 0 /\ Ahead(t)' = 0
                      /\ first'[t] = NULL /\ last'[t] = t /\ listener'[t] = t
    BY DEF Dead
  <2>1. CASE t \in G
    BY <1>14, <1>15, <2>1
  <2>2. CASE t \notin G
    <3>1. t \notin alive /\ t # s
      BY <1>2, <2>2
    <3> QED
      BY <1>12, <1>13, <2>2, <3>1 DEF Shape, Dead
  <2> QED
    BY <2>1, <2>2
<1>27. Shape'
  BY <1>18, <1>19, <1>20, <1>21, <1>22, <1>25, <1>26 DEF Shape
<1>28. \A t \in Stream : Ahead(t)' = Ahead(t)
  BY <1>7, <1>11, <1>13, <1>15
<1>29. \A t \in alive' \ {s} : /\ Total(t)' = Total(t) /\ Past(t)' = Past(t)
                               /\ All(t)' = All(t) /\ first'[t] = first[t]
  BY <1>2, <1>3, <1>12, <1>13
<1>30. \A m \in allocated' : next'[m] = next[m] /\ val'[m] = val[m]
  BY <1>2, <1>3, <1>23 DEF Cells
<1>31. /\ alive' \subseteq alive /\ Given(first[s]) = alive \ alive'
       /\ \A c \in alive \ alive' : c \in Child /\ off[c] /\ Ahead(c) = 0
  <2>1. G = alive \ alive'
    BY <1>2, <1>8
  <2>2. G = Given(first[s])
    BY DEF G, prev
  <2> QED
    BY <1>2, <1>7, <2>1, <2>2
<1>32. s \in alive' /\ first'[s] = All(s)[2] /\ allocated' \subseteq allocated
  BY <1>1, <1>2, <1>3, <1>6, <1>8
<1> QED
  BY <1>11, <1>24, <1>27, <1>28, <1>29, <1>30, <1>31, <1>32

\* ~concat frees everything.
LEMMA DestroyShape ==
    ASSUME ConcatAssumption, Shape, Root \in alive, Destroy
    PROVE  /\ Shape' /\ alive' = {} /\ allocated' = {}
           /\ \A t \in Stream : /\ Total(t)' = 0 /\ Past(t)' = 0 /\ Ahead(t)' = 0
                                /\ unread'[t] = << >>
<1> DEFINE nodes == From(first[Root])
           F == nodes \cup UNION {GivenNodes(n) : n \in nodes}
           G == {Root} \cup UNION {Given(n) : n \in nodes}
<1>1. /\ allocated' = allocated \ F /\ alive' = alive \ G
      /\ next' = [m \in Node |-> IF m \in F THEN NULL ELSE next[m]]
      /\ val' = [m \in Node |-> IF m \in F THEN NULL ELSE val[m]]
      /\ first' = [s \in Stream |-> NULL]
      /\ last' = [s \in Stream |-> s]
      /\ listener' = [s \in Stream |-> s]
      /\ spent' = [s \in Stream |-> << >>]
      /\ unread' = [s \in Stream |-> << >>]
  BY DEF Destroy, Freed
<1>2. Cells /\ (\A t \in Stream : Linked(t)) /\ alive \subseteq Stream /\ Root \in Stream
  BY LinkedAll DEF Shape, Cells
<1>3. nodes = {All(Root)[i] : i \in 1 .. Total(Root)}
  BY <1>2, FromFirst
<1>4. ASSUME NEW c \in alive, c # Root
      PROVE  c \in G /\ \A i \in 1 .. Total(c) : All(c)[i] \in F
  <2>1. PICK k \in 1 .. Total(Root) : val[All(Root)[k]] = c
    BY <1>4 DEF Shape, Values
  <2>2. All(Root)[k] \in nodes
    BY <1>3
  <2> HIDE DEF nodes
  <2>3. c \in Given(All(Root)[k])
    BY <1>2, <1>4, <2>1, Apart DEF Given
  <2>4. From(first[c]) = {All(c)[i] : i \in 1 .. Total(c)}
    BY <1>2, FromFirst
  <2>5. \A i \in 1 .. Total(c) : All(c)[i] \in From(first[c])
    BY <2>4
  <2>6. From(first[c]) \subseteq GivenNodes(All(Root)[k])
    BY <2>3 DEF GivenNodes
  <2>7. c \in G
    BY <2>2, <2>3
  <2>8. GivenNodes(All(Root)[k]) \subseteq F
    BY <2>2
  <2> QED
    BY <2>5, <2>6, <2>7, <2>8
<1>5. alive' = {}
  BY <1>1, <1>4
<1>6. allocated' = {}
  <2> SUFFICES ASSUME NEW m \in allocated
               PROVE  m \in F
    BY <1>1
  <2>1. PICK t \in alive : \E i \in 1 .. Total(t) : m = All(t)[i]
    BY DEF Shape, Allocated
  <2>2. CASE t = Root
    BY <1>3, <2>1, <2>2
  <2>3. CASE t # Root
    BY <1>4, <2>1, <2>3
  <2> QED
    BY <2>2, <2>3
<1>7. \A t \in Stream : /\ spent'[t] = << >> /\ unread'[t] = << >>
                        /\ first'[t] = NULL /\ last'[t] = t /\ listener'[t] = t
  BY <1>1
<1>8. \A t \in Stream : Total(t)' = 0 /\ Past(t)' = 0 /\ Ahead(t)' = 0
  BY <1>7, ListEmpty
<1> HIDE DEF F, G
<1>9. Cells'
  <2>1. << >> \in Seq(Node)
    OBVIOUS
  <2>2. next' \in [Node -> Node \cup {NULL}] /\ val' \in [Node -> Item \cup Child \cup {NULL}]
    BY <1>1, <1>2 DEF Cells
  <2> QED
    BY <1>1, <1>5, <1>6, <2>1, <2>2 DEF Cells
<1>10. Dead'
  BY <1>7, <1>8 DEF Dead
<1>11. Distinct' /\ Values' /\ Allocated' /\ \A s \in alive' : Linked(s)'
  BY <1>5, <1>6, Apart DEF Distinct, Values, Allocated
<1> QED
  BY <1>5, <1>6, <1>7, <1>8, <1>9, <1>10, <1>11 DEF Shape

\* The oldest node of a list and the one behind it.
Oldest ==
    \A s \in alive : Total(s) >= 1 =>
        /\ first[s] = All(s)[1] /\ first[s] \in Node /\ first[s] \in allocated
        /\ next[first[s]] = IF Total(s) = 1 THEN NULL ELSE All(s)[2]

LEMMA OldestIs ==
    ASSUME ConcatAssumption, Shape
    PROVE  Oldest
<1> SUFFICES ASSUME NEW s \in alive, Total(s) >= 1
             PROVE  /\ first[s] = All(s)[1] /\ first[s] \in Node /\ first[s] \in allocated
                    /\ next[first[s]] = IF Total(s) = 1 THEN NULL ELSE All(s)[2]
  BY DEF Oldest
<1>1. s \in Stream /\ Linked(s) /\ Total(s) \in Nat
  BY Lists DEF Shape, Cells
<1>2. 1 \in 1 .. Total(s) /\ Total(s) # 0
  BY <1>1
<1>3. All(s)[1] \in Node /\ All(s)[1] \in allocated
  BY <1>1, <1>2, Lists DEF Shape, Allocated
<1> QED
  BY <1>1, <1>2, <1>3 DEF Linked

LEMMA OldestNext ==
    ASSUME ConcatAssumption
    PROVE  Shape' => Oldest'
<1>1. Shape => Oldest
  BY OldestIs
<1> QED
  BY <1>1, PTL
-----------------------------------------------------------------------------
(***************************************************************************)
(* What the steps of a kind have in common                                 *)
(***************************************************************************)
LEMMA InvParts ==
    ASSUME ConcatAssumption, IInv
    PROVE  /\ Shape /\ Left /\ Writing /\ ListenTypes /\ ListenerAt /\ Promises
           /\ Cells /\ alive \subseteq Stream /\ (\A s \in Stream : Linked(s))
           /\ \A s \in Stream : /\ Total(s) \in Nat /\ Past(s) \in Nat /\ Ahead(s) \in Nat
                                /\ Total(s) = Past(s) + Ahead(s)
                                /\ \A i \in 1 .. Total(s) : All(s)[i] \in Node
           /\ \A s \in Stream : s \notin alive => Total(s) = 0 /\ Past(s) = 0 /\ Ahead(s) = 0
<1>1. /\ Shape /\ Left /\ Writing /\ ListenTypes /\ ListenerAt /\ Promises
      /\ Cells /\ alive \subseteq Stream /\ (\A s \in Stream : Linked(s))
  BY LinkedAll DEF IInv, Shape, Cells
<1>2. \A s \in Stream : /\ Total(s) \in Nat /\ Past(s) \in Nat /\ Ahead(s) \in Nat
                        /\ Total(s) = Past(s) + Ahead(s)
                        /\ \A i \in 1 .. Total(s) : All(s)[i] \in Node
  BY <1>1, Lists
<1>3. \A s \in Stream : s \notin alive => Past(s) = 0 /\ Ahead(s) = 0
  BY <1>1 DEF Shape, Dead
<1>4. \A s \in Stream : s \notin alive => Total(s) = 0
  BY <1>2, <1>3
<1> QED
  BY <1>1, <1>2, <1>3, <1>4

\* The node in front of the listener.
LEMMA FrontIs ==
    ASSUME ConcatAssumption, IInv, NEW s \in Stream
    PROVE  /\ unread[s] = << >> <=> Ahead(s) = 0
           /\ Ahead(s) >= 1 => /\ s \in alive /\ Past(s) + 1 \in 1 .. Total(s)
                               /\ Front(s) \in Node /\ Front(s) \in allocated
                               /\ Front(s) = unread[s][1] /\ DOMAIN unread[s] = 1 .. Ahead(s)
                               /\ At(listener[s]) = Front(s) /\ Front(s) # NULL
                               /\ (val[Front(s)] \in Item
                                     \/ (s = Root /\ val[Front(s)] \in Child \cap alive))
           /\ Ahead(s) = 0 /\ s \in alive => At(listener[s]) = NULL
<1>1. unread[s] = << >> <=> Ahead(s) = 0
  BY InvParts, Parts
<1>2. ASSUME Ahead(s) >= 1
      PROVE  /\ s \in alive /\ Past(s) + 1 \in 1 .. Total(s)
             /\ Front(s) = unread[s][1] /\ DOMAIN unread[s] = 1 .. Ahead(s)
  <2>1. s \in alive /\ Past(s) + 1 \in 1 .. Total(s) /\ 1 \in 1 .. Ahead(s)
    BY <1>2, InvParts
  <2>2. Cells
    BY InvParts
  <2>3. DOMAIN unread[s] = 1 .. Ahead(s) /\ unread[s][1] = All(s)[Past(s) + 1]
    BY <2>1, <2>2, Parts
  <2> QED
    BY <2>1, <2>3 DEF Front
<1>3. Shape
  BY InvParts
<1> QED
  BY <1>1, <1>2, <1>3, Listened

\* The stream the listener is looking at is live.
LEMMA CurAlive ==
    ASSUME ConcatAssumption, IInv, cpc # "gone"
    PROVE  /\ Root \in Stream /\ Root \in alive /\ cur \in alive /\ cur \in Stream
           /\ cur # Root => cur \in Child /\ Ahead(Root) >= 1 /\ cur = val[Front(Root)]
<1>1. Root \in Stream /\ (\A s \in Stream : s = Root \/ s \in Child)
  BY Apart
<1>2. cur \in Stream /\ Root \in alive
  BY InvParts DEF ListenTypes, ListenerAt
<1>3. cur # Root => InGiven(node) \/ InGiven(outer)
  BY InvParts DEF ListenerAt
<1>4. cur # Root => cur = val[Front(Root)] /\ Ahead(Root) >= 1
  BY <1>3 DEF InGiven
<1>5. cur # Root => cur \in alive /\ cur \in Child
  BY <1>1, <1>2, <1>4, FrontIs, Apart
<1> QED
  BY <1>1, <1>2, <1>4, <1>5

\* Steps of the listener that leave the lists as they are.
LEMMA Stays ==
    ASSUME ConcatAssumption, IInv, UNCHANGED <<heap, listener, off, writers, history>>
    PROVE  /\ Shape' /\ Left' /\ Writing'
           /\ \A s : Ahead(s)' = Ahead(s) /\ Front(s)' = Front(s) /\ Total(s)' = Total(s)
           /\ alive' = alive /\ val' = val /\ off' = off /\ unread' = unread
           /\ Readable' = Readable
<1>1. /\ alive' = alive /\ next' = next /\ val' = val /\ first' = first
      /\ off' = off /\ ppc' = ppc /\ iter' = iter /\ spent' = spent /\ unread' = unread
      /\ UNCHANGED <<heap, listener, history>>
  BY DEF heap, history, writers
<1>2. \A s : Total(s)' = Total(s) /\ Past(s)' = Past(s) /\ Ahead(s)' = Ahead(s)
               /\ All(s)' = All(s)
  BY <1>1, ListSame
<1>3. \A s : Front(s)' = Front(s)
  BY <1>2 DEF Front
<1>4. Shape'
  BY <1>1, InvParts, SameShape
<1>5. Left'
  BY <1>1, <1>2, InvParts DEF Left
<1>6. Writing'
  BY <1>1, <1>2, InvParts DEF Writing, WriterAt
<1>7. Readable' = Readable
  BY <1>1 DEF Readable, HasItem, Finished
<1> QED
  BY <1>1, <1>2, <1>3, <1>4, <1>5, <1>6, <1>7

\* Steps of the listener that go past a node.
LEMMA Moves ==
    ASSUME ConcatAssumption, IInv, NEW s \in alive, Ahead(s) >= 1, MoveTo(s, Front(s)),
           UNCHANGED <<heap, off, writers>>,
           s = Root /\ val[Front(s)] \in Child =>
              off[val[Front(s)]] /\ Ahead(val[Front(s)]) = 0
    PROVE  /\ Shape' /\ Left' /\ Writing'
           /\ alive' = alive /\ val' = val /\ off' = off
           /\ unread' = [unread EXCEPT ![s] = Tail(unread[s])]
<1>1. /\ alive' = alive /\ next' = next /\ val' = val /\ first' = first
      /\ off' = off /\ ppc' = ppc /\ iter' = iter /\ UNCHANGED heap
      /\ unread' = [unread EXCEPT ![s] = Tail(unread[s])]
  BY DEF heap, writers, MoveTo
<1>2. Shape /\ Left /\ Writing /\ s \in Stream
  BY InvParts
<1>3. /\ Shape' /\ Past(s)' = Past(s) + 1 /\ Ahead(s)' = Ahead(s) - 1
      /\ \A t \in Stream : All(t)' = All(t) /\ Total(t)' = Total(t)
      /\ \A t \in Stream \ {s} : Past(t)' = Past(t) /\ Ahead(t)' = Ahead(t)
  BY <1>1, <1>2, MoveShape
<1>4. \A t \in Stream : /\ Total(t) \in Nat /\ Past(t) \in Nat /\ Ahead(t) \in Nat
                        /\ Total(t) = Past(t) + Ahead(t)
  BY InvParts
<1>5. Left'
  <2>1. ASSUME NEW i \in 1 .. Past(Root)', NEW c \in Child, val[All(Root)[i]] = c
        PROVE  off[c] /\ Ahead(c)' = 0
    <3>1. c \in Stream /\ c # Root /\ Root \in Stream
      BY Apart
    <3>2. CASE s = Root
      <4>1. i \in 1 .. Past(Root) \/ i = Past(Root) + 1
        BY <1>2, <1>3, <1>4, <3>2
      <4>2. off[c] /\ Ahead(c) = 0
        BY <1>2, <2>1, <3>2, <4>1 DEF Left, Front
      <4> QED
        BY <1>3, <3>1, <3>2, <4>2
    <3>3. CASE s # Root
      <4>1. i \in 1 .. Past(Root)
        BY <1>3, <3>1, <3>3
      <4>2. off[c] /\ Ahead(c) = 0
        BY <1>2, <2>1, <4>1 DEF Left
      <4>3. c # s
        BY <1>2, <1>4, <4>2
      <4> QED
        BY <1>3, <3>1, <4>2, <4>3
    <3> QED
      BY <3>2, <3>3
  <2>2. All(Root)' = All(Root)
    BY <1>3, Apart
  <2> QED
    BY <1>1, <2>1, <2>2 DEF Left
<1>6. Writing'
  <2> SUFFICES ASSUME NEW t \in Stream
               PROVE  WriterAt(t)'
    BY <1>1, <1>2 DEF Writing
  <2>1. Past(t) >= 1 => Past(t)' >= 1
    BY <1>2, <1>3, <1>4
  <2>2. WriterAt(t)
    BY <1>2 DEF Writing
  <2> QED
    BY <1>1, <1>3, <2>1, <2>2 DEF WriterAt
<1> QED
  BY <1>1, <1>3, <1>5, <1>6

\* Steps of a writer: what they leave to the listener.
Kept ==
    /\ Root \in alive'
    /\ \A t \in Stream : /\ Ahead(t)' \in Nat /\ Ahead(t)' >= Ahead(t)
                         /\ Ahead(t) >= 1 => Front(t)' = Front(t)
                         /\ DOMAIN unread'[t] = 1 .. Ahead(t)'
                         /\ \A i \in 1 .. Ahead(t) : unread'[t][i] = unread[t][i]
    /\ \A t \in alive : off[t] => off'[t] /\ unread'[t] = unread[t] /\ Ahead(t)' = Ahead(t)
    /\ \A i \in 1 .. Ahead(Root) : val'[unread[Root][i]] = val[unread[Root][i]]

LEMMA Writes ==
    ASSUME ConcatAssumption, IInv, Running, UNCHANGED listening, Kept
    PROVE  ListenTypes' /\ ListenerAt' /\ Promises'
<1>1. /\ cpc' = cpc /\ op' = op /\ cur' = cur /\ outer' = outer /\ node' = node
      /\ closed' = closed /\ isready' = isready /\ got' = got /\ answer' = answer
      /\ promised' = promised
  BY DEF listening
<1>2. /\ cpc # "gone" /\ Root \in alive /\ Root \in Stream /\ cur \in alive /\ cur \in Stream
  BY CurAlive DEF Running
<1>3. ListenTypes'
  BY <1>1, InvParts DEF ListenTypes
<1>4. /\ \A t \in Stream : /\ Ahead(t) \in Nat /\ Ahead(t)' \in Nat /\ Ahead(t)' >= Ahead(t)
                           /\ Ahead(t) >= 1 => Front(t)' = Front(t) /\ Ahead(t)' >= 1
      /\ \A t \in alive : off[t] => off'[t] /\ Ahead(t)' = Ahead(t)
      /\ Root \in alive'
  <2>1. \A t \in Stream : Ahead(t) \in Nat
    BY InvParts
  <2> QED
    BY <2>1 DEF Kept
<1>7. Ahead(Root) >= 1 => /\ Ahead(Root)' >= 1 /\ Front(Root)' = Front(Root)
                          /\ val'[Front(Root)] = val[Front(Root)]
  <2>1. ASSUME Ahead(Root) >= 1
        PROVE  val'[Front(Root)] = val[Front(Root)]
    <3>1. Front(Root) = unread[Root][1] /\ 1 \in 1 .. Ahead(Root)
      BY <1>2, <1>4, <2>1, FrontIs
    <3> QED
      BY <3>1 DEF Kept
  <2> QED
    BY <1>2, <1>4, <2>1
<1>8. \A m : InGiven(m) => InGiven(m)'
  BY <1>1, <1>7 DEF InGiven
<1>9. ListenerAt'
  <2> DEFINE P(t) == /\ cpc \in {"reload", "end", "empty_given"} => off'[t]
                     /\ cpc = "end" => Ahead(t)' = 0
                     /\ cpc = "have" => Ahead(t)' >= 1 /\ node = Front(t)'
                     /\ cpc \in {"ready_given", "ready_end"} /\ closed => off'[t]
                     /\ cpc = "ready_end" => (isready => Ahead(t)' >= 1)
                     /\ cpc = "ready_end" /\ closed /\ ~isready => Ahead(t)' = 0
  <2>1. ListenerAt
    BY InvParts
  <2>2. IF cpc = "gone" THEN alive' = {} /\ off'[Root] ELSE Root \in alive'
    BY <1>2, <1>4
  <2>3. /\ cpc \in Asking => outer = NULL /\ \A m : m = node => InGiven(m)'
        /\ cpc \in Getting => IF cur = Root THEN outer = NULL
                                            ELSE \A m : m = outer => InGiven(m)'
    BY <1>8, <2>1 DEF ListenerAt
  <2>4. \A t \in Stream : t = cur => P(t)
    BY <1>2, <1>4, <2>1 DEF ListenerAt
  <2> HIDE DEF P
  <2>5. \A t \in Stream : t = cur' => P(t)
    BY <1>1, <2>4
  <2> QED
    BY <1>1, <1>2, <2>1, <2>2, <2>3, <2>5 DEF P, ListenerAt, InGiven, Getting, Asking
<1>10. Promises'
  <2> SUFFICES ASSUME op = "ready", promised
               PROVE  /\ Readable'
                      /\ cpc = "ready_given" /\ ~closed =>
                           \A t \in Stream : t = cur => Ahead(t)' >= 1
                      /\ cpc = "ready_end" /\ ~closed => isready
    BY <1>1, <1>2 DEF Promises
  <2>1. Promises
    BY InvParts
  <2>2. /\ cpc = "ready_given" /\ ~closed => \A t \in Stream : t = cur => Ahead(t)' >= 1
        /\ cpc = "ready_end" /\ ~closed => isready
    BY <1>4, <2>1 DEF Promises
  <2>3. Readable'
    <3>1. PICK i \in DOMAIN unread[Root] : /\ HasItem(unread[Root][i])
                                           /\ \A j \in 1 .. i - 1 : Finished(unread[Root][j])
      BY <2>1 DEF Promises, Readable
    <3>2. DOMAIN unread[Root] = 1 .. Ahead(Root) /\ Ahead(Root) \in Nat
      BY <1>2, InvParts, Parts
    <3>3. i \in DOMAIN unread'[Root] /\ unread'[Root][i] = unread[Root][i]
             /\ val'[unread[Root][i]] = val[unread[Root][i]] /\ i \in Nat /\ i <= Ahead(Root)
      BY <1>2, <1>4, <3>2 DEF Kept
    <3>4. ASSUME NEW c \in Child, val[unread[Root][i]] = c
          PROVE  unread'[c] # << >>
      <4>1. unread[c] # << >> /\ c \in Stream
        BY <3>1, <3>4, Apart DEF HasItem
      <4>2. Ahead(c) # 0 /\ Ahead(c) \in Nat /\ Ahead(c)' >= Ahead(c) /\ Ahead(c)' \in Nat
        BY <1>4, <4>1, FrontIs
      <4>3. DOMAIN unread'[c] = 1 .. Ahead(c)'
        BY <4>1 DEF Kept
      <4>4. 1 \in DOMAIN unread'[c]
        BY <4>2, <4>3
      <4>5. DOMAIN << >> = {}
        OBVIOUS
      <4> QED
        BY <4>4, <4>5
    <3>5. ASSUME NEW j \in 1 .. i - 1
          PROVE  Finished(unread[Root][j]) /\ unread'[Root][j] = unread[Root][j]
                    /\ val'[unread[Root][j]] = val[unread[Root][j]]
      <4>1. j \in 1 .. Ahead(Root)
        BY <3>2, <3>3
      <4> QED
        BY <1>2, <3>1, <4>1 DEF Kept
    <3>6. ASSUME NEW j \in 1 .. i - 1, NEW c, val[unread[Root][j]] = c
          PROVE  c \in Child /\ off'[c] /\ unread'[c] = << >>
      <4>1. c \in Child /\ off[c] /\ unread[c] = << >>
        BY <3>5, <3>6 DEF Finished
      <4>2. c \in alive
        <5>1. j \in 1 .. Ahead(Root) /\ Cells /\ Values
          BY <3>2, <3>3, InvParts DEF Shape
        <5>2. unread[Root][j] = All(Root)[Past(Root) + j] /\ Past(Root) + j \in 1 .. Total(Root)
          BY <1>2, <5>1, InvParts, Parts
        <5>3. \/ val[All(Root)[Past(Root) + j]] \in Item
              \/ val[All(Root)[Past(Root) + j]] \in Child \cap alive
          BY <1>2, <5>1, <5>2 DEF Values
        <5> QED
          BY <3>6, <4>1, <5>2, <5>3, Apart
      <4> QED
        BY <4>1, <4>2 DEF Kept
    <3>7. HasItem(unread[Root][i])' 
      BY <3>3, <3>4 DEF HasItem
    <3>8. \A j \in 1 .. i - 1 : Finished(unread[Root][j])'
      BY <3>5, <3>6 DEF Finished
    <3> QED
      BY <3>3, <3>7, <3>8 DEF Readable
  <2> QED
    BY <2>2, <2>3
<1> QED
  BY <1>3, <1>9, <1>10
-----------------------------------------------------------------------------
(***************************************************************************)
(* The steps of the writers                                                *)
(***************************************************************************)
LEMMA UnreadNext ==
    ASSUME Shape'
    PROVE  \A t \in Stream : /\ Ahead(t)' \in Nat /\ DOMAIN unread'[t] = 1 .. Ahead(t)'
                             /\ unread'[t] \in Seq(Node)
<1>1. \A t \in Stream : unread'[t] \in Seq(Node)
  BY DEF Shape, Cells
<1> QED
  BY <1>1, Seqs DEF Ahead

\* put, or new concat and give.
LEMMA LinkInv ==
    ASSUME ConcatAssumption, IInv, Running, NEW s \in alive, NEW x,
           x \in Item \/ (s = Root /\ x \in Child \ alive),
           Link(s, x, first, last), listener' = listener, alive' = alive \cup ({x} \cap Child),
           off' = IF x \in Child THEN [off EXCEPT ![x] = FALSE] ELSE off
    PROVE  IInv'
<1>1. /\ ppc[s] = "idle" /\ ~off[s] /\ ppc' = [ppc EXCEPT ![s] = "sweep"] /\ iter' = iter
      /\ UNCHANGED listening
  BY DEF Link
<1>2. /\ Shape'
      /\ \A t \in Stream : Past(t)' = Past(t)
      /\ \A t \in Stream \ {s} : /\ Total(t)' = Total(t) /\ Ahead(t)' = Ahead(t)
                                 /\ unread'[t] = unread[t] /\ All(t)' = All(t)
      /\ Total(s)' = Total(s) + 1 /\ Ahead(s)' = Ahead(s) + 1
      /\ \A i \in 1 .. Total(s) : All(s)'[i] = All(s)[i]
      /\ \E n \in Node \ allocated :
            val' = [val EXCEPT ![n] = x] /\ unread'[s] = Append(unread[s], n)
  BY InvParts, LinkShape
<1>3. PICK n \in Node \ allocated :
         val' = [val EXCEPT ![n] = x] /\ unread'[s] = Append(unread[s], n)
  BY <1>2
<1>4. /\ Cells /\ alive \subseteq Stream /\ s \in Stream /\ Root \in Stream /\ Root \in alive
      /\ Left /\ Writing /\ Allocated /\ Values
      /\ \A t \in Stream : /\ Total(t) \in Nat /\ Past(t) \in Nat /\ Ahead(t) \in Nat
                           /\ Total(t) = Past(t) + Ahead(t)
                           /\ \A i \in 1 .. Total(t) : All(t)[i] \in Node
  BY InvParts, CurAlive DEF Running, Shape
<1>5. /\ \A t \in alive : t # x \/ x \notin Child
      /\ \A t \in Stream : t \in alive \/ t # x => off'[t] = off[t]
      /\ \A t \in Stream : ~off'[t] => ~off[t] \/ t = x
      /\ off' \in [Stream -> BOOLEAN]
  <2>1. off \in [Stream -> BOOLEAN]
    BY <1>4 DEF Writing
  <2>2. \A t \in alive : t # x \/ x \notin Child
    BY Apart
  <2>3. CASE x \in Child
    BY <2>1, <2>2, <2>3, Apart
  <2>4. CASE x \notin Child
    BY <2>1, <2>4
  <2> QED
    BY <2>3, <2>4
<1>6. \A t \in alive : \A i \in 1 .. Total(t) : val'[All(t)[i]] = val[All(t)[i]]
  <2> SUFFICES ASSUME NEW t \in alive, NEW i \in 1 .. Total(t)
               PROVE  val'[All(t)[i]] = val[All(t)[i]]
    OBVIOUS
  <2>1. All(t)[i] \in Node /\ All(t)[i] # n
    BY <1>4 DEF Allocated
  <2> QED
    BY <1>3, <1>4, <2>1 DEF Cells
<1>7. \A t \in Stream : Ahead(t) >= 1 => Front(t)' = Front(t)
  <2> SUFFICES ASSUME NEW t \in Stream, Ahead(t) >= 1
               PROVE  Front(t)' = Front(t)
    OBVIOUS
  <2>1. Past(t) + 1 \in 1 .. Total(t)
    BY <1>4
  <2> QED
    BY <1>2, <2>1 DEF Front
<1>8. Kept
  <2>1. \A t \in Stream : /\ Ahead(t)' \in Nat /\ Ahead(t)' >= Ahead(t)
                          /\ DOMAIN unread'[t] = 1 .. Ahead(t)'
    <3>1. \A t \in Stream : Ahead(t)' \in Nat /\ DOMAIN unread'[t] = 1 .. Ahead(t)'
      BY <1>2, UnreadNext
    <3>2. ASSUME NEW t \in Stream
          PROVE  Ahead(t)' >= Ahead(t)
      <4>1. Ahead(t)' = Ahead(t) \/ Ahead(t)' = Ahead(t) + 1
        BY <1>2
      <4>2. Ahead(t) \in Nat
        BY <1>4
      <4> QED
        BY <4>1, <4>2
    <3> QED
      BY <3>1, <3>2
  <2>2. \A t \in Stream : \A i \in 1 .. Ahead(t) : unread'[t][i] = unread[t][i]
    <3>1. unread[s] \in Seq(Node) /\ Ahead(s) = Len(unread[s])
      BY <1>4 DEF Cells, Ahead
    <3>2. \A i \in 1 .. Ahead(s) : unread'[s][i] = unread[s][i]
      BY <1>3, <3>1, AppendOf
    <3> QED
      BY <1>2, <3>2
  <2>3. \A t \in alive : off[t] => off'[t] /\ unread'[t] = unread[t] /\ Ahead(t)' = Ahead(t)
    BY <1>1, <1>2, <1>4, <1>5
  <2>4. \A i \in 1 .. Ahead(Root) : val'[unread[Root][i]] = val[unread[Root][i]]
    <3> SUFFICES ASSUME NEW i \in 1 .. Ahead(Root)
                 PROVE  val'[unread[Root][i]] = val[unread[Root][i]]
      OBVIOUS
    <3>1. unread[Root][i] = All(Root)[Past(Root) + i] /\ Past(Root) + i \in 1 .. Total(Root)
      BY <1>4, Parts
    <3> QED
      BY <1>4, <1>6, <3>1
  <2>5. Root \in alive'
    BY <1>4
  <2> QED
    BY <1>7, <2>1, <2>2, <2>3, <2>4, <2>5 DEF Kept
<1>9. ListenTypes' /\ ListenerAt' /\ Promises'
  BY <1>1, <1>8, Writes
<1>10. Left'
  <2>1. ASSUME NEW i \in 1 .. Past(Root)
        PROVE  /\ All(Root)'[i] = All(Root)[i] /\ val'[All(Root)[i]] = val[All(Root)[i]]
               /\ i \in 1 .. Total(Root)
    <3>1. i \in 1 .. Total(Root)
      BY <1>4
    <3> QED
      BY <1>2, <1>4, <1>6, <3>1
  <2>2. ASSUME NEW i \in 1 .. Past(Root), NEW c \in Child, val[All(Root)[i]] = c
        PROVE  off'[c] /\ Ahead(c)' = 0
    <3>1. off[c] /\ Ahead(c) = 0
      BY <1>4, <2>2 DEF Left
    <3>2. c \in alive /\ c # s
      BY <1>1, <1>4, <2>1, <2>2, <3>1, Apart DEF Values
    <3> QED
      BY <1>2, <1>4, <1>5, <3>1, <3>2
  <2>3. Past(Root)' = Past(Root)
    BY <1>2, <1>4
  <2>4. \A i \in 1 .. Past(Root) : val'[All(Root)'[i]] = val[All(Root)[i]]
    BY <2>1
  <2> QED
    BY <2>2, <2>3, <2>4 DEF Left
<1>11. Writing'
  <2>1. ppc' \in [Stream -> {"idle", "sweep", "loop"}] /\ iter' \in [Stream -> Node \cup {NULL}]
    BY <1>1, <1>4 DEF Writing
  <2>2. ASSUME NEW t \in Stream
        PROVE  WriterAt(t)'
    <3>1. WriterAt(t) /\ WriterAt(s)
      BY <1>4, <2>2 DEF Writing
    <3>2. CASE t = s
      <4>1. /\ off'[t] => ppc'[t] = "idle"
            /\ ~off'[t] => t \in alive'
            /\ Total(t)' >= 1 /\ ppc'[t] = "sweep" /\ iter'[t] = NULL
        BY <1>1, <1>2, <1>4, <1>5, <3>1, <3>2 DEF Writing, WriterAt
      <4> QED
        BY <4>1 DEF WriterAt
    <3>3. CASE t # s
      <4>1. /\ ppc'[t] = ppc[t] /\ iter'[t] = iter[t]
            /\ Total(t)' = Total(t) /\ Past(t)' = Past(t) /\ All(t)' = All(t)
        BY <1>1, <1>2, <1>4, <3>3 DEF Writing
      <4>2. off'[t] => off[t]
        BY <1>5
      <4>3. ~off'[t] => t \in alive'
        <5>1. t = x => t \in alive'
          BY <1>4, <1>5, Apart
        <5> QED
          BY <1>5, <3>1, <5>1 DEF WriterAt
      <4>4. ppc[t] = "loop" => Past(t) >= 1 /\ iter[t] = next'[first'[t]]
        <5> SUFFICES ASSUME ppc[t] = "loop"
                     PROVE  Past(t) >= 1 /\ iter[t] = next'[first'[t]]
          OBVIOUS
        <5>1. t \in alive /\ Past(t) >= 1 /\ iter[t] = next[first[t]] /\ Total(t) >= 1
          BY <1>4, <3>1 DEF WriterAt
        <5>2. t \in alive'
          BY <5>1
        <5>3. next'[first'[t]] = next[first[t]]
          BY <1>2, <4>1, <5>1, <5>2, OldestNext, OldestIs, InvParts, SMTT(30) DEF Oldest
        <5> QED
          BY <5>1, <5>3
      <4>5. off'[t] => ppc'[t] = "idle"
        BY <3>1, <4>1, <4>2 DEF WriterAt
      <4> QED
        BY <3>1, <4>1, <4>3, <4>4, <4>5 DEF WriterAt
    <3> QED
      BY <3>2, <3>3
  <2> QED
    BY <1>5, <2>1, <2>2 DEF Writing
<1> QED
  BY <1>2, <1>9, <1>10, <1>11 DEF IInv

LEMMA PutInv ==
    ASSUME ConcatAssumption, IInv, Running, NEW s \in Stream, NEW x \in Item, Put(s, x)
    PROVE  IInv'
<1>1. /\ Link(s, x, first, last) /\ alive' = alive /\ listener' = listener /\ off' = off
      /\ ~off[s]
  BY DEF Put, Link
<1>2. s \in alive
  BY <1>1, InvParts DEF Writing, WriterAt
<1>3. x \notin Child
  BY Apart
<1> QED
  BY <1>1, <1>2, <1>3, LinkInv

\* A new stream is as the dead one was.
LEMMA GiveLinks ==
    ASSUME ConcatAssumption, IInv, NEW c \in Child, Give(c)
    PROVE  /\ c \notin alive /\ Root \in alive /\ Link(Root, c, first, last)
           /\ listener' = listener /\ alive' = alive \cup {c}
           /\ off' = [off EXCEPT ![c] = FALSE]
<1>1. /\ c \notin alive /\ Link(Root, c, [first EXCEPT ![c] = NULL], [last EXCEPT ![c] = c])
      /\ alive' = alive \cup {c} /\ listener' = [listener EXCEPT ![c] = c]
      /\ off' = [off EXCEPT ![c] = FALSE]
  BY DEF Give
<1>2. c \in Stream /\ Root \in Stream
  BY Apart
<1>3. /\ first[c] = NULL /\ last[c] = c /\ listener[c] = c
      /\ first \in [Stream -> Node \cup {NULL}]
      /\ last \in [Stream -> Stream \cup Node]
      /\ listener \in [Stream -> Stream \cup Node]
  BY <1>1, <1>2, InvParts DEF Shape, Dead, Cells
<1>4. /\ [first EXCEPT ![c] = NULL] = first
      /\ [last EXCEPT ![c] = c] = last
      /\ [listener EXCEPT ![c] = c] = listener
  BY <1>2, <1>3
<1>5. ~off[Root]
  BY <1>1 DEF Link
<1>6. Root \in alive
  BY <1>2, <1>5, InvParts DEF Writing, WriterAt
<1> QED
  BY <1>1, <1>4, <1>6

LEMMA GiveInv ==
    ASSUME ConcatAssumption, IInv, Running, NEW c \in Child, Give(c)
    PROVE  IInv'
<1>1. /\ c \notin alive /\ Root \in alive /\ Link(Root, c, first, last)
      /\ listener' = listener /\ alive' = alive \cup {c}
      /\ off' = [off EXCEPT ![c] = FALSE]
  BY GiveLinks
<1>2. {c} \cap Child = {c}
  OBVIOUS
<1> QED
  BY <1>1, <1>2, LinkInv

LEMMA CloseInv ==
    ASSUME ConcatAssumption, IInv, Running, NEW s \in Stream, Close(s)
    PROVE  IInv'
<1>1. /\ ppc[s] = "idle" /\ off' = [off EXCEPT ![s] = TRUE] /\ ppc' = ppc /\ iter' = iter
      /\ alive' = alive /\ next' = next /\ val' = val /\ first' = first
      /\ spent' = spent /\ unread' = unread
      /\ UNCHANGED listening /\ UNCHANGED <<heap, listener, history>>
  BY DEF Close, heap, writers, history
<1>2. Shape /\ Left /\ Writing /\ off \in [Stream -> BOOLEAN] /\ Root \in alive
  BY InvParts, CurAlive DEF Writing, Running
<1>3. Shape'
  BY <1>1, <1>2, SameShape
<1>4. \A t : Total(t)' = Total(t) /\ Past(t)' = Past(t) /\ Ahead(t)' = Ahead(t)
               /\ All(t)' = All(t)
  BY <1>1, ListSame
<1>5. /\ \A t \in Stream : off[t] => off'[t]
      /\ \A t \in Stream : ~off'[t] => ~off[t]
      /\ \A t \in Stream : off'[t] => off[t] \/ t = s
      /\ off' \in [Stream -> BOOLEAN]
  BY <1>1, <1>2
<1>6. Kept
  <2>1. \A t \in Stream : Ahead(t)' \in Nat /\ DOMAIN unread'[t] = 1 .. Ahead(t)'
    BY <1>3, UnreadNext
  <2>2. \A t \in Stream : Front(t)' = Front(t) /\ Ahead(t) \in Nat
    BY <1>4, InvParts DEF Front
  <2>3. \A t \in alive : t \in Stream
    BY InvParts
  <2> QED
    BY <1>1, <1>2, <1>4, <1>5, <2>1, <2>2, <2>3 DEF Kept
<1>7. ListenTypes' /\ ListenerAt' /\ Promises'
  BY <1>1, <1>6, Writes
<1>8. Left'
  BY <1>1, <1>2, <1>4, <1>5, Apart DEF Left
<1>9. Writing'
  BY <1>1, <1>2, <1>4, <1>5 DEF Writing, WriterAt
<1> QED
  BY <1>3, <1>7, <1>8, <1>9 DEF IInv

\* The sweep looks at the listener, or stops.
LEMMA SweepSees ==
    ASSUME ConcatAssumption, IInv, Running, NEW s \in Stream, SweepFirst(s) \/ SweepStop(s)
    PROVE  IInv' /\ UNCHANGED <<heap, listener, off, listening, history>>
<1>1. UNCHANGED <<heap, listener, off, listening, history>>
  BY DEF SweepFirst, SweepStop
<1>2. /\ alive' = alive /\ next' = next /\ val' = val /\ first' = first /\ off' = off
      /\ spent' = spent /\ unread' = unread /\ UNCHANGED listening
      /\ UNCHANGED <<heap, listener, history>>
  BY <1>1 DEF heap, history
<1>3. Shape /\ Left /\ Writing /\ Root \in alive
  BY InvParts, CurAlive DEF Running
<1>4. Shape'
  BY <1>2, <1>3, SameShape
<1>5. \A t : Total(t)' = Total(t) /\ Past(t)' = Past(t) /\ Ahead(t)' = Ahead(t)
               /\ All(t)' = All(t)
  BY <1>2, ListSame
<1>6. Kept
  <2>1. \A t \in Stream : Ahead(t)' \in Nat /\ DOMAIN unread'[t] = 1 .. Ahead(t)'
    BY <1>4, UnreadNext
  <2>2. \A t \in Stream : Front(t)' = Front(t) /\ Ahead(t) \in Nat
    BY <1>5, InvParts DEF Front
  <2> QED
    BY <1>2, <1>3, <1>5, <2>1, <2>2 DEF Kept
<1>7. ListenTypes' /\ ListenerAt' /\ Promises'
  BY <1>2, <1>6, Writes
<1>8. Left'
  BY <1>2, <1>3, <1>5 DEF Left
<1>9. \/ ppc' = [ppc EXCEPT ![s] = "idle"] /\ iter' = [iter EXCEPT ![s] = NULL]
      \/ /\ ppc' = [ppc EXCEPT ![s] = "loop"] /\ iter' = [iter EXCEPT ![s] = next[first[s]]]
         /\ ppc[s] = "sweep" /\ ~Reached(s, first[s])
  BY DEF SweepFirst, SweepStop, StopSweep
<1>10. ppc[s] # "idle"
  BY DEF SweepFirst, SweepStop
<1>11. WriterAt(s) /\ ~off[s] /\ s \in alive
  BY <1>3, <1>10 DEF Writing, WriterAt
<1>12. ASSUME ~Reached(s, first[s]), ppc[s] = "sweep"
       PROVE  Past(s) >= 1 /\ next[first[s]] \in Node \cup {NULL}
  <2>1. Total(s) >= 1 /\ Past(s) \in Nat
    BY <1>11, <1>12, InvParts DEF WriterAt
  <2>2. first[s] \in Node
    BY <1>3, <1>11, <2>1, OldestIs DEF Oldest
  <2>3. Past(s) = 0 => At(listener[s]) = first[s]
    BY <1>11, InvParts DEF Linked, At
  <2>4. next \in [Node -> Node \cup {NULL}]
    BY InvParts DEF Cells
  <2> QED
    BY <1>12, <2>1, <2>2, <2>3, <2>4 DEF Reached
<1>13. Writing'
  <2>1. ppc' \in [Stream -> {"idle", "sweep", "loop"}] /\ iter' \in [Stream -> Node \cup {NULL}]
    BY <1>3, <1>9, <1>12 DEF Writing
  <2>2. ASSUME NEW t \in Stream, t # s
        PROVE  WriterAt(t)'
    BY <1>2, <1>3, <1>5, <1>9, <2>2 DEF Writing, WriterAt
  <2>3. CASE ppc' = [ppc EXCEPT ![s] = "idle"] /\ iter' = [iter EXCEPT ![s] = NULL]
    <3>1. ppc'[s] = "idle" /\ iter'[s] = NULL
      BY <1>3, <2>3 DEF Writing
    <3>2. WriterAt(s)'
      BY <1>2, <1>11, <3>1 DEF WriterAt
    <3> QED
      BY <1>2, <1>3, <2>1, <2>2, <3>2 DEF Writing
  <2>4. CASE /\ ppc' = [ppc EXCEPT ![s] = "loop"] /\ iter' = [iter EXCEPT ![s] = next[first[s]]]
             /\ ppc[s] = "sweep" /\ ~Reached(s, first[s])
    <3>1. ppc'[s] = "loop" /\ iter'[s] = next[first[s]]
      BY <1>3, <2>4 DEF Writing
    <3>2. WriterAt(s)'
      BY <1>2, <1>5, <1>11, <1>12, <2>4, <3>1 DEF WriterAt
    <3> QED
      BY <1>2, <1>3, <2>1, <2>2, <3>2 DEF Writing
  <2> QED
    BY <1>9, <2>3, <2>4
<1> QED
  BY <1>1, <1>4, <1>7, <1>8, <1>13 DEF IInv

\* When sweep frees the oldest node, the listener is at least one node further.
LEMMA SweepFrees ==
    ASSUME ConcatAssumption, IInv, Running, NEW s \in Stream, SweepFree(s)
    PROVE  /\ s \in alive /\ ~off[s] /\ Past(s) >= 2 /\ iter[s] = All(s)[2]
           /\ \A c \in Child : off[c] => ppc[c] = "idle"
<1>1. ppc[s] = "loop" /\ iter[s] # NULL /\ ~Reached(s, iter[s])
  BY DEF SweepFree
<1>2. Writing /\ WriterAt(s) /\ Shape
  BY InvParts DEF Writing
<1>3. ~off[s] /\ s \in alive /\ Past(s) >= 1 /\ iter[s] = next[first[s]]
  BY <1>1, <1>2 DEF WriterAt
<1>4. /\ Total(s) \in Nat /\ Past(s) \in Nat /\ Ahead(s) \in Nat
      /\ Total(s) = Past(s) + Ahead(s) /\ Total(s) >= 1
  BY <1>3, InvParts
<1>5. Total(s) # 1 /\ iter[s] = All(s)[2]
  BY <1>1, <1>2, <1>3, <1>4, OldestIs DEF Oldest
<1>6. Past(s) # 1
  <2> SUFFICES ASSUME Past(s) = 1 PROVE FALSE
    OBVIOUS
  <2>1. Ahead(s) >= 1 /\ Front(s) = All(s)[2]
    BY <1>4, <1>5 DEF Front
  <2>2. At(listener[s]) = Front(s)
    BY <2>1, FrontIs
  <2> QED
    BY <1>1, <1>5, <2>1, <2>2 DEF Reached
<1>7. \A c \in Child : off[c] => ppc[c] = "idle"
  BY <1>2, Apart DEF Writing, WriterAt
<1> QED
  BY <1>3, <1>4, <1>5, <1>6, <1>7

LEMMA SweepFreeInv ==
    ASSUME ConcatAssumption, IInv, Running, NEW s \in Stream, SweepFree(s)
    PROVE  IInv'
<1>1. /\ iter' = [iter EXCEPT ![s] = next[iter[s]]] /\ off' = off /\ ppc' = ppc
      /\ unread' = unread /\ UNCHANGED listening
  BY DEF SweepFree
<1>2. /\ s \in alive /\ ~off[s] /\ Past(s) >= 2 /\ iter[s] = All(s)[2]
      /\ \A c \in Child : off[c] => ppc[c] = "idle"
  BY SweepFrees
<1>3. /\ Shape /\ Left /\ Writing /\ Cells /\ alive \subseteq Stream /\ Root \in Stream
      /\ \A t \in Stream : /\ Total(t) \in Nat /\ Past(t) \in Nat /\ Ahead(t) \in Nat
                           /\ Total(t) = Past(t) + Ahead(t)
                           /\ \A i \in 1 .. Total(t) : All(t)[i] \in Node
  BY InvParts, Apart
<1>4. /\ Shape'
      /\ Total(s)' = Total(s) - 1 /\ Past(s)' = Past(s) - 1
      /\ \A i \in 1 .. Total(s) - 1 : All(s)'[i] = All(s)[i + 1]
      /\ alive' \subseteq alive
      /\ s \in alive' /\ Root \in alive'
      /\ allocated' \subseteq allocated
      /\ \A t \in Stream : Ahead(t)' = Ahead(t)
      /\ \A t \in alive' \ {s} : /\ Total(t)' = Total(t) /\ Past(t)' = Past(t)
                                 /\ All(t)' = All(t)
      /\ \A m \in allocated' : next'[m] = next[m] /\ val'[m] = val[m]
      /\ first'[s] = All(s)[2] /\ \A t \in alive' \ {s} : first'[t] = first[t]
      /\ \A c \in alive \ alive' : c \in Child /\ off[c] /\ Ahead(c) = 0
  BY <1>2, <1>3, FreeShape
<1>5. /\ \A t \in alive' : \A i \in 1 .. Total(t)' : All(t)'[i] \in allocated'
      /\ \A t \in Stream : t \notin alive' => Ahead(t)' = 0
  BY <1>4 DEF Shape, Allocated, Dead
<1>6. \A t \in Stream : Ahead(t) >= 1 => Front(t)' = Front(t)
  <2> SUFFICES ASSUME NEW t \in Stream, Ahead(t) >= 1
               PROVE  Front(t)' = Front(t)
    OBVIOUS
  <2>1. t \in alive' /\ Past(t) + 1 \in 1 .. Total(t)
    BY <1>3, <1>4, <1>5
  <2>2. CASE t = s
    <3>1. /\ Past(s)' + 1 = Past(s) /\ Past(s) \in 1 .. Total(s) - 1
      BY <1>2, <1>3, <1>4, <2>1, <2>2
    <3>2. All(s)'[Past(s)] = All(s)[Past(s) + 1]
      BY <1>4, <3>1
    <3> QED
      BY <2>2, <3>1, <3>2 DEF Front
  <2>3. CASE t # s
    BY <1>4, <2>1, <2>3 DEF Front
  <2> QED
    BY <2>2, <2>3
<1>7. \A i \in 1 .. Ahead(Root) :
         unread[Root][i] \in allocated' /\ val'[unread[Root][i]] = val[unread[Root][i]]
  <2> SUFFICES ASSUME NEW i \in 1 .. Ahead(Root)
               PROVE  unread[Root][i] \in allocated'
    BY <1>4
  <2>1. unread[Root][i] = All(Root)[Past(Root) + i] /\ Past(Root) + i \in 1 .. Total(Root)
    BY <1>3, Parts
  <2>2. CASE Root = s
    <3>1. /\ Past(s) + i - 1 \in 1 .. Total(s) - 1 /\ Past(s) + i - 1 + 1 = Past(s) + i
          /\ Total(s)' = Total(s) - 1
      BY <1>2, <1>3, <1>4, <2>1, <2>2
    <3>2. All(s)'[Past(s) + i - 1] = All(s)[Past(s) + i]
      BY <1>4, <3>1
    <3> QED
      BY <1>4, <1>5, <2>1, <2>2, <3>1, <3>2
  <2>3. CASE Root # s
    BY <1>4, <1>5, <2>1, <2>3
  <2> QED
    BY <2>2, <2>3
<1>8. Kept
  <2>1. \A t \in Stream : Ahead(t)' \in Nat /\ DOMAIN unread'[t] = 1 .. Ahead(t)'
    BY <1>4, UnreadNext
  <2>2. \A t \in Stream : Ahead(t)' >= Ahead(t)
    BY <1>3, <1>4
  <2> QED
    BY <1>1, <1>3, <1>4, <1>6, <1>7, <2>1, <2>2 DEF Kept
<1>9. ListenTypes' /\ ListenerAt' /\ Promises'
  BY <1>1, <1>8, Writes
<1>10. Left'
  <2>1. ASSUME NEW i \in 1 .. Past(Root)'
        PROVE  \E j \in 1 .. Past(Root) : val'[All(Root)'[i]] = val[All(Root)[j]]
    <3>1. i \in 1 .. Total(Root)'
      <4>1. Past(Root)' <= Total(Root)' /\ Past(Root)' \in Nat /\ Total(Root)' \in Nat
        BY <1>2, <1>3, <1>4
      <4> QED
        BY <4>1
    <3>2. val'[All(Root)'[i]] = val[All(Root)'[i]]
      BY <1>4, <1>5, <3>1
    <3>3. CASE Root = s
      <4>1. i \in 1 .. Total(s) - 1 /\ i + 1 \in 1 .. Past(s)
        BY <1>2, <1>3, <1>4, <3>1, <3>3
      <4> QED
        BY <1>4, <3>2, <3>3, <4>1
    <3>4. CASE Root # s
      BY <1>4, <3>2, <3>4
    <3> QED
      BY <3>3, <3>4
  <2>2. \A c \in Child : Ahead(c)' = Ahead(c)
    BY <1>4, Apart
  <2> QED
    BY <1>1, <1>3, <2>1, <2>2 DEF Left
<1>11. Writing'
  <2>1. next[iter[s]] \in Node \cup {NULL}
    BY <1>2, <1>3 DEF Cells
  <2>2. iter' \in [Stream -> Node \cup {NULL}]
    BY <1>1, <1>3, <2>1 DEF Writing
  <2>3. WriterAt(s)'
    <3>1. first'[s] = iter[s] /\ first'[s] \in allocated'
      <4>1. Total(s)' >= 1
        BY <1>2, <1>3, <1>4
      <4> QED
        BY <1>2, <1>4, <4>1, OldestNext DEF Oldest
    <3>2. iter'[s] = next'[first'[s]]
      BY <1>1, <1>3, <1>4, <3>1 DEF Writing
    <3>3. Past(s)' >= 1
      BY <1>2, <1>3, <1>4
    <3>4. ppc'[s] = "loop" /\ ~off'[s] /\ s \in alive'
      BY <1>1, <1>2, <1>4 DEF SweepFree
    <3> QED
      BY <3>2, <3>3, <3>4 DEF WriterAt
  <2>4. ASSUME NEW t \in Stream, t # s
        PROVE  WriterAt(t)'
    <3>1. WriterAt(t) /\ iter'[t] = iter[t] /\ ppc'[t] = ppc[t] /\ off'[t] = off[t]
      BY <1>1, <1>3, <2>4 DEF Writing
    <3>2. ~off[t] => t \in alive'
      BY <1>4, <3>1 DEF WriterAt
    <3>3. CASE ppc[t] = "idle"
      BY <3>1, <3>2, <3>3 DEF WriterAt
    <3>4. CASE ppc[t] # "idle"
      <4>1. t \in alive' /\ t \in alive /\ ~off[t]
        BY <1>4, <3>1, <3>2, <3>4 DEF WriterAt
      <4>2. Total(t)' = Total(t) /\ Past(t)' = Past(t) /\ All(t)' = All(t)
        BY <1>4, <2>4, <4>1
      <4>3. ppc[t] = "loop" => Past(t) >= 1 /\ iter[t] = next'[first'[t]]
        <5> SUFFICES ASSUME ppc[t] = "loop"
                     PROVE  Past(t) >= 1 /\ iter[t] = next'[first'[t]]
          OBVIOUS
        <5>1. Past(t) >= 1 /\ iter[t] = next[first[t]] /\ Total(t) >= 1
          BY <1>3, <3>1 DEF WriterAt
        <5>2. next'[first'[t]] = next[first[t]]
          BY <1>3, <1>4, <4>1, <4>2, <5>1, OldestNext, OldestIs DEF Oldest
        <5> QED
          BY <5>1, <5>2
      <4> QED
        BY <3>1, <4>1, <4>2, <4>3 DEF WriterAt
    <3> QED
      BY <3>3, <3>4
  <2> QED
    BY <1>1, <1>3, <2>2, <2>3, <2>4 DEF Writing
<1> QED
  BY <1>4, <1>9, <1>10, <1>11 DEF IInv

LEMMA DestroyInv ==
    ASSUME ConcatAssumption, IInv, Destroy
    PROVE  IInv'
<1>1. /\ cpc = "idle" /\ \A s \in Stream : ppc[s] = "idle" /\ (s # Root => off[s])
      /\ cpc' = "gone" /\ off' = [off EXCEPT ![Root] = TRUE]
      /\ ppc' = ppc /\ iter' = iter
      /\ op' = op /\ cur' = cur /\ outer' = outer /\ node' = node /\ closed' = closed
      /\ isready' = isready /\ got' = got /\ answer' = answer /\ promised' = promised
  BY DEF Destroy, writers
<1>2. Root \in alive /\ Shape /\ Writing /\ ListenTypes /\ ListenerAt /\ Root \in Stream
  BY <1>1, CurAlive, InvParts
<1>3. /\ Shape' /\ alive' = {}
      /\ \A t \in Stream : Total(t)' = 0 /\ Past(t)' = 0 /\ Ahead(t)' = 0
  BY <1>2, DestroyShape
<1>4. off'[Root] /\ off' \in [Stream -> BOOLEAN] /\ \A t \in Stream : off'[t]
  BY <1>1, <1>2 DEF Writing
<1>5. Left'
  BY <1>2, <1>3 DEF Left
<1>6. Writing'
  BY <1>1, <1>2, <1>4 DEF Writing, WriterAt
<1>7. ListenTypes'
  BY <1>1, <1>2 DEF ListenTypes, Getting, Asking
<1>8. ListenerAt'
  BY <1>1, <1>2, <1>3, <1>4 DEF ListenerAt, Getting, Asking
<1>9. Promises'
  <2>1. ~promised
    BY <1>1, <1>2 DEF ListenTypes
  <2> QED
    BY <1>1, <2>1 DEF Promises
<1> QED
  BY <1>3, <1>5, <1>6, <1>7, <1>8, <1>9 DEF IInv
-----------------------------------------------------------------------------
(***************************************************************************)
(* The steps of the listener                                               *)
(***************************************************************************)
\* What is readable begins with a node that has an item, or goes on behind one that
\* is finished.
LEMMA ReadableFront ==
    ASSUME ConcatAssumption, IInv, Readable
    PROVE  /\ Ahead(Root) >= 1
           /\ val[Front(Root)] \in Child =>
                 unread[val[Front(Root)]] # << >> \/ off[val[Front(Root)]]
<1>1. PICK i \in DOMAIN unread[Root] : /\ HasItem(unread[Root][i])
                                       /\ \A j \in 1 .. i - 1 : Finished(unread[Root][j])
  BY DEF Readable
<1>2. DOMAIN unread[Root] = 1 .. Ahead(Root) /\ Ahead(Root) \in Nat /\ Root \in Stream
  BY InvParts, Parts, Apart
<1>3. Ahead(Root) >= 1 /\ i \in Nat /\ i >= 1
  BY <1>1, <1>2
<1>4. Front(Root) = unread[Root][1]
  BY <1>2, <1>3, FrontIs
<1>5. CASE i = 1
  BY <1>1, <1>3, <1>4, <1>5 DEF HasItem
<1>6. CASE i # 1
  <2>1. 1 \in 1 .. i - 1
    BY <1>3, <1>6
  <2>2. Finished(unread[Root][1])
    BY <1>1, <2>1
  <2> QED
    BY <1>3, <1>4, <2>2 DEF Finished
<1> QED
  BY <1>5, <1>6

\* What is readable stays so when the listener goes past a finished node.
LEMMA ReadableTail ==
    ASSUME ConcatAssumption, IInv, Readable, Finished(Front(Root)),
           unread' = [unread EXCEPT ![Root] = Tail(unread[Root])], val' = val, off' = off
    PROVE  Readable'
<1>1. PICK i \in DOMAIN unread[Root] : /\ HasItem(unread[Root][i])
                                       /\ \A j \in 1 .. i - 1 : Finished(unread[Root][j])
  BY DEF Readable
<1>2. /\ DOMAIN unread[Root] = 1 .. Ahead(Root) /\ Ahead(Root) \in Nat /\ Root \in Stream
      /\ unread \in [Stream -> Seq(Node)] /\ Ahead(Root) = Len(unread[Root])
  BY InvParts, Parts, Apart DEF Cells, Ahead
<1>3. Ahead(Root) >= 1 /\ i \in 1 .. Ahead(Root) /\ i \in Nat
  BY <1>1, <1>2
<1>4. Front(Root) = unread[Root][1] /\ unread[Root] # << >>
  BY <1>2, <1>3, FrontIs
<1>5. i # 1
  BY <1>1, <1>4 DEF Finished, HasItem
<1>6. /\ DOMAIN Tail(unread[Root]) = 1 .. Ahead(Root) - 1
      /\ \A k \in 1 .. Ahead(Root) - 1 : Tail(unread[Root])[k] = unread[Root][k + 1]
  <2>1. unread[Root] \in Seq(Node)
    BY <1>2
  <2> QED
    BY <1>2, <1>4, <2>1, TailOf
<1>7. /\ unread'[Root] = Tail(unread[Root])
      /\ \A c \in Child : unread'[c] = unread[c]
  BY <1>2, Apart
<1>8. i - 1 \in DOMAIN unread'[Root] /\ unread'[Root][i - 1] = unread[Root][i]
  <2>1. i - 1 \in 1 .. Ahead(Root) - 1 /\ i - 1 + 1 = i
    BY <1>2, <1>3, <1>5
  <2> QED
    BY <1>6, <1>7, <2>1
<1>9. val[unread'[Root][i - 1]] \in Child => unread'[val[unread'[Root][i - 1]]] # << >>
  BY <1>1, <1>7, <1>8 DEF HasItem
<1>10. ASSUME NEW j \in 1 .. i - 1 - 1
       PROVE  /\ val[unread'[Root][j]] \in Child /\ off[val[unread'[Root][j]]]
              /\ unread'[val[unread'[Root][j]]] = << >>
  <2>1. j \in 1 .. Ahead(Root) - 1 /\ j + 1 \in 1 .. i - 1
    BY <1>2, <1>3
  <2>2. unread'[Root][j] = unread[Root][j + 1]
    BY <1>6, <1>7, <2>1
  <2>3. Finished(unread[Root][j + 1])
    BY <1>1, <2>1
  <2> QED
    BY <1>7, <2>2, <2>3 DEF Finished
<1> DEFINE n == i - 1
<1>11. n \in DOMAIN unread'[Root] /\ HasItem(unread[Root][n])'
  BY <1>8, <1>9 DEF HasItem
<1>12. \A j \in 1 .. n - 1 : Finished(unread[Root][j])'
  BY <1>10 DEF Finished
<1> HIDE DEF n
<1> QED
  BY <1>11, <1>12 DEF Readable

\* The steps of the listener one by one.
LEMMA ListenQuiet ==
    ASSUME ConcatAssumption, IInv,
           \/ \E o \in {"get", "peek", "skip", "depleted", "ready", "empty"} : Call(o)
           \/ Load \/ CheckOff \/ Reload \/ EndOfRoot \/ EnterGiven
           \/ ReadyLoad \/ ReadyClosed \/ ReadyGiven \/ EmptyLoad \/ EmptyClosed
    PROVE  IInv'
<1>1. UNCHANGED <<heap, listener, off, writers, history>> /\ cpc # "gone"
  BY DEF Call, Load, CheckOff, Reload, EndOfRoot, EnterGiven, ReadyLoad, ReadyClosed,
         ReadyGiven, EmptyLoad, EmptyClosed, Stay
<1>2. /\ Shape' /\ Left' /\ Writing'
      /\ \A s : Ahead(s)' = Ahead(s) /\ Front(s)' = Front(s) /\ Total(s)' = Total(s)
      /\ alive' = alive /\ val' = val /\ off' = off /\ unread' = unread
      /\ Readable' = Readable
  BY <1>1, Stays
<1>3. ListenTypes /\ ListenerAt /\ Promises
  BY InvParts
<1>4. /\ Root \in Stream /\ Root \in alive /\ cur \in alive /\ cur \in Stream
      /\ cur # Root => cur \in Child /\ Ahead(Root) >= 1 /\ cur = val[Front(Root)]
  BY <1>1, CurAlive
<1>5. Root \notin Child /\ Child \subseteq Stream
  BY Apart
<1>6. \A s \in Stream : Ahead(s) \in Nat
  BY InvParts
\* What the listener sees.
<1>7. \A s \in alive : /\ s \in Stream
                       /\ At(listener[s]) = NULL => Ahead(s) = 0
                       /\ At(listener[s]) # NULL => Ahead(s) >= 1 /\ At(listener[s]) = Front(s)
  <2> SUFFICES ASSUME NEW s \in alive
               PROVE  /\ s \in Stream
                      /\ At(listener[s]) = NULL => Ahead(s) = 0
                      /\ At(listener[s]) # NULL => Ahead(s) >= 1 /\ At(listener[s]) = Front(s)
    OBVIOUS
  <2>1. s \in Stream /\ Ahead(s) \in Nat
    BY <1>6, InvParts
  <2> QED
    BY <2>1, FrontIs
\* A call ends.
<1>8. ASSUME NEW a \in {NULL, "yes", "no"}, Return(a), got' = got
      PROVE  ListenTypes' /\ ListenerAt' /\ Promises'
  <2>1. /\ cpc' = "idle" /\ op' = NULL /\ cur' = Root /\ outer' = NULL /\ node' = NULL
        /\ closed' = FALSE /\ isready' = FALSE /\ promised' = FALSE /\ answer' = a
    BY <1>8 DEF Return
  <2>2. ListenTypes'
    BY <1>3, <1>4, <1>8, <2>1 DEF ListenTypes, Getting, Asking
  <2>3. ListenerAt'
    BY <1>2, <1>4, <2>1 DEF ListenerAt, Getting, Asking
  <2>4. Promises'
    BY <2>1 DEF Promises
  <2> QED
    BY <2>2, <2>3, <2>4
<1>9. ASSUME NEW o \in {"get", "peek", "skip", "depleted", "ready", "empty"}, Call(o)
      PROVE  ListenTypes' /\ ListenerAt' /\ Promises'
  <2>1. /\ cpc = "idle" /\ op' = o /\ promised' = Readable /\ answer' = NULL
        /\ cpc' = CASE o = "ready" -> "ready" [] o = "empty" -> "empty" [] OTHER -> "load"
        /\ cur' = cur /\ outer' = outer /\ node' = node /\ closed' = closed
        /\ isready' = isready /\ got' = got
    BY <1>9 DEF Call
  <2>2. \/ o = "ready" /\ cpc' = "ready"
        \/ o = "empty" /\ cpc' = "empty"
        \/ o \notin {"ready", "empty"} /\ cpc' = "load"
    BY <2>1
  <2>3. promised' \in BOOLEAN
    BY <2>1 DEF Readable
  <2>4. ListenTypes'
    BY <1>3, <2>1, <2>2, <2>3 DEF ListenTypes, Getting, Asking
  <2>5. ListenerAt'
    BY <1>2, <1>3, <1>4, <2>1, <2>2 DEF ListenerAt, Getting, Asking
  <2>6. Promises'
    BY <1>2, <2>1, <2>2 DEF Promises
  <2> QED
    BY <2>4, <2>5, <2>6
<1>10. ASSUME Load
       PROVE  ListenTypes' /\ ListenerAt' /\ Promises'
  <2>1. /\ cpc = "load" /\ node' = At(listener[cur])
        /\ cpc' = IF node' = NULL THEN "off" ELSE "have"
        /\ op' = op /\ cur' = cur /\ outer' = outer /\ closed' = closed
        /\ isready' = isready /\ got' = got /\ answer' = answer /\ promised' = promised
    BY <1>10 DEF Load
  <2>2. ListenTypes'
    BY <1>3, <2>1 DEF ListenTypes, Getting, Asking
  <2>3. ListenerAt'
    BY <1>2, <1>3, <1>4, <1>7, <2>1 DEF ListenerAt, Getting, Asking, InGiven
  <2>4. Promises'
    BY <1>2, <1>3, <2>1 DEF Promises
  <2> QED
    BY <2>2, <2>3, <2>4
<1>11. ASSUME CheckOff
       PROVE  ListenTypes' /\ ListenerAt' /\ Promises'
  <2>1. /\ cpc = "off" /\ cpc' = IF off[cur] THEN "reload" ELSE "load"
        /\ op' = op /\ cur' = cur /\ outer' = outer /\ node' = node /\ closed' = closed
        /\ isready' = isready /\ got' = got /\ answer' = answer /\ promised' = promised
    BY <1>11 DEF CheckOff
  <2>2. ListenTypes'
    BY <1>3, <2>1 DEF ListenTypes, Getting, Asking
  <2>3. ListenerAt'
    BY <1>2, <1>3, <1>4, <2>1 DEF ListenerAt, Getting, Asking, InGiven
  <2>4. Promises'
    BY <1>2, <1>3, <2>1 DEF Promises
  <2> QED
    BY <2>2, <2>3, <2>4
<1>12. ASSUME Reload
       PROVE  ListenTypes' /\ ListenerAt' /\ Promises'
  <2>1. /\ cpc = "reload" /\ node' = At(listener[cur])
        /\ cpc' = IF node' = NULL THEN "end" ELSE "have"
        /\ op' = op /\ cur' = cur /\ outer' = outer /\ closed' = closed
        /\ isready' = isready /\ got' = got /\ answer' = answer /\ promised' = promised
    BY <1>12 DEF Reload, Reloaded
  <2>2. ListenTypes'
    BY <1>3, <2>1 DEF ListenTypes, Getting, Asking
  <2>3. ListenerAt'
    BY <1>2, <1>3, <1>4, <1>7, <2>1 DEF ListenerAt, Getting, Asking, InGiven
  <2>4. Promises'
    BY <1>2, <1>3, <2>1 DEF Promises
  <2> QED
    BY <2>2, <2>3, <2>4
<1>13. ASSUME EndOfRoot
       PROVE  ListenTypes' /\ ListenerAt' /\ Promises'
  <2>1. CASE op = "depleted"
    <3>1. Return("yes") /\ got' = got
      BY <1>13, <2>1 DEF EndOfRoot
    <3> QED
      BY <1>8, <3>1
  <2>2. CASE op # "depleted"
    <3>1. /\ cpc = "end" /\ cur = Root /\ cpc' = "exited"
          /\ op' = op /\ cur' = cur /\ outer' = outer /\ node' = node /\ closed' = closed
          /\ isready' = isready /\ got' = got /\ answer' = answer /\ promised' = promised
      BY <1>13, <2>2 DEF EndOfRoot
    <3>2. ListenTypes'
      BY <1>3, <3>1 DEF ListenTypes, Getting, Asking
    <3>3. ListenerAt'
      BY <1>2, <1>3, <1>4, <3>1 DEF ListenerAt, Getting, Asking
    <3>4. Promises'
      BY <1>2, <1>3, <3>1 DEF Promises
    <3> QED
      BY <3>2, <3>3, <3>4
  <2> QED
    BY <2>1, <2>2
<1>14. ASSUME EnterGiven
       PROVE  ListenTypes' /\ ListenerAt' /\ Promises'
  <2>1. /\ cpc = "have" /\ val[node] \in Child /\ outer' = node /\ cur' = val[node]
        /\ cpc' = "load" /\ op' = op /\ node' = node /\ closed' = closed
        /\ isready' = isready /\ got' = got /\ answer' = answer /\ promised' = promised
    BY <1>14 DEF EnterGiven
  <2>2. Ahead(cur) >= 1 /\ node = Front(cur)
    BY <1>3, <2>1 DEF ListenerAt
  <2>3. cur = Root
    BY <1>4, <2>1, <2>2, FrontIs, Apart
  <2>4. ListenTypes'
    BY <1>3, <1>5, <2>1 DEF ListenTypes, Getting, Asking
  <2>5. ListenerAt'
    BY <1>2, <1>3, <1>4, <1>5, <2>1, <2>2, <2>3 DEF ListenerAt, Getting, Asking, InGiven
  <2>6. Promises'
    BY <1>2, <1>3, <2>1 DEF Promises
  <2> QED
    BY <2>4, <2>5, <2>6
<1>15. ASSUME ReadyLoad
       PROVE  ListenTypes' /\ ListenerAt' /\ Promises'
  <2> DEFINE n == At(listener[Root])
  <2>1. CASE n # NULL /\ val[n] \in Child
    <3>1. /\ cpc = "ready" /\ cpc' = "ready_closed" /\ node' = n /\ cur' = val[n]
          /\ op' = op /\ outer' = outer /\ closed' = closed
          /\ isready' = isready /\ got' = got /\ answer' = answer /\ promised' = promised
      BY <1>15, <2>1 DEF ReadyLoad
    <3>2. Ahead(Root) >= 1 /\ n = Front(Root)
      BY <1>4, <1>7, <2>1
    <3>3. ListenTypes'
      BY <1>3, <1>5, <2>1, <3>1 DEF ListenTypes, Getting, Asking
    <3>4. ListenerAt'
      BY <1>2, <1>3, <1>4, <2>1, <3>1, <3>2 DEF ListenerAt, Getting, Asking, InGiven
    <3>5. Promises'
      BY <1>2, <1>3, <3>1 DEF Promises
    <3> QED
      BY <3>3, <3>4, <3>5
  <2>2. CASE ~(n # NULL /\ val[n] \in Child)
    <3>1. Return(IF n = NULL THEN "no" ELSE "yes") /\ got' = got
      BY <1>15, <2>2 DEF ReadyLoad
    <3> QED
      BY <1>8, <3>1
  <2> QED
    BY <2>1, <2>2
<1>16. ASSUME ReadyClosed
       PROVE  ListenTypes' /\ ListenerAt' /\ Promises'
  <2>1. /\ cpc = "ready_closed" /\ cpc' = "ready_given" /\ closed' = off[cur]
        /\ op' = op /\ cur' = cur /\ outer' = outer /\ node' = node
        /\ isready' = isready /\ got' = got /\ answer' = answer /\ promised' = promised
    BY <1>16 DEF ReadyClosed
  <2>2. off[cur] \in BOOLEAN
    BY <1>4, InvParts DEF Writing
  <2>3. ListenTypes'
    BY <1>3, <2>1, <2>2 DEF ListenTypes, Getting, Asking
  <2>4. ListenerAt'
    BY <1>2, <1>3, <1>4, <2>1 DEF ListenerAt, Getting, Asking, InGiven
  <2>5. op = "ready" /\ promised => Readable
    BY <1>3 DEF Promises
  <2>6. Readable /\ ~off[cur] => Ahead(cur) >= 1
    <3>1. cur \in Child /\ cur = val[Front(Root)]
      BY <1>3, <2>1 DEF ListenerAt, Asking, InGiven
    <3>2. Readable /\ ~off[cur] => unread[cur] # << >>
      BY <3>1, ReadableFront
    <3>3. unread[cur] = << >> <=> Ahead(cur) = 0
      BY <1>4, FrontIs
    <3>4. Ahead(cur) \in Nat
      BY <1>4, <1>6
    <3> QED
      BY <3>2, <3>3, <3>4
  <2>7. Promises'
    BY <1>2, <2>1, <2>5, <2>6 DEF Promises
  <2> QED
    BY <2>3, <2>4, <2>7
<1>17. ASSUME ReadyGiven
       PROVE  ListenTypes' /\ ListenerAt' /\ Promises'
  <2>1. /\ cpc = "ready_given" /\ cpc' = "ready_end" /\ isready' = (At(listener[cur]) # NULL)
        /\ op' = op /\ cur' = cur /\ outer' = outer /\ node' = node /\ closed' = closed
        /\ got' = got /\ answer' = answer /\ promised' = promised
    BY <1>17 DEF ReadyGiven
  <2>2. /\ Ahead(cur) >= 1 => At(listener[cur]) # NULL
        /\ At(listener[cur]) # NULL => Ahead(cur) >= 1
        /\ Ahead(cur) >= 1 \/ Ahead(cur) = 0
    BY <1>4, <1>6, <1>7
  <2>3. ListenTypes'
    BY <1>3, <2>1 DEF ListenTypes, Getting, Asking
  <2>4. ListenerAt'
    BY <1>2, <1>3, <1>4, <2>1, <2>2 DEF ListenerAt, Getting, Asking, InGiven
  <2>5. Promises'
    BY <1>2, <1>3, <2>1, <2>2 DEF Promises
  <2> QED
    BY <2>3, <2>4, <2>5
<1>18. ASSUME EmptyLoad
       PROVE  ListenTypes' /\ ListenerAt' /\ Promises'
  <2> DEFINE n == At(listener[Root])
  <2>1. CASE n # NULL /\ val[n] \in Child
    <3>1. /\ cpc = "empty" /\ cpc' = "empty_closed" /\ node' = n /\ cur' = val[n]
          /\ op' = op /\ outer' = outer /\ closed' = closed
          /\ isready' = isready /\ got' = got /\ answer' = answer /\ promised' = promised
      BY <1>18, <2>1 DEF EmptyLoad
    <3>2. Ahead(Root) >= 1 /\ n = Front(Root)
      BY <1>4, <1>7, <2>1
    <3>3. ListenTypes'
      BY <1>3, <1>5, <2>1, <3>1 DEF ListenTypes, Getting, Asking
    <3>4. ListenerAt'
      BY <1>2, <1>3, <1>4, <2>1, <3>1, <3>2 DEF ListenerAt, Getting, Asking, InGiven
    <3>5. Promises'
      BY <1>2, <1>3, <3>1 DEF Promises
    <3> QED
      BY <3>3, <3>4, <3>5
  <2>2. CASE ~(n # NULL /\ val[n] \in Child)
    <3>1. Return(IF n = NULL THEN "yes" ELSE "no") /\ got' = got
      BY <1>18, <2>2 DEF EmptyLoad
    <3> QED
      BY <1>8, <3>1
  <2> QED
    BY <2>1, <2>2
<1>19. ASSUME EmptyClosed
       PROVE  ListenTypes' /\ ListenerAt' /\ Promises'
  <2>1. CASE StillOpen
    <3>1. Return("no") /\ got' = got
      BY <1>19, <2>1 DEF EmptyClosed
    <3> QED
      BY <1>8, <3>1
  <2>2. CASE ~StillOpen
    <3>1. /\ cpc = "empty_closed" /\ cpc' = "empty_given" /\ off[cur]
          /\ op' = op /\ cur' = cur /\ outer' = outer /\ node' = node /\ closed' = closed
          /\ isready' = isready /\ got' = got /\ answer' = answer /\ promised' = promised
      BY <1>19, <2>2 DEF EmptyClosed, StillOpen
    <3>2. ListenTypes'
      BY <1>3, <3>1 DEF ListenTypes, Getting, Asking
    <3>3. ListenerAt'
      BY <1>2, <1>3, <1>4, <3>1 DEF ListenerAt, Getting, Asking, InGiven
    <3>4. Promises'
      BY <1>2, <1>3, <3>1 DEF Promises
    <3> QED
      BY <3>2, <3>3, <3>4
  <2> QED
    BY <2>1, <2>2
<1> QED
  BY <1>2, <1>9, <1>10, <1>11, <1>12, <1>13, <1>14, <1>15, <1>16, <1>17, <1>18, <1>19
  DEF IInv

\* The listener goes past an item, or past a given stream that has ended.
LEMMA Passes ==
    ASSUME ConcatAssumption, IInv, NEW s \in alive, Ahead(s) >= 1, MoveTo(s, Front(s)),
           UNCHANGED <<heap, off, writers>>, cpc # "gone",
           s = Root /\ val[Front(s)] \in Child =>
              off[val[Front(s)]] /\ Ahead(val[Front(s)]) = 0,
           \/ \E a \in {NULL, "yes", "no"} : Return(a) /\ got' \in Item \cup {NULL}
           \/ /\ cpc' = "load" /\ cpc \in Getting /\ node = NULL
              /\ cur' = Root /\ outer' = NULL /\ node' = NULL
              /\ UNCHANGED <<op, closed, isready, got, answer, promised>>
           \/ /\ cpc' = "ready" /\ op = "ready" /\ (promised => Readable')
              /\ cur' = Root /\ outer' = NULL /\ node' = NULL /\ closed' = FALSE
              /\ UNCHANGED <<op, isready, got, answer, promised>>
           \/ /\ cpc' = "empty" /\ op = "empty"
              /\ cur' = Root /\ outer' = NULL /\ node' = NULL
              /\ UNCHANGED <<op, closed, isready, got, answer, promised>>
    PROVE  IInv'
<1>1. Shape' /\ Left' /\ Writing' /\ alive' = alive
  BY Moves
<1>2. Root \in alive /\ Root \in Stream /\ ListenTypes
  BY CurAlive, InvParts
<1>3. CASE \E a \in {NULL, "yes", "no"} : Return(a) /\ got' \in Item \cup {NULL}
  BY <1>1, <1>2, <1>3
  DEF IInv, Return, ListenTypes, ListenerAt, Promises, Getting, Asking
<1>4. CASE /\ cpc' = "load" /\ cpc \in Getting /\ node = NULL
           /\ cur' = Root /\ outer' = NULL /\ node' = NULL
           /\ UNCHANGED <<op, closed, isready, got, answer, promised>>
  BY <1>1, <1>2, <1>4 DEF IInv, ListenTypes, ListenerAt, Promises, Getting, Asking
<1>5. CASE /\ cpc' = "ready" /\ op = "ready" /\ (promised => Readable')
           /\ cur' = Root /\ outer' = NULL /\ node' = NULL /\ closed' = FALSE
           /\ UNCHANGED <<op, isready, got, answer, promised>>
  BY <1>1, <1>2, <1>5 DEF IInv, ListenTypes, ListenerAt, Promises, Getting, Asking
<1>6. CASE /\ cpc' = "empty" /\ op = "empty"
           /\ cur' = Root /\ outer' = NULL /\ node' = NULL
           /\ UNCHANGED <<op, closed, isready, got, answer, promised>>
  BY <1>1, <1>2, <1>6 DEF IInv, ListenTypes, ListenerAt, Promises, Getting, Asking
<1> QED
  BY <1>3, <1>4, <1>5, <1>6

LEMMA Returns ==
    ASSUME ConcatAssumption, IInv, cpc # "gone",
           UNCHANGED <<heap, listener, off, writers, history>>,
           NEW a \in {NULL, "yes", "no"}, Return(a), got' \in Item \cup {NULL}
    PROVE  IInv'
<1>1. Shape' /\ Left' /\ Writing' /\ alive' = alive
  BY Stays
<1>2. Root \in alive /\ Root \in Stream
  BY CurAlive
<1> QED
  BY <1>1, <1>2 DEF IInv, Return, ListenTypes, ListenerAt, Promises, Getting, Asking

\* The listener in a given stream.
LEMMA AtGiven ==
    ASSUME ConcatAssumption, IInv, NEW n, InGiven(n)
    PROVE  /\ n = Front(Root) /\ Ahead(Root) >= 1 /\ val[Front(Root)] = cur
           /\ cur \in Child /\ cur \in alive /\ cur # Root /\ cur \in Stream
           /\ unread[cur] = << >> <=> Ahead(cur) = 0
<1>1. n = Front(Root) /\ Ahead(Root) >= 1 /\ val[Front(Root)] = cur /\ cur \in Child
  BY DEF InGiven
<1>2. cur # Root /\ cur \in Stream /\ Root \in Stream
  BY <1>1, Apart
<1> QED
  BY <1>1, <1>2, FrontIs, Apart

LEMMA EndOfGivenInv ==
    ASSUME ConcatAssumption, IInv, EndOfGiven
    PROVE  IInv' /\ MoveTo(Root, Front(Root)) /\ Finished(Front(Root)) /\ Ahead(Root) >= 1
<1>1. /\ cpc = "end" /\ cur # Root /\ MoveTo(Root, outer) /\ cur' = Root /\ outer' = NULL
      /\ cpc' = "load" /\ UNCHANGED <<heap, off, writers>>
      /\ UNCHANGED <<op, node, closed, isready, got, answer, promised>>
  BY DEF EndOfGiven, LeaveGiven
<1>2. InGiven(outer) /\ node = NULL /\ off[cur] /\ Ahead(cur) = 0 /\ cpc # "gone"
  BY <1>1, InvParts DEF ListenerAt, Getting
<1>3. /\ outer = Front(Root) /\ Ahead(Root) >= 1 /\ val[Front(Root)] = cur /\ Root \in alive
      /\ cur \in Child /\ unread[cur] = << >>
  BY <1>2, AtGiven, CurAlive
<1>4. IInv'
  BY <1>1, <1>2, <1>3, Passes DEF Getting
<1> QED
  BY <1>1, <1>2, <1>3, <1>4 DEF Finished

LEMMA FoundIs ==
    ASSUME ConcatAssumption, IInv, Found
    PROVE  /\ cpc = "have" /\ node = Front(cur) /\ Ahead(cur) >= 1 /\ val[node] \in Item
           /\ cur \in alive /\ cur \in Stream /\ val[node] \notin Child
<1>1. cpc = "have" /\ val[node] \notin Child
  BY DEF Found
<1>2. Ahead(cur) >= 1 /\ node = Front(cur)
  BY <1>1, InvParts DEF ListenerAt
<1>3. cur \in alive /\ cur \in Stream
  BY <1>1, CurAlive
<1> QED
  BY <1>1, <1>2, <1>3, FrontIs

LEMMA FoundInv ==
    ASSUME ConcatAssumption, IInv, Found
    PROVE  IInv'
<1>1. /\ got' = IF op \in {"get", "peek"} THEN val[node] ELSE got
      /\ Return(IF op = "depleted" THEN "no" ELSE NULL)
      /\ UNCHANGED <<heap, off, writers>>
  BY DEF Found
<1>2. /\ cpc = "have" /\ node = Front(cur) /\ Ahead(cur) >= 1 /\ val[node] \in Item
      /\ cur \in alive /\ cur \in Stream /\ val[node] \notin Child
  BY FoundIs
<1>3. got' \in Item \cup {NULL}
  BY <1>1, <1>2, InvParts DEF ListenTypes
<1>4. \E a \in {NULL, "yes", "no"} : Return(a)
  BY <1>1
<1>5. CASE op \in {"get", "skip"}
  <2>1. MoveTo(cur, Front(cur))
    BY <1>2, <1>5 DEF Found
  <2> QED
    BY <1>1, <1>2, <1>3, <1>4, <2>1, Passes
<1>6. CASE op \notin {"get", "skip"}
  <2>1. UNCHANGED <<heap, listener, off, writers, history>>
    BY <1>1, <1>6 DEF Found, Stay
  <2> QED
    BY <1>2, <1>3, <1>4, <2>1, Returns
<1> QED
  BY <1>5, <1>6

\* What ready and empty pass has ended.
LEMMA AskingPasses ==
    ASSUME ConcatAssumption, IInv,
           \/ cpc = "ready_end" /\ closed /\ ~isready
           \/ cpc = "empty_given" /\ At(listener[cur]) = NULL
    PROVE  /\ node = Front(Root) /\ Ahead(Root) >= 1 /\ Finished(Front(Root))
           /\ val[Front(Root)] = cur /\ off[cur] /\ Ahead(cur) = 0 /\ Root \in alive
<1>1. ListenerAt /\ cpc # "gone"
  BY InvParts
<1>2. InGiven(node) /\ off[cur]
  BY <1>1 DEF ListenerAt, Asking
<1>3. /\ node = Front(Root) /\ Ahead(Root) >= 1 /\ val[Front(Root)] = cur
      /\ cur \in Child /\ cur \in alive /\ cur \in Stream
      /\ unread[cur] = << >> <=> Ahead(cur) = 0
  BY <1>2, AtGiven
<1>4. Ahead(cur) = 0
  <2>1. CASE cpc = "ready_end" /\ closed /\ ~isready
    BY <1>1, <2>1 DEF ListenerAt
  <2>2. CASE At(listener[cur]) = NULL
    <3>1. Ahead(cur) \in Nat
      BY <1>3, InvParts
    <3> QED
      BY <1>3, <2>2, <3>1, FrontIs
  <2> QED
    BY <2>1, <2>2
<1> QED
  BY <1>1, <1>2, <1>3, <1>4, CurAlive DEF Finished

LEMMA ReadyEndInv ==
    ASSUME ConcatAssumption, IInv, ReadyEnd
    PROVE  IInv'
<1>1. /\ cpc = "ready_end" /\ UNCHANGED <<heap, off, writers>> /\ got' = got
  BY DEF ReadyEnd
<1>2. op = "ready" /\ Promises /\ got \in Item \cup {NULL}
  BY <1>1, InvParts DEF ListenTypes
<1>3. CASE isready \/ ~closed
  <2>1. /\ Return(IF isready THEN "yes" ELSE "no")
        /\ UNCHANGED <<heap, listener, off, writers, history>>
    BY <1>1, <1>3 DEF ReadyEnd, WasClosed, Stay
  <2>2. \E a \in {NULL, "yes", "no"} : Return(a)
    BY <2>1
  <2> QED
    BY <1>1, <1>2, <2>1, <2>2, Returns
<1>4. CASE ~(isready \/ ~closed)
  <2>1. /\ node = Front(Root) /\ Ahead(Root) >= 1 /\ Finished(Front(Root))
        /\ val[Front(Root)] = cur /\ off[cur] /\ Ahead(cur) = 0 /\ Root \in alive
    BY <1>1, <1>4, AskingPasses
  <2>2. /\ MoveTo(Root, node) /\ cpc' = "ready" /\ cur' = Root /\ node' = NULL /\ closed' = FALSE
        /\ UNCHANGED <<op, outer, isready, answer, promised>>
    BY <1>1, <1>4 DEF ReadyEnd, WasClosed
  <2>3. outer = NULL
    BY <1>1, InvParts DEF ListenerAt, Asking
  <2>4. val' = val /\ off' = off /\ unread' = [unread EXCEPT ![Root] = Tail(unread[Root])]
    BY <1>1, <2>1, <2>2, Moves
  <2>5. promised => Readable'
    BY <1>2, <2>1, <2>4, ReadableTail DEF Promises
  <2> QED
    BY <1>1, <1>2, <2>1, <2>2, <2>3, <2>5, Passes
<1> QED
  BY <1>3, <1>4

LEMMA EmptyGivenInv ==
    ASSUME ConcatAssumption, IInv, EmptyGiven
    PROVE  IInv'
<1>1. /\ cpc = "empty_given" /\ UNCHANGED <<heap, off, writers>> /\ got' = got
  BY DEF EmptyGiven
<1>2. op = "empty" /\ got \in Item \cup {NULL}
  BY <1>1, InvParts DEF ListenTypes
<1>3. CASE At(listener[cur]) # NULL
  <2>1. Return("no") /\ UNCHANGED <<heap, listener, off, writers, history>>
    BY <1>1, <1>3 DEF EmptyGiven, Stay
  <2> QED
    BY <1>1, <1>2, <2>1, Returns
<1>4. CASE At(listener[cur]) = NULL
  <2>1. /\ node = Front(Root) /\ Ahead(Root) >= 1
        /\ val[Front(Root)] = cur /\ off[cur] /\ Ahead(cur) = 0 /\ Root \in alive
    BY <1>1, <1>4, AskingPasses
  <2>2. /\ MoveTo(Root, node) /\ cpc' = "empty" /\ cur' = Root /\ node' = NULL
        /\ UNCHANGED <<op, outer, closed, isready, answer, promised>>
    BY <1>1, <1>4 DEF EmptyGiven
  <2>3. outer = NULL
    BY <1>1, InvParts DEF ListenerAt, Asking
  <2> QED
    BY <1>1, <1>2, <2>1, <2>2, <2>3, Passes
<1> QED
  BY <1>3, <1>4

LEMMA InitInv ==
    ASSUME ConcatAssumption, Init
    PROVE  IInv
<1>1. << >> \o << >> = << >> /\ Len(<< >>) = 0 /\ << >> \in Seq(Node)
  OBVIOUS
<1>2. /\ allocated = {} /\ alive = {Root}
      /\ next = [n \in Node |-> NULL]
      /\ val = [n \in Node |-> NULL]
      /\ first = [s \in Stream |-> NULL]
      /\ last = [s \in Stream |-> s]
      /\ listener = [s \in Stream |-> s]
      /\ off = [s \in Stream |-> s # Root]
      /\ ppc = [s \in Stream |-> "idle"]
      /\ iter = [s \in Stream |-> NULL]
      /\ cpc = "idle" /\ op = NULL /\ cur = Root /\ outer = NULL /\ node = NULL
      /\ closed = FALSE /\ isready = FALSE
      /\ got = NULL /\ answer = NULL /\ promised = FALSE
      /\ spent = [s \in Stream |-> << >>]
      /\ unread = [s \in Stream |-> << >>]
  BY DEF Init
<1>3. Root \in Stream
  BY Apart
<1>4. \A s \in Stream : Total(s) = 0 /\ Past(s) = 0 /\ Ahead(s) = 0
  BY <1>1, <1>2 DEF Total, Past, Ahead, All
<1>5. Cells
  BY <1>1, <1>2, <1>3 DEF Cells
<1>6. Distinct /\ Values /\ Dead /\ Allocated /\ Linked(Root)
  BY <1>2, <1>3, <1>4 DEF Distinct, Values, Dead, Allocated, Linked
<1>7. Left
  BY <1>3, <1>4 DEF Left
<1>8. Writing
  BY <1>2, <1>3 DEF Writing, WriterAt
<1>9. ListenTypes /\ ListenerAt /\ Promises
  BY <1>2, <1>3 DEF ListenTypes, ListenerAt, Promises, Getting, Asking
<1> QED
  BY <1>2, <1>5, <1>6, <1>7, <1>8, <1>9 DEF IInv, Shape

LEMMA NextInv ==
    ASSUME ConcatAssumption, IInv, [Next]_vars
    PROVE  IInv'
<1>1. CASE UNCHANGED vars
  <2>1. /\ UNCHANGED <<heap, listener, off, writers, history>>
        /\ cpc' = cpc /\ op' = op /\ cur' = cur /\ outer' = outer /\ node' = node
        /\ closed' = closed /\ isready' = isready /\ got' = got /\ answer' = answer
        /\ promised' = promised
    BY <1>1 DEF vars, listening
  <2>2. /\ Shape' /\ Left' /\ Writing'
        /\ \A s : Ahead(s)' = Ahead(s) /\ Front(s)' = Front(s)
        /\ alive' = alive /\ val' = val /\ off' = off
        /\ Readable' = Readable
    BY <2>1, Stays
  <2>3. ListenTypes' /\ ListenerAt' /\ Promises'
    BY <2>1, <2>2, InvParts DEF ListenTypes, ListenerAt, Promises, InGiven, Getting, Asking
  <2> QED
    BY <2>2, <2>3 DEF IInv
<1>2. CASE Next
  <2>1. ASSUME Running, NEW s \in Stream, NEW x \in Item, Put(s, x)
        PROVE  IInv'
    BY <2>1, PutInv
  <2>2. ASSUME Running, NEW s \in Stream, Close(s)
        PROVE  IInv'
    BY <2>2, CloseInv
  <2>3. ASSUME Running, NEW s \in Stream, Sweep(s)
        PROVE  IInv'
    BY <2>3, SweepSees, SweepFreeInv DEF Sweep
  <2>4. ASSUME Running, NEW c \in Child, Give(c)
        PROVE  IInv'
    BY <2>4, GiveInv
  <2>5. ASSUME \/ \E o \in {"get", "peek", "skip", "depleted", "ready", "empty"} : Call(o)
               \/ Listen
        PROVE  IInv'
    BY <2>5, ListenQuiet, EndOfGivenInv, FoundInv, ReadyEndInv, EmptyGivenInv DEF Listen
  <2> QED
    BY <1>2, <2>1, <2>2, <2>3, <2>4, <2>5, DestroyInv DEF Next
<1> QED
  BY <1>1, <1>2
-----------------------------------------------------------------------------
(***************************************************************************)
(* What follows from the invariant                                         *)
(***************************************************************************)
\* The invariant holds of every state the writers and the listener can reach.
THEOREM Invariant == Spec => []IInv
<1>1. Init => IInv
  BY ConcatAssumption, InitInv
<1>2. IInv /\ [Next]_vars => IInv'
  BY ConcatAssumption, NextInv
<1> QED
  BY <1>1, <1>2, PTL DEF Spec

LEMMA CellsOf ==
    ASSUME ConcatAssumption, IInv, NEW s \in alive
    PROVE  /\ s \in Stream
           /\ first[s] \in allocated \cup {NULL}
           /\ last[s] \in allocated \cup {s}
           /\ listener[s] \in allocated \cup {s}
           /\ iter[s] \in allocated \cup {NULL}
<1>1. /\ s \in Stream /\ Linked(s) /\ WriterAt(s) /\ Total(s) \in Nat /\ Past(s) \in Nat
      /\ Total(s) = Past(s) + Ahead(s) /\ Ahead(s) \in Nat /\ Shape
  BY InvParts DEF Writing
<1>2. \A i \in 1 .. Total(s) : All(s)[i] \in allocated
  BY <1>1 DEF Shape, Allocated
<1>3. /\ Total(s) # 0 => 1 \in 1 .. Total(s) /\ Total(s) \in 1 .. Total(s)
      /\ Past(s) # 0 => Past(s) \in 1 .. Total(s)
  BY <1>1
<1>4. first[s] \in allocated \cup {NULL} /\ last[s] \in allocated \cup {s}
         /\ listener[s] \in allocated \cup {s}
  BY <1>1, <1>2, <1>3 DEF Linked
<1>5. ASSUME ppc[s] = "loop"
      PROVE  iter[s] \in allocated \cup {NULL}
  <2>1. Past(s) >= 1 /\ iter[s] = next[first[s]] /\ Total(s) >= 1
    BY <1>1, <1>5 DEF WriterAt
  <2>2. iter[s] = IF Total(s) = 1 THEN NULL ELSE All(s)[2]
    BY <1>1, <2>1, OldestIs DEF Oldest
  <2>3. Total(s) # 1 => 2 \in 1 .. Total(s)
    BY <1>1, <2>1
  <2> QED
    BY <1>2, <2>2, <2>3
<1>6. iter[s] \in allocated \cup {NULL}
  BY <1>1, <1>5 DEF WriterAt
<1> QED
  BY <1>1, <1>4, <1>6

LEMMA InvSafe ==
    ASSUME ConcatAssumption, IInv
    PROVE  MemorySafe
<1>1. \A s \in alive : /\ first[s] \in allocated \cup {NULL}
                       /\ last[s] \in allocated \cup {s}
                       /\ listener[s] \in allocated \cup {s}
                       /\ iter[s] \in allocated \cup {NULL}
  BY CellsOf
<1>2. \A n : InGiven(n) => n \in allocated
  <2>1. Root \in Stream
    BY Apart
  <2> QED
    BY <2>1, FrontIs DEF InGiven
<1>3. ListenerAt /\ ListenTypes /\ Writing
  BY InvParts
<1>4. outer \in allocated \cup {NULL}
  BY <1>2, <1>3 DEF ListenerAt
<1>5. node \in allocated \cup {NULL}
  <2>1. cpc = "have" => node \in allocated
    <3> SUFFICES ASSUME cpc = "have" PROVE node \in allocated
      OBVIOUS
    <3>1. Ahead(cur) >= 1 /\ node = Front(cur) /\ cur \in Stream
      BY <1>3 DEF ListenerAt, ListenTypes
    <3> QED
      BY <3>1, FrontIs
  <2>2. cpc \in Asking => node \in allocated
    BY <1>2, <1>3 DEF ListenerAt
  <2>3. cpc \in Getting \ {"have"} => node \in {NULL, outer}
    BY <1>3 DEF ListenerAt, Getting
  <2>4. cpc \notin Getting \cup Asking => node = NULL
    BY <1>3 DEF ListenerAt
  <2> QED
    BY <1>4, <2>1, <2>2, <2>3, <2>4
<1>6. cpc # "gone" => cur \in alive
  BY CurAlive
<1>7. \A s \in Stream : ~off[s] \/ ppc[s] # "idle" => s \in alive
  BY <1>3 DEF Writing, WriterAt
<1> QED
  BY <1>1, <1>4, <1>5, <1>6, <1>7 DEF MemorySafe

\* No thread of the outer stream or of a given one holds the address of a freed node
\* or of a deleted stream (concat.h: sweep, give, get and ready in any interleaving).
THEOREM MemorySafety == Spec => []MemorySafe
<1>1. IInv => MemorySafe
  BY ConcatAssumption, InvSafe
<1> QED
  BY <1>1, Invariant, PTL

LEMMA InvTypes ==
    ASSUME ConcatAssumption, IInv
    PROVE  TypeOK
<1>1. /\ Shape /\ Writing /\ ListenTypes /\ Cells /\ (\A s \in Stream : Linked(s))
      /\ allocated \subseteq Node /\ alive \subseteq Stream
  BY InvParts DEF Cells
<1>2. Chained
  <2> SUFFICES ASSUME NEW s \in alive
               PROVE  LET all == All(s) IN
                      /\ first[s] = IF all = << >> THEN NULL ELSE all[1]
                      /\ \A i \in DOMAIN all :
                          next[all[i]] = IF i = Len(all) THEN NULL ELSE all[i + 1]
                      /\ last[s] = IF all = << >> THEN s ELSE all[Len(all)]
                      /\ listener[s] = IF spent[s] = << >> THEN s ELSE spent[s][Len(spent[s])]
    BY DEF Chained
  <2>1. /\ Linked(s) /\ DOMAIN All(s) = 1 .. Total(s)
        /\ All(s) = << >> <=> Total(s) = 0
        /\ spent[s] = << >> <=> Past(s) = 0
        /\ \A i \in 1 .. Past(s) : spent[s][i] = All(s)[i]
        /\ Past(s) \in Nat
    BY <1>1, Parts, Lists
  <2>2. Len(All(s)) = Total(s) /\ Len(spent[s]) = Past(s)
    BY DEF Total, Past
  <2>3. Past(s) # 0 => Past(s) \in 1 .. Past(s)
    BY <2>1
  <2> QED
    BY <2>1, <2>2, <2>3 DEF Linked
<1>3. outer \in Node \cup {NULL} /\ node \in Node \cup {NULL}
  BY <1>1, InvSafe DEF MemorySafe
<1>4. cpc = "have" => node \in Node
  BY <1>1, InvParts, FrontIs DEF ListenerAt, ListenTypes
<1> QED
  BY <1>1, <1>2, <1>3, <1>4 DEF TypeOK, Cells, Writing, ListenTypes, Getting, Asking

\* Every variable has its type, and the cells of a live stream are one chain of the
\* nodes read and still to read (concat.h: put, give and sweep).
THEOREM Types == Spec => []TypeOK
<1>1. IInv => TypeOK
  BY ConcatAssumption, InvTypes
<1> QED
  BY <1>1, Invariant, PTL

LEMMA InvNoLeak ==
    ASSUME ConcatAssumption, IInv
    PROVE  NoLeak
<1>1. Shape /\ ListenerAt /\ Cells /\ alive \subseteq Stream
  BY InvParts
<1>2. \A s \in alive : Nodes(s) = {All(s)[i] : i \in 1 .. Total(s)}
  BY <1>1, Parts DEF Nodes
<1>3. \A n : n \in allocated <=> \E s \in alive : n \in Nodes(s)
  BY <1>1, <1>2 DEF Shape, Allocated
<1>4. allocated = UNION {Nodes(s) : s \in alive}
  BY <1>3
<1>5. ASSUME NEW c
      PROVE  c \in alive \ {Root} <=> \E n \in allocated : c \in Given(n)
  <2>1. ASSUME c \in alive, c # Root
        PROVE  \E n \in allocated : c \in Given(n)
    <3>1. PICK i \in 1 .. Total(Root) : val[All(Root)[i]] = c
      BY <1>1, <2>1 DEF Shape, Values
    <3>2. Root \in alive
      BY <1>1, <2>1 DEF Shape, Values
    <3>3. All(Root)[i] \in allocated
      BY <1>1, <3>2 DEF Shape, Allocated
    <3>4. c \in Child
      BY <1>1, <2>1, Apart
    <3> QED
      BY <3>1, <3>3, <3>4 DEF Given
  <2>2. ASSUME NEW n \in allocated, c \in Given(n)
        PROVE  c \in alive /\ c # Root
    <3>1. PICK s \in alive : \E i \in 1 .. Total(s) : n = All(s)[i]
      BY <1>1 DEF Shape, Allocated
    <3>2. PICK i \in 1 .. Total(s) : n = All(s)[i]
      BY <3>1
    <3>3. c = val[All(s)[i]] /\ c \in Child
      BY <2>2, <3>2 DEF Given
    <3> QED
      BY <1>1, <3>3, Apart DEF Shape, Values
  <2> QED
    BY <2>1, <2>2
<1>6. alive \ {Root} = UNION {Given(n) : n \in allocated}
  BY <1>5
<1>7. cpc = "gone" => alive = {}
  BY <1>1 DEF ListenerAt
<1> QED
  BY <1>4, <1>6, <1>7 DEF NoLeak

\* What is allocated is in a list of a live stream, the given streams that live are in
\* the outer list, and destroying the outer stream frees all of it.
THEOREM LeakFreedom == Spec => []NoLeak
<1>1. IInv => NoLeak
  BY ConcatAssumption, InvNoLeak
<1> QED
  BY <1>1, Invariant, PTL

\* sweep stops only where at most one node is read and not freed.
LEMMA StopsSwept ==
    ASSUME ConcatAssumption, IInv, Running, NEW s \in Stream, SweepFirst(s) \/ SweepStop(s),
           ppc'[s] = "idle"
    PROVE  Len(spent[s]) <= 1
<1>1. Shape /\ Writing /\ WriterAt(s)
  BY InvParts DEF Writing
<1>2. ppc[s] # "idle" /\ ~off[s] /\ s \in alive
  BY <1>1 DEF SweepFirst, SweepStop, WriterAt
<1>3. /\ Total(s) \in Nat /\ Past(s) \in Nat /\ Ahead(s) \in Nat
      /\ Total(s) = Past(s) + Ahead(s) /\ Past(s) = Len(spent[s])
  BY InvParts DEF Past
<1>4. Total(s) >= 1 /\ 1 \in 1 .. Total(s)
  BY <1>1, <1>2, <1>3 DEF Writing, WriterAt
<1>5. /\ first[s] = All(s)[1] /\ first[s] \in Node
      /\ next[first[s]] = IF Total(s) = 1 THEN NULL ELSE All(s)[2]
  BY <1>1, <1>2, <1>4, OldestIs DEF Oldest
\* The places of a list are apart.
<1>6. \A i, j \in 1 .. Total(s) : All(s)[i] = All(s)[j] => i = j
  BY <1>1, <1>2 DEF Shape, Distinct
<1>7. /\ Ahead(s) >= 1 => At(listener[s]) = All(s)[Past(s) + 1] /\ Past(s) + 1 \in 1 .. Total(s)
      /\ Ahead(s) = 0 => At(listener[s]) = NULL
  BY <1>2, <1>3, FrontIs DEF Front
<1>8. CASE ppc[s] = "sweep"
  <2>1. Reached(s, first[s])
    BY <1>1, <1>8 DEF SweepFirst, SweepStop, Writing
  <2>2. At(listener[s]) = All(s)[1] /\ All(s)[1] # NULL
    BY <1>5, <2>1, Apart DEF Reached
  <2>3. Ahead(s) >= 1 /\ All(s)[Past(s) + 1] = All(s)[1] /\ Past(s) + 1 \in 1 .. Total(s)
    BY <1>3, <1>7, <2>2
  <2>4. Past(s) + 1 = 1
    BY <1>4, <1>6, <2>3
  <2> QED
    BY <1>3, <2>4
<1>9. CASE ppc[s] = "loop"
  <2>1. /\ iter[s] = NULL \/ Reached(s, iter[s])
        /\ iter[s] = next[first[s]]
    BY <1>1, <1>9 DEF SweepFirst, SweepStop, WriterAt
  <2>2. CASE Total(s) = 1
    BY <1>3, <2>2
  <2>3. CASE Total(s) # 1
    <3>1. 2 \in 1 .. Total(s) /\ iter[s] = All(s)[2] /\ All(s)[2] \in Node
      BY <1>3, <1>4, <1>5, <2>1, <2>3, InvParts
    <3>2. At(listener[s]) = All(s)[2] /\ All(s)[2] # NULL
      BY <2>1, <3>1, Apart DEF Reached
    <3>3. Ahead(s) >= 1 /\ All(s)[Past(s) + 1] = All(s)[2] /\ Past(s) + 1 \in 1 .. Total(s)
      BY <1>3, <1>7, <3>2
    <3>4. Past(s) + 1 = 2
      BY <1>6, <3>1, <3>3
    <3> QED
      BY <1>3, <3>4
  <2> QED
    BY <2>2, <2>3
<1> QED
  BY <1>1, <1>2, <1>8, <1>9 DEF Writing

LEMMA NextSwept ==
    ASSUME ConcatAssumption, IInv, [Next]_vars, NEW s \in Stream,
           ppc[s] # "idle", ppc'[s] = "idle"
    PROVE  Len(spent[s]) <= 1
<1>1. ppc \in [Stream -> {"idle", "sweep", "loop"}]
  BY InvParts DEF Writing
<1>2. ppc' # ppc
  OBVIOUS
<1>3. ASSUME NEW t \in Stream, NEW x, NEW f, NEW l, Link(t, x, f, l)
      PROVE  FALSE
  BY <1>1, <1>3 DEF Link
<1>4. Next
  BY <1>2 DEF vars, writers
<1>5. PICK t \in Stream : Running /\ Sweep(t)
  BY <1>2, <1>3, <1>4, Apart DEF Next, Put, Give, Close, Call, Listen, Load, CheckOff,
     Reload, EndOfRoot, EndOfGiven, EnterGiven, Found, ReadyLoad, ReadyClosed, ReadyGiven,
     ReadyEnd, EmptyLoad, EmptyClosed, EmptyGiven, Destroy, writers
<1>6. SweepFirst(t) \/ SweepStop(t)
  BY <1>2, <1>5 DEF Sweep, SweepFree
<1>7. t = s
  BY <1>1, <1>6 DEF SweepFirst, SweepStop, StopSweep
<1> QED
  BY <1>5, <1>6, <1>7, StopsSwept

\* Each put or give leaves at most one node that was read in its list, wherever the
\* listener is meanwhile (concat.h: sweep).
THEOREM SweptClean == Spec => Swept
<1>1. IInv /\ [Next]_vars =>
         [\A s \in Stream : ppc[s] # "idle" /\ ppc'[s] = "idle" => Len(spent[s]) <= 1]_vars
  BY ConcatAssumption, NextSwept
<1> QED
  BY <1>1, Invariant, PTL DEF Spec, Swept
-----------------------------------------------------------------------------
(***************************************************************************)
(* What ready, empty and depleted answer                                   *)
(***************************************************************************)
\* An item in front of the listener can be read.
LEMMA FrontReadable ==
    ASSUME ConcatAssumption, IInv, Ahead(Root) >= 1,
           val[Front(Root)] \in Child => unread[val[Front(Root)]] # << >>
    PROVE  Readable
<1>1. Root \in Stream
  BY Apart
<1>2. Front(Root) = unread[Root][1] /\ DOMAIN unread[Root] = 1 .. Ahead(Root)
         /\ Ahead(Root) \in Nat
  BY <1>1, FrontIs, InvParts
<1>3. 1 \in DOMAIN unread[Root] /\ HasItem(unread[Root][1]) /\ \A j \in 1 .. 1 - 1 : FALSE
  BY <1>2 DEF HasItem
<1> QED
  BY <1>3 DEF Readable

Vacant == \A i \in DOMAIN unread[Root] : Finished(unread[Root][i])

LEMMA Vacancy ==
    ASSUME ConcatAssumption, IInv
    PROVE  /\ Ahead(Root) = 0 => Vacant
           /\ Ahead(Root) >= 1 /\ ~Finished(Front(Root)) => ~Vacant
<1>1. Root \in Stream /\ Ahead(Root) \in Nat /\ DOMAIN unread[Root] = 1 .. Ahead(Root)
  BY Apart, InvParts, Parts
<1>2. Ahead(Root) >= 1 => Front(Root) = unread[Root][1] /\ 1 \in DOMAIN unread[Root]
  BY <1>1, FrontIs
<1>3. Ahead(Root) = 0 => DOMAIN unread[Root] = {}
  BY <1>1
<1> QED
  BY <1>2, <1>3 DEF Vacant

Right(a) ==
    /\ op = "ready" => IF a = "yes" THEN Readable' ELSE ~promised
    /\ op = "empty" => (a = "yes") = Vacant
    /\ op = "depleted" => IF a = "yes" THEN off[Root] /\ unread[Root] = << >> ELSE Readable'

LEMMA NextRight ==
    ASSUME ConcatAssumption, IInv, [Next]_vars, cpc # "idle", cpc' = "idle"
    PROVE  Right(answer')
<1>1. ListenTypes /\ ListenerAt /\ Promises /\ cpc # "gone"
  <2>1. ListenTypes /\ ListenerAt /\ Promises
    BY InvParts
  <2>2. Next
    BY DEF vars, listening
  <2>3. cpc # "gone"
    BY <2>2 DEF Next, Running, Put, Give, Close, Sweep, SweepFirst, SweepStop, SweepFree, Link,
       Call, Listen, Load, CheckOff, Reload, EndOfRoot, EndOfGiven, EnterGiven, Found, ReadyLoad,
       ReadyClosed, ReadyGiven, ReadyEnd, EmptyLoad, EmptyClosed, EmptyGiven, Destroy, listening
  <2> QED
    BY <2>1, <2>3
<1>2. /\ Root \in Stream /\ Root \in alive /\ cur \in alive /\ cur \in Stream
      /\ cur # Root => cur \in Child /\ Ahead(Root) >= 1 /\ cur = val[Front(Root)]
      /\ Ahead(Root) \in Nat /\ Ahead(cur) \in Nat
  BY <1>1, CurAlive, InvParts
<1>3. \/ Found \/ EndOfRoot \/ ReadyLoad \/ ReadyEnd
      \/ EmptyLoad \/ EmptyClosed \/ EmptyGiven
  <2>1. Next
    BY DEF vars, listening
  <2>2. ASSUME NEW s \in Stream, NEW x, NEW f, NEW l, Link(s, x, f, l)
        PROVE  FALSE
    BY <2>2 DEF Link, listening
  <2>3. ASSUME NEW s \in Stream, Close(s) \/ Sweep(s)
        PROVE  FALSE
    BY <2>3 DEF Close, Sweep, SweepFirst, SweepStop, SweepFree, listening
  <2>4. Listen
    BY <1>2, <2>1, <2>2, <2>3 DEF Next, Put, Give, Call, Destroy
  <2> QED
    BY <2>4 DEF Listen, Load, CheckOff, Reload, EndOfGiven, EnterGiven, ReadyClosed, ReadyGiven
<1>4. ASSUME UNCHANGED <<heap, listener, off, writers, history>>
      PROVE  Readable' = Readable
  BY <1>4, Stays
<1>5. CASE Found
  <2>1. cpc = "have" /\ op \notin {"ready", "empty"}
    BY <1>1, <1>5 DEF Found, ListenTypes, Getting
  <2>2. ASSUME op = "depleted"
        PROVE  Readable' /\ answer' = "no"
    <3>1. UNCHANGED <<heap, listener, off, writers, history>> /\ answer' = "no"
      BY <1>5, <2>2 DEF Found, Stay, Return
    <3>2. Ahead(cur) >= 1 /\ node = Front(cur) /\ val[node] \notin Child
      BY <1>5, FoundIs
    <3>3. CASE cur = Root
      BY <1>4, <3>1, <3>2, <3>3, FrontReadable
    <3>4. CASE cur # Root
      <4>1. unread[cur] # << >>
        BY <1>2, <3>2, FrontIs
      <4> QED
        BY <1>2, <1>4, <3>1, <3>4, <4>1, FrontReadable
    <3> QED
      BY <3>3, <3>4
  <2> QED
    BY <2>1, <2>2 DEF Right
<1>6. CASE EndOfRoot
  <2>1. /\ cpc = "end" /\ cur = Root /\ op = "depleted"
        /\ answer' = "yes"
    BY <1>6 DEF EndOfRoot, Return
  <2>2. off[Root] /\ Ahead(Root) = 0
    BY <1>1, <2>1 DEF ListenerAt
  <2>3. unread[Root] = << >>
    BY <1>2, <2>2, FrontIs
  <2> QED
    BY <2>1, <2>2, <2>3 DEF Right
\* What the load of the listener's cell tells.
<1>7. /\ At(listener[Root]) = NULL => Ahead(Root) = 0
      /\ At(listener[Root]) # NULL => At(listener[Root]) = Front(Root) /\ Ahead(Root) >= 1
  BY <1>2, FrontIs
<1>8. CASE ReadyLoad
  <2> DEFINE n == At(listener[Root])
  <2>1. /\ cpc = "ready" /\ ~(n # NULL /\ val[n] \in Child)
        /\ Return(IF n = NULL THEN "no" ELSE "yes")
        /\ UNCHANGED <<heap, listener, off, writers, history>>
    BY <1>8 DEF ReadyLoad, Stay
  <2>2. op = "ready" /\ answer' = IF n = NULL THEN "no" ELSE "yes"
    BY <1>1, <2>1 DEF ListenTypes, Return
  <2>3. n = NULL => ~promised
    BY <1>1, <1>7, <2>2, ReadableFront DEF Promises
  <2>4. n # NULL => Readable'
    BY <1>4, <1>7, <2>1, FrontReadable
  <2> QED
    BY <2>2, <2>3, <2>4 DEF Right
<1>9. CASE ReadyEnd
  <2>1. /\ cpc = "ready_end" /\ (isready \/ ~closed)
        /\ Return(IF isready THEN "yes" ELSE "no")
        /\ UNCHANGED <<heap, listener, off, writers, history>>
    BY <1>9 DEF ReadyEnd, WasClosed, Stay
  <2>2. op = "ready" /\ answer' = IF isready THEN "yes" ELSE "no"
    BY <1>1, <2>1 DEF ListenTypes, Return
  <2>3. ~isready => ~promised
    BY <1>1, <2>1, <2>2 DEF Promises
  <2>4. isready => Readable'
    <3>1. InGiven(node) /\ (isready => Ahead(cur) >= 1)
      BY <1>1, <2>1 DEF ListenerAt, Asking
    <3>2. Ahead(Root) >= 1 /\ val[Front(Root)] = cur /\ (unread[cur] = << >> <=> Ahead(cur) = 0)
      BY <3>1, AtGiven
    <3>3. isready => Readable
      BY <3>1, <3>2, FrontReadable
    <3> QED
      BY <1>4, <2>1, <3>3
  <2> QED
    BY <2>2, <2>3, <2>4 DEF Right
<1>10. CASE EmptyLoad
  <2> DEFINE n == At(listener[Root])
  <2>1. /\ cpc = "empty" /\ ~(n # NULL /\ val[n] \in Child)
        /\ Return(IF n = NULL THEN "yes" ELSE "no")
    BY <1>10 DEF EmptyLoad, Stay
  <2>2. op = "empty" /\ answer' = IF n = NULL THEN "yes" ELSE "no"
    BY <1>1, <2>1 DEF ListenTypes, Return
  <2>3. n = NULL => Vacant
    BY <1>7, Vacancy
  <2>4. n # NULL => ~Vacant
    BY <1>7, <2>1, Vacancy DEF Finished
  <2> QED
    BY <2>2, <2>3, <2>4 DEF Right, Vacant
<1>11. CASE EmptyClosed
  <2>1. cpc = "empty_closed" /\ ~off[cur] /\ Return("no")
    BY <1>11 DEF EmptyClosed, StillOpen
  <2>2. op = "empty" /\ answer' = "no" /\ InGiven(node)
    BY <1>1, <2>1 DEF ListenTypes, ListenerAt, Asking, Return
  <2>3. Ahead(Root) >= 1 /\ val[Front(Root)] = cur
    BY <2>2, AtGiven
  <2>4. ~Vacant
    BY <2>1, <2>3, Vacancy DEF Finished
  <2> QED
    BY <2>2, <2>4 DEF Right, Vacant
<1>12. CASE EmptyGiven
  <2>1. cpc = "empty_given" /\ At(listener[cur]) # NULL /\ Return("no")
    BY <1>12 DEF EmptyGiven
  <2>2. op = "empty" /\ answer' = "no" /\ InGiven(node)
    BY <1>1, <2>1 DEF ListenTypes, ListenerAt, Asking, Return
  <2>3. Ahead(Root) >= 1 /\ val[Front(Root)] = cur
    BY <2>2, AtGiven
  <2>4. unread[cur] # << >>
    BY <1>2, <2>1, FrontIs
  <2>5. ~Vacant
    BY <2>3, <2>4, Vacancy DEF Finished
  <2> QED
    BY <2>2, <2>5 DEF Right, Vacant
<1> QED
  BY <1>3, <1>5, <1>6, <1>8, <1>9, <1>10, <1>11, <1>12

\* ready, empty and depleted answer what the streams hold, whatever their writers do
\* between the loads of the call (concat.h: ready, empty, depleted).
THEOREM AnswersAreRight == Spec => AnswersRight
<1>1. IInv /\ [Next]_vars =>
         [ cpc # "idle" /\ cpc' = "idle" =>
           /\ op = "ready" => IF answer' = "yes" THEN Readable' ELSE ~promised
           /\ op = "empty" => LET vacant == \A i \in DOMAIN unread[Root] :
                                               Finished(unread[Root][i])
                              IN  (answer' = "yes") = vacant
           /\ op = "depleted" => IF answer' = "yes" THEN off[Root] /\ unread[Root] = << >>
                                                    ELSE Readable'
         ]_vars
  BY ConcatAssumption, NextRight DEF Right, Vacant
<1> QED
  BY <1>1, Invariant, PTL DEF Spec, AnswersRight

-----------------------------------------------------------------------------
(***************************************************************************)
(* What is left to read                                                    *)
(***************************************************************************)
ItemShape ==
    \A s \in Stream :
        /\ Items(s) \in Seq(Item \cup Child) /\ Len(Items(s)) = Ahead(s) /\ Ahead(s) \in Nat
        /\ DOMAIN unread[s] = 1 .. Ahead(s)
        /\ \A i \in 1 .. Ahead(s) : Items(s)[i] = val[unread[s][i]]
        /\ Items(s) = << >> <=> Ahead(s) = 0
        /\ Ahead(s) >= 1 => Head(Items(s)) = val[Front(s)]

\* What is still to read is allocated, and holds an item or a live given stream.
Pending ==
    \A s \in Stream : \A i \in 1 .. Ahead(s) :
        /\ unread[s][i] \in allocated
        /\ (val[unread[s][i]] \in Item \/ val[unread[s][i]] \in Child \cap alive)

LEMMA PendingIs ==
    ASSUME ConcatAssumption, IInv
    PROVE  Pending
<1> SUFFICES ASSUME NEW s \in Stream, NEW i \in 1 .. Ahead(s)
             PROVE  /\ unread[s][i] \in allocated
                    /\ (val[unread[s][i]] \in Item \/ val[unread[s][i]] \in Child \cap alive)
  BY DEF Pending
<1>1. /\ Cells /\ Shape /\ Total(s) \in Nat /\ Past(s) \in Nat /\ Ahead(s) \in Nat
      /\ Total(s) = Past(s) + Ahead(s)
      /\ s \notin alive => Ahead(s) = 0
  BY InvParts
<1>2. unread[s][i] = All(s)[Past(s) + i]
  BY <1>1, Parts
<1>3. Past(s) + i \in 1 .. Total(s) /\ s \in alive
  BY <1>1
<1> QED
  BY <1>1, <1>2, <1>3 DEF Shape, Allocated, Values

LEMMA PendingNext ==
    ASSUME ConcatAssumption
    PROVE  IInv' => Pending'
<1>1. IInv => Pending
  BY PendingIs
<1> QED
  BY <1>1, PTL

LEMMA ItemsAre ==
    ASSUME ConcatAssumption, IInv
    PROVE  ItemShape
<1> SUFFICES ASSUME NEW s \in Stream
             PROVE  /\ Items(s) \in Seq(Item \cup Child) /\ Len(Items(s)) = Ahead(s)
                    /\ Ahead(s) \in Nat
                    /\ DOMAIN unread[s] = 1 .. Ahead(s)
                    /\ \A i \in 1 .. Ahead(s) : Items(s)[i] = val[unread[s][i]]
                    /\ Items(s) = << >> <=> Ahead(s) = 0
                    /\ Ahead(s) >= 1 => Head(Items(s)) = val[Front(s)]
  BY DEF ItemShape
<1> DEFINE n == Ahead(s)
           q == Items(s)
<1>1. n \in Nat /\ DOMAIN unread[s] = 1 .. n
  BY InvParts, Parts
<1>2. \A i \in 1 .. n : val[unread[s][i]] \in Item \cup Child
  BY PendingIs DEF Pending
<1>3. q = [i \in 1 .. n |-> val[unread[s][i]]]
  BY <1>1 DEF Items
<1>4. n >= 1 => Front(s) = unread[s][1]
  BY FrontIs
<1> HIDE DEF n, q
<1>5. q \in [1 .. n -> Item \cup Child]
  BY <1>2, <1>3
<1>6. q \in Seq(Item \cup Child) /\ Len(q) = n
  BY <1>1, <1>5
<1>7. \A i \in 1 .. n : q[i] = val[unread[s][i]]
  BY <1>3
<1>8. q = << >> <=> n = 0
  BY <1>6, Seqs
<1>9. n >= 1 => Head(q) = q[1] /\ 1 \in 1 .. n
  BY <1>1, <1>6
<1> QED
  BY <1>1, <1>4, <1>6, <1>7, <1>8, <1>9 DEF n, q

LEMMA ItemsNext ==
    ASSUME ConcatAssumption
    PROVE  IInv' => ItemShape'
<1>1. IInv => ItemShape
  BY ItemsAre
<1> QED
  BY <1>1, PTL

\* The three ways in which it changes.
LEMMA ItemsSame ==
    ASSUME ConcatAssumption, IInv, NEW s \in Stream, unread'[s] = unread[s],
           \A i \in 1 .. Ahead(s) : val'[unread[s][i]] = val[unread[s][i]]
    PROVE  Items(s)' = Items(s)
<1>1. DOMAIN unread[s] = 1 .. Ahead(s)
  BY ItemsAre DEF ItemShape
<1> QED
  BY <1>1 DEF Items

LEMMA ItemsAppend ==
    ASSUME ConcatAssumption, IInv, IInv', NEW s \in Stream, NEW n \in Node, NEW x,
           unread'[s] = Append(unread[s], n), val'[n] = x, x \in Item \cup Child,
           \A i \in 1 .. Ahead(s) : val'[unread[s][i]] = val[unread[s][i]]
    PROVE  Items(s)' = Append(Items(s), x)
<1> DEFINE p == Items(s)
           q == Items(s)'
           k == Ahead(s)
           V == Item \cup Child
<1>1. /\ p \in Seq(V) /\ Len(p) = k /\ k \in Nat
      /\ \A i \in 1 .. k : p[i] = val[unread[s][i]]
  BY ItemsAre DEF ItemShape
<1>2. /\ q \in Seq(V) /\ Len(q) = Ahead(s)'
      /\ \A i \in 1 .. Ahead(s)' : q[i] = val'[unread'[s][i]]
  BY ItemsNext DEF ItemShape
<1>3. unread[s] \in Seq(Node) /\ Len(unread[s]) = k /\ Ahead(s)' = Len(unread'[s])
  BY InvParts DEF Cells, Ahead
<1>4. /\ Len(Append(unread[s], n)) = k + 1 /\ Append(unread[s], n)[k + 1] = n
      /\ \A i \in 1 .. k : Append(unread[s], n)[i] = unread[s][i]
  BY <1>3, AppendOf
<1>5. /\ Len(q) = k + 1 /\ q[k + 1] = x /\ \A i \in 1 .. k : q[i] = p[i]
  <2>1. Ahead(s)' = k + 1
    BY <1>3, <1>4
  <2>2. k + 1 \in 1 .. Ahead(s)' /\ \A i \in 1 .. k : i \in 1 .. Ahead(s)'
    BY <1>1, <2>1
  <2>3. q[k + 1] = x
    BY <1>2, <1>4, <2>2
  <2>4. \A i \in 1 .. k : q[i] = p[i]
    BY <1>1, <1>2, <1>4, <2>2, SMTT(30)
  <2> QED
    BY <1>2, <2>1, <2>3, <2>4
<1> HIDE DEF p, q, k, V
<1>6. x \in V
  BY DEF V
<1>7. /\ Append(p, x) \in Seq(V) /\ Len(Append(p, x)) = k + 1 /\ Append(p, x)[k + 1] = x
      /\ \A i \in 1 .. k : Append(p, x)[i] = p[i]
  BY <1>1, <1>6, AppendOf
<1>8. \A i \in 1 .. Len(q) : q[i] = Append(p, x)[i]
  <2> SUFFICES ASSUME NEW i \in 1 .. Len(q) PROVE q[i] = Append(p, x)[i]
    OBVIOUS
  <2>1. i \in 1 .. k \/ i = k + 1
    BY <1>1, <1>5
  <2> QED
    BY <1>5, <1>7, <2>1
<1>9. q = Append(p, x)
  BY <1>2, <1>5, <1>7, <1>8, SeqEqual
<1> QED
  BY <1>9 DEF p, q

LEMMA ItemsTail ==
    ASSUME ConcatAssumption, IInv, IInv', NEW s \in Stream, Ahead(s) >= 1,
           unread'[s] = Tail(unread[s]), val' = val
    PROVE  Items(s)' = Tail(Items(s))
<1> DEFINE p == Items(s)
           q == Items(s)'
           k == Ahead(s)
           V == Item \cup Child
<1>1. /\ p \in Seq(V) /\ Len(p) = k /\ k \in Nat /\ k >= 1 /\ p # << >>
      /\ \A i \in 1 .. k : p[i] = val[unread[s][i]]
  BY ItemsAre DEF ItemShape
<1>2. /\ q \in Seq(V) /\ Len(q) = Ahead(s)'
      /\ \A i \in 1 .. Ahead(s)' : q[i] = val'[unread'[s][i]]
  BY ItemsNext DEF ItemShape
<1>3. /\ unread[s] \in Seq(Node) /\ Len(unread[s]) = k /\ Ahead(s)' = Len(unread'[s])
      /\ unread[s] # << >>
  BY InvParts, FrontIs DEF Cells, Ahead
<1>4. /\ Len(Tail(unread[s])) = k - 1
      /\ \A i \in 1 .. k - 1 : Tail(unread[s])[i] = unread[s][i + 1]
  BY <1>3, TailOf
<1>5. Len(q) = k - 1 /\ \A i \in 1 .. k - 1 : q[i] = p[i + 1]
  <2>1. Len(q) = k - 1 /\ Ahead(s)' = k - 1
    BY <1>2, <1>3, <1>4
  <2>2. \A i \in 1 .. k - 1 : i + 1 \in 1 .. k
    BY <1>1
  <2>3. \A i \in 1 .. k - 1 : q[i] = val[unread[s][i + 1]]
    BY <1>2, <1>4, <2>1
  <2> QED
    BY <1>1, <2>1, <2>2, <2>3
<1> HIDE DEF p, q, k, V
<1>6. /\ Tail(p) \in Seq(V) /\ Len(Tail(p)) = k - 1
      /\ \A i \in 1 .. k - 1 : Tail(p)[i] = p[i + 1]
  BY <1>1, TailOf
<1>7. \A i \in 1 .. Len(q) : q[i] = Tail(p)[i]
  BY <1>5, <1>6
<1>8. q = Tail(p)
  BY <1>2, <1>5, <1>6, <1>7, SeqEqual
<1> QED
  BY <1>8 DEF p, q
-----------------------------------------------------------------------------
(***************************************************************************)
(* The steps                                                               *)
(***************************************************************************)
LEMMA InitRefines ==
    ASSUME ConcatAssumption, Init
    PROVE  Promise!Init
<1>1. /\ unread = [s \in Stream |-> << >>] /\ off = [s \in Stream |-> s # Root]
      /\ got = NULL /\ cpc = "idle"
  BY DEF Init
<1>2. Root \in Stream /\ \A c \in Child : c \in Stream /\ c # Root
  BY Apart
<1>3. \A s \in Stream : Items(s) = << >>
  <2> SUFFICES ASSUME NEW s \in Stream PROVE Items(s) = << >>
    OBVIOUS
  <2>1. unread[s] = << >>
    BY <1>1
  <2>2. [i \in DOMAIN << >> |-> val[<< >>[i]]] = << >>
    OBVIOUS
  <2> QED
    BY <2>1, <2>2 DEF Items
<1> QED
  BY <1>1, <1>2, <1>3 DEF Promise!Init, Running

\* A step that nothing of the sequence shows.
LEMMA Stutters ==
    ASSUME ConcatAssumption, IInv, unread' = unread, off' = off, got' = got,
           Running' <=> Running,
           \A s \in Stream : \A i \in 1 .. Ahead(s) : val'[unread[s][i]] = val[unread[s][i]]
    PROVE  UNCHANGED Promise!absVars
<1>1. \A s \in Stream : Items(s)' = Items(s)
  BY ItemsSame
<1>2. Root \in Stream /\ \A c \in Child : c \in Stream
  BY Apart
<1> QED
  BY <1>1, <1>2 DEF Promise!absVars

\* put, or new concat and give.
LEMMA LinkItems ==
    ASSUME ConcatAssumption, IInv, IInv', NEW s \in alive, NEW x,
           x \in Item \/ (s = Root /\ x \in Child \ alive),
           Link(s, x, first, last), listener' = listener, alive' = alive \cup ({x} \cap Child)
    PROVE  /\ Items(s)' = Append(Items(s), x) /\ ~off[s] /\ got' = got /\ cpc' = cpc
           /\ \A t \in Stream \ {s} : Items(t)' = Items(t)
<1>1. PICK n \in Node \ allocated :
         val' = [val EXCEPT ![n] = x] /\ unread'[s] = Append(unread[s], n)
  BY InvParts, LinkShape
<1>2. \A t \in Stream \ {s} : unread'[t] = unread[t]
  BY InvParts, LinkShape
<1>3. s \in Stream /\ val \in [Node -> Item \cup Child \cup {NULL}] /\ allocated \subseteq Node
  BY InvParts DEF Cells
<1>4. val'[n] = x /\ \A m \in allocated : val'[m] = val[m]
  BY <1>1, <1>3
<1>5. \A t \in Stream : \A i \in 1 .. Ahead(t) : val'[unread[t][i]] = val[unread[t][i]]
  BY <1>4, PendingIs DEF Pending
<1>6. Items(s)' = Append(Items(s), x)
  BY <1>1, <1>3, <1>4, <1>5, ItemsAppend
<1>7. \A t \in Stream \ {s} : Items(t)' = Items(t)
  BY <1>2, <1>5, ItemsSame
<1> QED
  BY <1>6, <1>7 DEF Link, listening

LEMMA PutRefines ==
    ASSUME ConcatAssumption, IInv, IInv', Running, NEW s \in Stream, NEW x \in Item, Put(s, x)
    PROVE  \/ Promise!Put(x)
           \/ \E c \in Child : Promise!SubPut(c, x)
<1>1. /\ Link(s, x, first, last) /\ alive' = alive /\ listener' = listener /\ off' = off
      /\ ~off[s]
  BY DEF Put, Link
<1>2. s \in alive
  BY <1>1, InvParts DEF Writing, WriterAt
<1>3. x \notin Child /\ {x} \cap Child = {}
  BY Apart
<1>4. /\ Items(s)' = Append(Items(s), x) /\ got' = got /\ cpc' = cpc
      /\ \A t \in Stream \ {s} : Items(t)' = Items(t)
  BY <1>1, <1>2, <1>3, LinkItems
<1>5. Root \in Stream /\ Root \notin Child /\ \A c \in Child : c \in Stream
  BY Apart
<1>6. CASE s = Root
  <2>1. \A c \in Child : Items(c)' = Items(c)
    BY <1>4, <1>5, <1>6
  <2> QED
    BY <1>1, <1>4, <1>6, <2>1 DEF Promise!Put, Running
<1>7. CASE s # Root
  <2>1. s \in Child /\ Items(Root)' = Items(Root)
    BY <1>4, <1>5, <1>7, Apart
  <2>2. \A c \in Child : Items(c)' = IF c = s THEN Append(Items(s), x) ELSE Items(c)
    BY <1>4, <1>5
  <2>3. Promise!SubPut(s, x)
    BY <1>1, <1>4, <2>1, <2>2 DEF Promise!SubPut, Running
  <2> QED
    BY <2>1, <2>3
<1> QED
  BY <1>6, <1>7

LEMMA GiveRefines ==
    ASSUME ConcatAssumption, IInv, IInv', Running, NEW c \in Child, Give(c)
    PROVE  Promise!Give(c)
<1>1. /\ c \notin alive /\ Root \in alive /\ Link(Root, c, first, last)
      /\ listener' = listener /\ alive' = alive \cup {c}
      /\ off' = [off EXCEPT ![c] = FALSE]
  BY GiveLinks
<1>2. {c} \cap Child = {c} /\ c \in Stream /\ c # Root /\ Root \in Stream
  BY Apart
<1>3. /\ Items(Root)' = Append(Items(Root), c) /\ ~off[Root] /\ got' = got /\ cpc' = cpc
      /\ \A t \in Stream \ {Root} : Items(t)' = Items(t)
  BY <1>1, <1>2, LinkItems
<1>4. \A d \in Child : Items(d)' = Items(d)
  BY <1>3, Apart
<1>5. off[c] /\ off \in [Stream -> BOOLEAN]
  BY <1>1, <1>2, InvParts DEF Writing, WriterAt
<1>6. off'[Root] = off[Root] /\ \A d \in Child : ~off'[d] <=> ~off[d] \/ d = c
  BY <1>1, <1>2, <1>5, Apart
<1>7. ~Promise!Queued(c)
  <2>1. /\ DOMAIN Items(Root) = 1 .. Ahead(Root)
        /\ \A i \in 1 .. Ahead(Root) : Items(Root)[i] = val[unread[Root][i]]
    BY <1>2, ItemsAre, Seqs DEF ItemShape
  <2>2. \A i \in 1 .. Ahead(Root) : val[unread[Root][i]] # c
    BY <1>1, <1>2, PendingIs, Apart DEF Pending
  <2> QED
    BY <2>1, <2>2 DEF Promise!Queued
<1> QED
  BY <1>3, <1>4, <1>5, <1>6, <1>7 DEF Promise!Give, Running

LEMMA CloseRefines ==
    ASSUME ConcatAssumption, IInv, IInv', Running, NEW s \in Stream, Close(s)
    PROVE  Promise!End \/ \E c \in Child : Promise!SubClose(c)
<1>1. /\ ~off[s] /\ off' = [off EXCEPT ![s] = TRUE] /\ unread' = unread /\ val' = val
      /\ got' = got /\ cpc' = cpc
  BY DEF Close, heap, history, listening
<1>2. \A t \in Stream : Items(t)' = Items(t)
  BY <1>1 DEF Items
<1>3. Root \in Stream /\ Root \notin Child /\ (\A c \in Child : c \in Stream)
      /\ off \in [Stream -> BOOLEAN] /\ (s = Root \/ s \in Child)
  BY Apart, InvParts DEF Writing
<1>4. CASE s = Root
  <2>1. off'[Root] = TRUE /\ \A c \in Child : off'[c] = off[c]
    BY <1>1, <1>3, <1>4
  <2> QED
    BY <1>1, <1>2, <1>3, <1>4, <2>1 DEF Promise!End, Running
<1>5. CASE s \in Child
  <2>1. off'[Root] = off[Root] /\ \A c \in Child : ~off'[c] <=> ~off[c] /\ c # s
    BY <1>1, <1>3, <1>5
  <2>2. Promise!SubClose(s)
    BY <1>1, <1>2, <1>3, <1>5, <2>1 DEF Promise!SubClose, Running
  <2> QED
    BY <1>5, <2>2
<1> QED
  BY <1>3, <1>4, <1>5

LEMMA SweepRefines ==
    ASSUME ConcatAssumption, IInv, IInv', Running, NEW s \in Stream, Sweep(s)
    PROVE  UNCHANGED Promise!absVars
<1>1. CASE SweepFirst(s) \/ SweepStop(s)
  <2>1. UNCHANGED <<heap, listener, off, listening, history>>
    BY <1>1, SweepSees
  <2>2. /\ unread' = unread /\ off' = off /\ got' = got /\ val' = val /\ cpc' = cpc
    BY <2>1 DEF heap, listening, history
  <2> QED
    BY <2>2, Stutters DEF Running
<1>2. CASE SweepFree(s)
  <2>1. unread' = unread /\ off' = off /\ got' = got /\ cpc' = cpc
    BY <1>2 DEF SweepFree, listening
  <2>2. (\A m \in allocated' : val'[m] = val[m]) /\ \A t \in Stream : Ahead(t)' = Ahead(t)
    BY <1>2, SweepFrees, FreeShape, InvParts
  <2>3. \A t \in Stream : \A i \in 1 .. Ahead(t)' : unread'[t][i] \in allocated'
    BY PendingNext DEF Pending
  <2>4. \A t \in Stream : \A i \in 1 .. Ahead(t) : val'[unread[t][i]] = val[unread[t][i]]
    BY <2>1, <2>2, <2>3
  <2> QED
    BY <2>1, <2>4, Stutters DEF Running
<1> QED
  BY <1>1, <1>2 DEF Sweep

\* The listener goes past a given stream that is closed and read to its end.
LEMMA PassRefines ==
    ASSUME ConcatAssumption, IInv, IInv', Ahead(Root) >= 1, Root \in alive,
           MoveTo(Root, Front(Root)),
           Finished(Front(Root)), UNCHANGED <<heap, off, writers>>, got' = got,
           Running, Running'
    PROVE  Promise!Pass
<1>1. /\ val[Front(Root)] \in Child /\ off[val[Front(Root)]]
      /\ unread[val[Front(Root)]] = << >>
  BY DEF Finished
<1> DEFINE c == val[Front(Root)]
<1>2. Root \in Stream /\ c \in Stream /\ c # Root /\ \A d \in Child : d \in Stream /\ d # Root
  BY <1>1, Apart
<1>3. Ahead(c) = 0
  BY <1>1, <1>2, FrontIs
<1>4. /\ val' = val /\ off' = off /\ unread' = [unread EXCEPT ![Root] = Tail(unread[Root])]
  BY <1>1, <1>3, Moves
<1>5. unread'[Root] = Tail(unread[Root]) /\ \A d \in Child : unread'[d] = unread[d]
  BY <1>2, <1>4, InvParts DEF Cells
<1>6. Items(Root)' = Tail(Items(Root))
  BY <1>2, <1>4, <1>5, ItemsTail
<1>7. \A d \in Child : Items(d)' = Items(d)
  BY <1>2, <1>4, <1>5, ItemsSame
<1>8. Items(Root) # << >> /\ Head(Items(Root)) = c /\ Items(c) = << >>
  BY <1>2, <1>3, ItemsAre DEF ItemShape
<1> HIDE DEF c
<1> QED
  BY <1>1, <1>4, <1>6, <1>7, <1>8 DEF c, Promise!Pass

\* The steps of the listener that read nothing.
LEMMA QuietRefines ==
    ASSUME ConcatAssumption, IInv, Running,
           \/ \E o \in {"get", "peek", "skip", "depleted", "ready", "empty"} : Call(o)
           \/ Load \/ CheckOff \/ Reload \/ EnterGiven
           \/ ReadyLoad \/ ReadyClosed \/ ReadyGiven \/ EmptyLoad \/ EmptyClosed
    PROVE  UNCHANGED Promise!absVars
<1>1. /\ unread' = unread /\ off' = off /\ got' = got /\ val' = val
      /\ cpc' \notin {"exited", "gone"}
  <2>1. ASSUME NEW o \in {"get", "peek", "skip", "depleted", "ready", "empty"}, Call(o)
        PROVE  /\ unread' = unread /\ off' = off /\ got' = got /\ val' = val
               /\ cpc' \notin {"exited", "gone"}
    BY <2>1 DEF Call, heap, history
  <2>2. CASE Load
    BY <2>2 DEF Load, heap, history
  <2>3. CASE CheckOff
    BY <2>3 DEF CheckOff, heap, history
  <2>4. CASE Reload
    BY <2>4 DEF Reload, heap, history
  <2>5. CASE EnterGiven
    BY <2>5 DEF EnterGiven, Stay, heap, history
  <2>6. CASE ReadyLoad
    BY <2>6 DEF ReadyLoad, Return, Stay, heap, history
  <2>7. CASE ReadyClosed
    BY <2>7 DEF ReadyClosed, heap, history
  <2>8. CASE ReadyGiven
    BY <2>8 DEF ReadyGiven, heap, history
  <2>9. CASE EmptyLoad
    BY <2>9 DEF EmptyLoad, Return, Stay, heap, history
  <2>10. CASE EmptyClosed
    BY <2>10 DEF EmptyClosed, Return, Stay, heap, history
  <2> QED
    BY <2>1, <2>2, <2>3, <2>4, <2>5, <2>6, <2>7, <2>8, <2>9, <2>10
<1> QED
  BY <1>1, Stutters DEF Running

\* The item the listener found is the next of the sequence.
LEMMA FoundRefines ==
    ASSUME ConcatAssumption, IInv, IInv', Running, Found
    PROVE  Promise!Get \/ Promise!Peek \/ Promise!Skip \/ UNCHANGED Promise!absVars
<1>1. /\ cpc = "have" /\ node = Front(cur) /\ Ahead(cur) >= 1 /\ val[node] \in Item
      /\ cur \in alive /\ cur \in Stream /\ val[node] \notin Child
  BY FoundIs
<1>2. /\ Root \in Stream /\ \A c \in Child : c \in Stream /\ c # Root
      /\ cur # Root => cur \in Child /\ Ahead(Root) >= 1 /\ cur = val[Front(Root)]
  BY <1>1, CurAlive, Apart
<1>3. /\ IF op \in {"get", "skip"} THEN MoveTo(cur, node) ELSE Stay
      /\ got' = IF op \in {"get", "peek"} THEN val[node] ELSE got
      /\ cpc' = "idle" /\ UNCHANGED <<heap, off, writers>>
  BY DEF Found, Return
<1>4. Running'
  BY <1>3 DEF Running
<1>5. val' = val /\ off' = off
  BY <1>3 DEF heap
\* What the sequence has in front, by where the listener is.
<1>6. /\ Items(Root) # << >>
      /\ cur = Root => Head(Items(Root)) \notin Child /\ Head(Items(Root)) = val[node]
      /\ cur # Root => /\ Head(Items(Root)) = cur /\ cur \in Child
                       /\ Items(cur) # << >> /\ Head(Items(cur)) = val[node]
  BY <1>1, <1>2, ItemsAre DEF ItemShape
<1>7. Promise!Readable /\ Promise!Front = val[node]
  <2>1. CASE cur = Root
    BY <1>6, <2>1 DEF Promise!Readable, Promise!Front
  <2>2. CASE cur # Root
    BY <1>6, <2>2 DEF Promise!Readable, Promise!Front
  <2> QED
    BY <2>1, <2>2
\* To move is to advance.
<1>8. ASSUME MoveTo(cur, node)
      PROVE  Promise!Advance
  <2>1. unread' = [unread EXCEPT ![cur] = Tail(unread[cur])]
    BY <1>1, <1>3, <1>8, Moves
  <2>2. unread'[cur] = Tail(unread[cur]) /\ \A t \in Stream \ {cur} : unread'[t] = unread[t]
    BY <1>1, <2>1, InvParts DEF Cells
  <2>3. \A t \in Stream : t = cur => Items(t)' = Tail(Items(t))
    BY <1>1, <1>5, <2>2, ItemsTail
  <2>4. \A t \in Stream \ {cur} : Items(t)' = Items(t)
    BY <1>5, <2>2, ItemsSame
  <2>5. CASE cur = Root
    <3>1. Items(Root)' = Tail(Items(Root)) /\ \A c \in Child : Items(c)' = Items(c)
      BY <1>2, <2>3, <2>4, <2>5
    <3> QED
      BY <1>6, <2>5, <3>1 DEF Promise!Advance
  <2>6. CASE cur # Root
    <3>1. /\ Items(Root)' = Items(Root)
          /\ \A c \in Child : Items(c)' = IF c = cur THEN Tail(Items(c)) ELSE Items(c)
      BY <1>2, <2>3, <2>4, <2>6
    <3>2. [c \in Child |-> Items(c)]' =
             [[c \in Child |-> Items(c)] EXCEPT ![cur] = Tail(@)]
      BY <1>6, <2>6, <3>1
    <3> QED
      BY <1>6, <2>6, <3>1, <3>2 DEF Promise!Advance
  <2> QED
    BY <2>5, <2>6
<1>9. ASSUME Stay
      PROVE  \A t \in Stream : Items(t)' = Items(t)
  <2>1. unread' = unread
    BY <1>9 DEF Stay, history
  <2> QED
    BY <1>5, <2>1, ItemsSame
<1>10. CASE op = "get"
  <2>1. MoveTo(cur, node) /\ got' = val[node]
    BY <1>3, <1>10
  <2> QED
    BY <1>4, <1>5, <1>7, <1>8, <2>1 DEF Promise!Get
<1>11. CASE op = "skip"
  <2>1. MoveTo(cur, node) /\ got' = got
    BY <1>3, <1>11
  <2> QED
    BY <1>4, <1>5, <1>7, <1>8, <2>1 DEF Promise!Skip
<1>12. CASE op = "peek"
  <2>1. Stay /\ got' = val[node]
    BY <1>3, <1>12
  <2> QED
    BY <1>2, <1>4, <1>5, <1>7, <1>9, <2>1 DEF Promise!Peek
<1>13. CASE op \notin {"get", "skip", "peek"}
  <2>1. Stay /\ got' = got
    BY <1>3, <1>13
  <2> QED
    BY <1>2, <1>4, <1>5, <1>9, <2>1 DEF Promise!absVars
<1> QED
  BY <1>10, <1>11, <1>12, <1>13

LEMMA EndOfGivenRefines ==
    ASSUME ConcatAssumption, IInv, IInv', Running, EndOfGiven
    PROVE  Promise!Pass
<1>1. /\ MoveTo(Root, Front(Root)) /\ Finished(Front(Root)) /\ Ahead(Root) >= 1
      /\ Root \in alive
  BY EndOfGivenInv, FrontIs, Apart
<1>2. /\ UNCHANGED <<heap, off, writers>> /\ got' = got /\ cpc' = "load"
  BY DEF EndOfGiven
<1> QED
  BY <1>1, <1>2, PassRefines DEF Running

\* ready and empty go past the given stream they found ended, or return.
LEMMA AskingRefines ==
    ASSUME ConcatAssumption, IInv, IInv', Running, ReadyEnd \/ EmptyGiven
    PROVE  Promise!Pass \/ UNCHANGED Promise!absVars
<1>1. UNCHANGED <<heap, off, writers, got>> /\ cpc' \in {"idle", "ready", "empty"}
  <2>1. CASE ReadyEnd
    BY <2>1 DEF ReadyEnd, Return
  <2>2. CASE EmptyGiven
    BY <2>2 DEF EmptyGiven, Return
  <2> QED
    BY <2>1, <2>2
<1>2. off' = off /\ got' = got /\ val' = val /\ Running' /\ UNCHANGED <<heap, off, writers>>
  BY <1>1 DEF heap, Running
<1>3. ASSUME Stay
      PROVE  UNCHANGED Promise!absVars
  <2>1. unread' = unread
    BY <1>3 DEF Stay, history
  <2> QED
    BY <1>2, <2>1, Stutters
<1>4. ASSUME MoveTo(Root, node), node = Front(Root), Ahead(Root) >= 1,
             Finished(Front(Root)), Root \in alive
      PROVE  Promise!Pass
  BY <1>2, <1>4, PassRefines
<1>5. CASE ReadyEnd
  <2>1. CASE isready \/ ~WasClosed
    BY <1>3, <1>5, <2>1 DEF ReadyEnd
  <2>2. CASE ~(isready \/ ~WasClosed)
    <3>1. cpc = "ready_end" /\ closed /\ ~isready /\ MoveTo(Root, node)
      BY <1>5, <2>2 DEF ReadyEnd, WasClosed
    <3> QED
      BY <1>4, <3>1, AskingPasses
  <2> QED
    BY <2>1, <2>2
<1>6. CASE EmptyGiven
  <2>1. CASE At(listener[cur]) # NULL
    BY <1>3, <1>6, <2>1 DEF EmptyGiven
  <2>2. CASE At(listener[cur]) = NULL
    <3>1. cpc = "empty_given" /\ MoveTo(Root, node)
      BY <1>6, <2>2 DEF EmptyGiven
    <3> QED
      BY <1>4, <2>2, <3>1, AskingPasses
  <2> QED
    BY <2>1, <2>2
<1> QED
  BY <1>5, <1>6

\* The listener is told that the stream has ended, or runs off its end.
LEMMA EndOfRootRefines ==
    ASSUME ConcatAssumption, IInv, Running, EndOfRoot
    PROVE  Promise!RunOff \/ UNCHANGED Promise!absVars
<1>1. /\ cpc = "end" /\ cur = Root /\ unread' = unread /\ off' = off /\ val' = val
      /\ got' = got
  BY DEF EndOfRoot, Stay, history, heap
<1>2. off[Root] /\ Ahead(Root) = 0
  BY <1>1, InvParts DEF ListenerAt
<1>3. Root \in Stream /\ \A c \in Child : c \in Stream
  BY Apart
<1>4. Items(Root) = << >> /\ \A s \in Stream : Items(s)' = Items(s)
  BY <1>1, <1>2, <1>3, ItemsAre, ItemsSame DEF ItemShape
<1>5. CASE op = "depleted"
  <2>1. cpc' = "idle"
    BY <1>5 DEF EndOfRoot, Return
  <2> QED
    BY <1>1, <2>1, Stutters DEF Running
<1>6. CASE op # "depleted"
  <2>1. cpc' = "exited"
    BY <1>6 DEF EndOfRoot
  <2> QED
    BY <1>1, <1>2, <1>3, <1>4, <2>1 DEF Promise!RunOff, Running
<1> QED
  BY <1>5, <1>6

LEMMA DestroyRefines ==
    ASSUME ConcatAssumption, IInv, Running, Destroy
    PROVE  Promise!Destroy
<1>1. /\ off' = [off EXCEPT ![Root] = TRUE] /\ got' = got /\ cpc' = "gone"
      /\ unread' = [s \in Stream |-> << >>]
      /\ \A s \in Stream : s # Root => off[s]
  BY DEF Destroy
<1>2. Root \in Stream /\ (\A c \in Child : c \in Stream /\ c # Root)
      /\ off \in [Stream -> BOOLEAN]
  BY Apart, InvParts DEF Writing
<1>3. \A s \in Stream : Items(s)' = << >>
  <2> SUFFICES ASSUME NEW s \in Stream PROVE Items(s)' = << >>
    OBVIOUS
  <2>1. unread'[s] = << >>
    BY <1>1
  <2>2. [i \in DOMAIN << >> |-> val'[<< >>[i]]] = << >>
    OBVIOUS
  <2> QED
    BY <2>1, <2>2 DEF Items
<1>4. off'[Root] = TRUE /\ \A c \in Child : off[c] /\ off'[c] = off[c]
  BY <1>1, <1>2
<1> QED
  BY <1>1, <1>2, <1>3, <1>4 DEF Promise!Destroy, Running

LEMMA NextRefines ==
    ASSUME ConcatAssumption, IInv, IInv', [Next]_vars
    PROVE  [Promise!Next]_(Promise!absVars)
<1>1. CASE UNCHANGED vars
  <2>1. /\ unread' = unread /\ off' = off /\ got' = got /\ val' = val /\ cpc' = cpc
    BY <1>1 DEF vars, heap, listening, history
  <2> QED
    BY <2>1, Stutters DEF Running
<1>2. CASE Next
  <2>1. ASSUME Running, NEW s \in Stream, NEW x \in Item, Put(s, x)
        PROVE  Promise!Next
    BY <2>1, PutRefines DEF Promise!Next
  <2>2. ASSUME Running, NEW c \in Child, Give(c)
        PROVE  Promise!Next
    BY <2>2, GiveRefines DEF Promise!Next
  <2>3. ASSUME Running, NEW s \in Stream, Close(s)
        PROVE  Promise!Next
    BY <2>3, CloseRefines DEF Promise!Next
  <2>4. ASSUME Running, NEW s \in Stream, Sweep(s)
        PROVE  UNCHANGED Promise!absVars
    BY <2>4, SweepRefines
  <2>5. ASSUME \E o \in {"get", "peek", "skip", "depleted", "ready", "empty"} : Call(o)
        PROVE  UNCHANGED Promise!absVars
    <3>1. Running
      BY <2>5 DEF Call, Running
    <3> QED
      BY <2>5, <3>1, QuietRefines
  <2>6. CASE Listen
    <3>1. Running
      BY <2>6 DEF Running, Listen, Load, CheckOff, Reload, EndOfRoot, EndOfGiven, EnterGiven,
                  Found, ReadyLoad, ReadyClosed, ReadyGiven, ReadyEnd, EmptyLoad, EmptyClosed,
                  EmptyGiven
    <3>2. CASE EndOfRoot
      BY <3>1, <3>2, EndOfRootRefines DEF Promise!Next
    <3>3. CASE EndOfGiven
      BY <3>1, <3>3, EndOfGivenRefines DEF Promise!Next
    <3>4. CASE Found
      BY <3>1, <3>4, FoundRefines DEF Promise!Next
    <3>5. CASE ReadyEnd \/ EmptyGiven
      BY <3>1, <3>5, AskingRefines DEF Promise!Next
    <3>6. CASE \/ Load \/ CheckOff \/ Reload \/ EnterGiven
               \/ ReadyLoad \/ ReadyClosed \/ ReadyGiven \/ EmptyLoad \/ EmptyClosed
      BY <3>1, <3>6, QuietRefines
    <3> QED
      BY <2>6, <3>2, <3>3, <3>4, <3>5, <3>6 DEF Listen
  <2>7. CASE Destroy
    <3>1. Running
      BY <2>7 DEF Destroy, Running
    <3> QED
      BY <2>7, <3>1, DestroyRefines DEF Promise!Next
  <2> QED
    BY <1>2, <2>1, <2>2, <2>3, <2>4, <2>5, <2>6, <2>7 DEF Next
<1> QED
  BY <1>1, <1>2

\* The code's lists, cursors and frees read as one sequence: what put, give and close
\* write is read by get, peek and skip in order, each item once, a given stream in its
\* place and to its end, and only a closed and empty stream is reported to have ended.
THEOREM Refinement == Spec => RefinesStream
<1>1. Init => Promise!Init
  BY ConcatAssumption, InitRefines
<1>2. IInv /\ IInv' /\ [Next]_vars => [Promise!Next]_(Promise!absVars)
  BY ConcatAssumption, NextRefines
<1>3. Spec => []IInv
  BY Invariant
<1> QED
  BY <1>1, <1>2, <1>3, PTL DEF Spec, RefinesStream, Promise!Spec
=============================================================================
