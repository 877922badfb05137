-------------------------- MODULE BroadcastProofs --------------------------
(***************************************************************************)
(* For any numbers of ports and elements, no thread of a stream with       *)
(* several listeners holds the address of a freed node or a deleted        *)
(* stream, and each listener gets what was put, in order.                  *)
(***************************************************************************)
EXTENDS Broadcast, SequenceTheorems, FiniteSetTheorems, WellFoundedInduction, TLAPS

-----------------------------------------------------------------------------
(***************************************************************************)
(* The inductive invariant                                                 *)
(***************************************************************************)
Element == Strm \X Nat
Waiting == {"load", "off", "reload", "have", "end"}
Looking == {"closed", "inside", "some", "past"}
Asking == {"ready", "empty"}
Steps == {"none", "idle", "put", "sweep", "cleanup", "ended"} \cup Waiting \cup Looking \cup Asking
Location(s) == [Ports(s) -> Nat \cup {NULL}]

Types ==
    /\ max_ports \in OutPorts
    /\ list \in [Strm -> Seq(Element)] /\ freed \in [Strm -> Nat] /\ off \in [Strm -> BOOLEAN]
    /\ listeners = [s \in Strm |-> listeners[s]] /\ \A s \in Strm : listeners[s] \in Location(s)
    /\ proxy \in {"none", "live", "deleted"} /\ cancelling \in BOOLEAN
    /\ wpc \in [Strm -> {"idle", "first", "loop", "join", "destroy"}] /\ iter \in [Strm -> Nat]
    /\ rpc \in [Reader -> Steps]
    /\ op \in [Reader -> {"get", "peek", "skip", "depleted", "ready", "empty", NULL}]
    /\ cur \in [Reader -> Strm] /\ asking \in [Reader -> BOOLEAN] /\ node \in [Reader -> Nat]
    /\ closed \in [Reader -> BOOLEAN] /\ ret \in Element \cup {NULL}
    /\ took \in [Port -> Nat] /\ promised \in [Port -> BOOLEAN]

\* A listener is at the cell first or at that of a node that is not freed.
Placed ==
    \A s \in Strm : \A i \in Ports(s) : listeners[s][i] # NULL =>
        /\ listeners[s][i] <= Len(list[s])
        /\ listeners[s][i] = 0 \/ listeners[s][i] > freed[s]
        /\ listeners[s][i] = 0 /\ s # "out" => freed[s] = 0

\* Where a sweep is: once it is past its first test, nobody is at the cell first.
Swept(s) ==
    /\ freed[s] <= Len(list[s])
    /\ list[s] # << >> /\ over # "gone" => freed[s] < Len(list[s])
    /\ wpc[s] # "idle" /\ wpc[s] # "destroy" => list[s] # << >>
    /\ wpc[s] = "first" => iter[s] = freed[s] + 1
    /\ wpc[s] \in {"loop", "join"} =>
          /\ iter[s] = IF freed[s] + 1 < Len(list[s]) THEN freed[s] + 2 ELSE 0
          /\ \A i \in Ports(s) : listeners[s][i] # 0
    /\ wpc[s] = "join" =>
          /\ s = "out" /\ HasProxy("out", freed["out"] + 1) /\ iter["out"] # 0
          /\ \A i \in Ports("out") : listeners["out"][i] # NULL => listeners["out"][i] > freed["out"] + 1
    /\ wpc[s] = "destroy" => s = "out" /\ \A t \in Port : rpc[t] = "idle"
Sweeps == \A s \in Strm : Swept(s)

\* One node of out has a given stream, and only with it there is a proxy.
Given == Contains(list["out"], GIVEN)
Gift ==
    /\ \A i, j \in DOMAIN list["out"] : list["out"][i] = GIVEN /\ list["out"][j] = GIVEN => i = j
    /\ \A s \in {"in", "proxy"} : \A i \in DOMAIN list[s] : list[s][i] # GIVEN
    /\ proxy # "none" <=> max_ports > 1 /\ Given
    /\ proxy = "none" => rpc[Populate] = "none" /\ list["proxy"] = << >>
    /\ proxy # "none" => /\ rpc[Populate] # "none"
                         /\ \A i \in Ports("proxy") : listeners["proxy"][i] # NULL
    /\ proxy = "deleted" =>
          /\ rpc[Populate] = "ended"
          /\ \E i \in 1 .. freed["out"] : list["out"][i] = GIVEN
    /\ wpc["proxy"] # "idle" => rpc[Populate] = "sweep"
    /\ \A i \in Ports("in") : listeners["in"][i] = NULL => rpc[Populate] = "ended"

\* What a reader has loaded, and the stream it is in.
InGiven(t) ==
    LET n == At("out", listeners["out"][t]) IN n # 0 /\ list["out"][n] = GIVEN
Reads(t) ==
    /\ t = Populate =>
          /\ rpc[t] \in {"none", "put", "sweep", "cleanup", "ended"} \cup Waiting
          /\ rpc[t] \in {"put", "sweep", "cleanup"} \cup Waiting =>
                cur[t] = "in" /\ op[t] \in {"get", "depleted"} /\ proxy = "live"
          /\ ~asking[t]
          /\ rpc[t] = "put" => ret \in Element /\ ret # GIVEN
    /\ t # Populate =>
          /\ rpc[t] \in {"idle"} \cup Waiting \cup Looking \cup Asking
          /\ rpc[t] = "idle" => cur[t] = "out" /\ ~asking[t]
          /\ rpc[t] # "idle" => t \in Ports("out") /\ listeners["out"][t] # NULL
          /\ rpc[t] \in Waiting => op[t] \in {"get", "peek", "skip", "depleted"}
          /\ rpc[t] \in Asking \cup Looking => op[t] \in Asking /\ ~asking[t]
          /\ rpc[t] \in Asking => op[t] = rpc[t] /\ cur[t] = "out"
          /\ rpc[t] \in Looking =>
                cur[t] = "in" /\ node[t] = At("out", listeners["out"][t])
          /\ asking[t] => cur[t] # "out"
          /\ cur[t] # "out" =>
                /\ cur[t] = (IF max_ports > 1 THEN "proxy" ELSE "in")
                /\ cur[t] = "proxy" => proxy = "live"
                /\ InGiven(t)
    /\ rpc[t] = "have" => node[t] = Cell(t) /\ node[t] # 0
Safe == Types /\ Placed /\ Sweeps /\ Gift /\ \A t \in Reader : Reads(t)
-----------------------------------------------------------------------------
\* Nodes a listener is past.
Past(s, i) == IF listeners[s][i] = 0 THEN freed[s] ELSE listeners[s][i]
Inner == IF max_ports > 1 THEN "proxy" ELSE "in"
InnerPort(t) == IF max_ports > 1 THEN t ELSE KeyId
\* Elements of the given stream a listener is past.
PastGiven(t) == IF Given \/ max_ports <= 1 THEN Past(Inner, InnerPort(t)) ELSE 0
Gone(t) == \E g \in DOMAIN list["out"] : list["out"][g] = GIVEN /\ g <= Past("out", t)
Taken(t) ==
    listeners["out"][t] # NULL =>
        /\ Gone(t) => /\ off["in"] /\ PastGiven(t) = Len(list["in"])
                      /\ took[t] = Past("out", t) - 1 + Len(list["in"])
        /\ ~Gone(t) => /\ took[t] = Past("out", t) + PastGiven(t)
                       /\ PastGiven(t) # 0 => InGiven(t)
\* The proxy has what populate has read.
Copied ==
    /\ Len(list["proxy"]) <= Len(list["in"])
    /\ \A i \in 1 .. Len(list["proxy"]) : list["proxy"][i] = list["in"][i]
    /\ rpc[Populate] \in {"put", "sweep"} \cup Waiting =>
          Past("in", KeyId) = Len(list["proxy"]) + (IF rpc[Populate] = "put" THEN 1 ELSE 0)
    /\ rpc[Populate] = "put" => ret = list["in"][Past("in", KeyId)]
    /\ off["proxy"] => /\ off["in"] /\ Len(list["proxy"]) = Len(list["in"])
                       /\ rpc[Populate] \in {"cleanup", "ended"}
\* Nobody has read in before it is given.
Fresh == ~Given => listeners["in"][KeyId] = 0
\* What a reader knows of the end of a stream.
Ending(t) ==
    /\ rpc[t] \in {"reload", "end"} => off[cur[t]]
    /\ rpc[t] = "end" => Cell(t) = 0
    /\ rpc[t] = "some" => Cell(t) # 0
    /\ closed[t] => off["in"]
    /\ rpc[t] \in Looking \ {"closed"} /\ op[t] = "empty" => closed[t]
    /\ rpc[t] = "past" /\ closed[t] => Cell(t) = 0
    /\ t # Populate /\ op[t] = "depleted" /\ cur[t] # "out" => asking[t]
\* What ready was asked while there was an element.
Promise(t) ==
    promised[t] =>
        /\ InUse(t) /\ op[t] = "ready" /\ took[t] < Len(Flat)
        /\ rpc[t] = "inside" /\ ~closed[t] => Cell(t) # 0
        /\ rpc[t] = "past" => closed[t]
Ordered ==
    /\ Fresh /\ Copied
    /\ \A t \in Ports("out") : Taken(t)
    /\ \A t \in Reader : Ending(t)
    /\ \A t \in Port : Promise(t)
-----------------------------------------------------------------------------
(***************************************************************************)
(* Sequences, ports and locations                                          *)
(***************************************************************************)
\* What Append adds, and what it leaves alone.
LEMMA AppendOf ==
    ASSUME NEW S, NEW q \in Seq(S), NEW e \in S
    PROVE  /\ Append(q, e) \in Seq(S) /\ Len(Append(q, e)) = Len(q) + 1
           /\ DOMAIN Append(q, e) = 1 .. Len(q) + 1
           /\ \A i \in 1 .. Len(q) : Append(q, e)[i] = q[i]
           /\ Append(q, e)[Len(q) + 1] = e
  OBVIOUS

\* The constants, and the ports they give.
LEMMA Constants ==
    ASSUME BroadcastAssumption
    PROVE  /\ OutPorts \subseteq Nat \ {0} /\ NULL \notin Nat /\ NULL # "gone"
           /\ InPorts \in Nat /\ KeyId \in 0 .. InPorts - 1 /\ Ports("in") = 0 .. InPorts - 1
           /\ KeyId \in Ports("in") /\ Populate \in Reader /\ Port \subseteq Reader
           /\ \A t \in Port : t # Populate /\ t \in Int /\ t >= 0
           /\ \A t \in Reader : t # Populate => t \in Port
           /\ Ports("out") = 0 .. max_ports - 1 /\ Ports("proxy") = 0 .. max_ports - 1
           /\ {"out", "in", "proxy"} = Strm
<1>1. \A t \in Port : t \in Int /\ t >= 0
  BY DEF Port
<1> QED
  BY <1>1 DEF BroadcastAssumption, Ports, Populate, Reader, Strm

\* The lists of nodes are sequences.
LEMMA ListOf ==
    ASSUME Types, NEW s \in Strm
    PROVE  /\ list[s] \in Seq(Element) /\ Len(list[s]) \in Nat /\ freed[s] \in Nat
           /\ DOMAIN list[s] = 1 .. Len(list[s])
           /\ \A i \in 1 .. Len(list[s]) : list[s][i] \in Element
  BY DEF Types

\* What a location holds is a node of the list, the one behind it.
LEMMA AtOf ==
    ASSUME Types, NEW s \in Strm, NEW l \in Nat
    PROVE  /\ At(s, l) \in Nat
           /\ At(s, l) # 0 => /\ At(s, l) = (IF l = 0 THEN freed[s] ELSE l) + 1
                              /\ At(s, l) \in 1 .. Len(list[s])
           /\ At(s, l) = 0 <=> (IF l = 0 THEN freed[s] ELSE l) >= Len(list[s])
<1>1. Len(list[s]) \in Nat /\ freed[s] \in Nat
  BY ListOf
<1> QED
  BY <1>1 DEF At

\* Locations are numbers or NULL.
LEMMA LocationOf ==
    ASSUME BroadcastAssumption, Types, NEW s \in Strm, NEW i \in Ports(s)
    PROVE  /\ listeners[s][i] \in Nat \cup {NULL}
           /\ listeners[s][i] # NULL => listeners[s][i] \in Nat
  BY DEF Types, Location

\* Moving one listener leaves the others where they are.
LEMMA MoveOf ==
    ASSUME Types, NEW s \in Strm, NEW i \in Ports(s), NEW n \in Nat \cup {NULL},
           MoveTo(s, i, n), max_ports' = max_ports
    PROVE  /\ listeners' = [r \in Strm |-> listeners'[r]]
           /\ \A r \in Strm : Ports(r)' = Ports(r) /\ listeners'[r] \in Location(r)'
           /\ listeners'[s][i] = n
           /\ \A r \in Strm : \A j \in Ports(r) :
                 r # s \/ j # i => listeners'[r][j] = listeners[r][j]
<1>1. /\ DOMAIN listeners = Strm /\ \A r \in Strm : listeners[r] \in [Ports(r) -> Nat \cup {NULL}]
  BY DEF Types, Location
<1>2. \A r \in Strm : Ports(r)' = Ports(r)
  BY DEF Ports
<1> HIDE DEF Ports
<1>3. listeners' = [r \in Strm |-> IF r = s THEN [listeners[s] EXCEPT ![i] = n] ELSE listeners[r]]
  BY <1>1 DEF MoveTo
<1>4. \A r \in Strm : listeners'[r] = IF r = s THEN [listeners[s] EXCEPT ![i] = n] ELSE listeners[r]
  BY <1>3
<1>5. listeners' = [r \in Strm |-> listeners'[r]]
  BY <1>3
<1>6. [listeners[s] EXCEPT ![i] = n] \in [Ports(s) -> Nat \cup {NULL}]
  BY <1>1
<1>7. \A r \in Strm : listeners'[r] \in [Ports(r) -> Nat \cup {NULL}]
  BY <1>1, <1>4, <1>6
<1>8. listeners'[s][i] = n /\ \A j \in Ports(s) : j # i => listeners'[s][j] = listeners[s][j]
  BY <1>1, <1>4
<1> QED
  BY <1>2, <1>4, <1>5, <1>7, <1>8 DEF Location
-----------------------------------------------------------------------------
(***************************************************************************)
(* What a reader holds, and that it keeps it                               *)
(***************************************************************************)
\* The listeners a reader in a call reads through.
Holds(t, s, i) ==
    InUse(t) /\ \/ t # Populate /\ s = "out" /\ i = t
                \/ s = cur[t] /\ i = PortOf(t)

\* What a location holds stays what it is.
AtKept(s, l) ==
    At(s, l) # 0 => At(s, l)' = At(s, l) /\ list'[s][At(s, l)] = list[s][At(s, l)]
FrameKept(t) ==
    /\ rpc'[t] = rpc[t] /\ op'[t] = op[t] /\ cur'[t] = cur[t] /\ asking'[t] = asking[t]
    /\ node'[t] = node[t] /\ (t = Populate => ret' = ret)

\* The ports a reader reads at exist, and somebody listens there.
LEMMA HeldOf ==
    ASSUME BroadcastAssumption, Types, Gift, NEW t \in Reader, Reads(t), InUse(t)
    PROVE  /\ cur[t] \in Strm /\ PortOf(t) \in Ports(cur[t]) /\ Loc(t) \in Nat
           /\ t # Populate => /\ t \in Port /\ t \in Ports("out") /\ listeners["out"][t] \in Nat
                              /\ rpc[t] \in Waiting \cup Looking \cup Asking
           /\ t = Populate => /\ cur[t] = "in" /\ PortOf(t) = KeyId /\ proxy = "live"
                              /\ max_ports > 1
                              /\ rpc[t] \in {"put", "sweep", "cleanup"} \cup Waiting
           /\ cur[t] = "in" /\ t # Populate => max_ports = 1 /\ t = 0
           /\ cur[t] # "in" => PortOf(t) = t
<1>1. cur[t] \in Strm /\ max_ports \in Nat /\ max_ports > 0
  BY Constants DEF Types
<1>2. CASE t = Populate
  <2>1. /\ cur[t] = "in" /\ ~asking[t] /\ op[t] \in {"get", "depleted"} /\ proxy = "live"
        /\ rpc[t] \in {"put", "sweep", "cleanup"} \cup Waiting
    BY <1>2 DEF Reads, InUse
  <2>2. PortOf(t) = KeyId
    BY <2>1 DEF PortOf
  <2>3. KeyId \in Ports("in") /\ listeners["in"][KeyId] # NULL
    BY <1>2, <2>1, Constants DEF Gift, Waiting
  <2>4. listeners["in"][KeyId] \in Nat
    BY <2>3, LocationOf DEF Strm
  <2>5. max_ports > 1
    BY <2>1 DEF Gift
  <2> QED
    BY <1>1, <1>2, <2>1, <2>2, <2>3, <2>4, <2>5 DEF Loc
<1>3. CASE t # Populate
  <2>1. /\ t \in Port /\ t \in Ports("out") /\ listeners["out"][t] # NULL
        /\ rpc[t] \in Waiting \cup Looking \cup Asking
    BY <1>3, Constants DEF Reads, InUse
  <2>2. listeners["out"][t] \in Nat
    BY <2>1, LocationOf DEF Strm
  <2>3. CASE cur[t] = "out"
    <3>1. PortOf(t) = t
      BY <2>3 DEF PortOf
    <3> QED
      BY <1>1, <1>3, <2>1, <2>2, <2>3, <3>1 DEF Loc
  <2>4. CASE cur[t] = "proxy"
    <3>1. proxy = "live" /\ PortOf(t) = t
      BY <1>3, <2>4 DEF Reads, PortOf
    <3>2. t \in Ports("proxy") /\ listeners["proxy"][t] # NULL
      BY <2>1, <3>1, Constants DEF Gift
    <3>3. listeners["proxy"][t] \in Nat
      BY <3>2, LocationOf DEF Strm
    <3> QED
      BY <1>1, <1>3, <2>1, <2>2, <2>4, <3>1, <3>2, <3>3 DEF Loc
  <2>5. CASE cur[t] = "in"
    <3>1. ~(max_ports > 1)
      BY <1>3, <2>5 DEF Reads
    <3>2. max_ports = 1
      BY <1>1, <3>1
    <3>3. t = 0
      BY <2>1, <3>2, Constants
    <3>4. PortOf(t) \in Ports("in")
      BY <2>5, <3>3, Constants DEF PortOf, PeekId
    <3>5. rpc[Populate] # "ended"
      <4>1. proxy = "none"
        BY <3>1 DEF Gift
      <4> QED
        BY <4>1 DEF Gift
    <3>6. listeners["in"][PortOf(t)] # NULL
      BY <3>4, <3>5 DEF Gift
    <3>7. listeners["in"][PortOf(t)] \in Nat
      BY <3>4, <3>6, LocationOf DEF Strm
    <3> QED
      BY <1>1, <1>3, <2>1, <2>2, <2>5, <3>2, <3>3, <3>4, <3>7 DEF Loc
  <2> QED
    BY <1>1, <2>3, <2>4, <2>5 DEF Strm
<1> QED
  BY <1>2, <1>3

\* Two readers never read through one listener.
LEMMA HeldApart ==
    ASSUME BroadcastAssumption, Types, Gift, NEW t \in Reader, Reads(t), NEW u \in Reader, Reads(u),
           t # u, NEW s, NEW i, Holds(t, s, i), Holds(u, s, i)
    PROVE  FALSE
<1>1. InUse(t) /\ InUse(u)
  BY DEF Holds
<1>2. max_ports = 1 => t # Populate /\ u # Populate
  BY <1>1, HeldOf
<1>3. s # "in"
  BY <1>1, <1>2, HeldOf DEF Holds
<1>4. i = t /\ i = u
  BY <1>1, <1>3, HeldOf DEF Holds
<1> QED
  BY <1>4

\* A reader that does not step keeps what it has, while the cells it reads do.
LEMMA ReadsKept ==
    ASSUME BroadcastAssumption, Types, Gift, NEW t \in Reader, Reads(t), FrameKept(t),
           max_ports' = max_ports,
           InUse(t) /\ (t = Populate \/ cur[t] = "proxy") => proxy' = proxy,
           \A s \in Strm : \A i \in Ports(s) : Holds(t, s, i) =>
               listeners'[s][i] = listeners[s][i] /\ AtKept(s, listeners[s][i])
    PROVE  Reads(t)'
<1>1. CASE ~InUse(t)
  <2>1. cur[t] = "out" \/ t = Populate
    BY <1>1 DEF Reads, InUse, Waiting, Looking, Asking
  <2> QED
    BY <1>1, <2>1 DEF Reads, InUse, FrameKept, Waiting, Looking, Asking
<1>2. CASE InUse(t)
  <2> DEFINE o == listeners["out"][t]
             c == Loc(t)
  <2>1. /\ cur[t] \in Strm /\ PortOf(t) \in Ports(cur[t])
        /\ t # Populate => t \in Port /\ t \in Ports("out") /\ "out" \in Strm
    BY <1>2, HeldOf DEF Strm
  <2>2. PortOf(t)' = PortOf(t)
    BY DEF PortOf, FrameKept, PeekId
  <2>3. t # Populate => listeners'["out"][t] = o /\ AtKept("out", o)
    BY <1>2, <2>1 DEF Holds
  <2>4. Loc(t)' = c /\ AtKept(cur[t], c)
    <3>1. Holds(t, cur[t], PortOf(t))
      BY <1>2 DEF Holds
    <3>2. /\ listeners'[cur[t]][PortOf(t)] = listeners[cur[t]][PortOf(t)]
          /\ AtKept(cur[t], listeners[cur[t]][PortOf(t)])
      BY <2>1, <3>1
    <3> QED
      BY <2>2, <3>2 DEF Loc, FrameKept
  <2>5. rpc[t] = "have" => Cell(t)' = Cell(t)
    <3>1. Cell(t)' = At(cur[t], c)'
      BY <2>4 DEF Cell, FrameKept
    <3>2. rpc[t] = "have" => At(cur[t], c) # 0
      BY DEF Reads, Cell
    <3> QED
      BY <2>4, <3>1, <3>2 DEF AtKept, Cell
  <2>6. t # Populate /\ InGiven(t) => InGiven(t)' /\ At("out", o)' = At("out", o)
    BY <2>3 DEF InGiven, AtKept
  <2>7. t # Populate /\ cur[t] # "out" => InGiven(t)
    BY DEF Reads
  <2>9. CASE t = Populate
    BY <1>2, <2>5, <2>9 DEF Reads, FrameKept, InUse, Waiting, Looking, Asking
  <2>10. CASE t # Populate
    <3>1. rpc[t] \in Looking => node[t] = At("out", o) /\ cur[t] # "out"
      BY <2>10 DEF Reads
    <3>2. rpc[t] \in Looking => node'[t] = At("out", listeners["out"][t])'
      BY <2>3, <2>6, <2>7, <2>10, <3>1 DEF FrameKept
    <3>3. cur[t] = "proxy" => proxy' = "live"
      BY <1>2, <2>10 DEF Reads
    <3>4. Ports("out")' = Ports("out")
      BY DEF Ports
    <3> QED
      BY <1>2, <2>3, <2>5, <2>6, <2>7, <2>10, <3>2, <3>3, <3>4 DEF Reads, FrameKept
  <2> QED
    BY <2>9, <2>10
<1> QED
  BY <1>1, <1>2
\* A reader that does not step, when no node is linked or freed.
LEMMA KeptQuiet ==
    ASSUME BroadcastAssumption, Safe, NEW t \in Reader, FrameKept(t),
           UNCHANGED <<max_ports, list, freed>>,
           InUse(t) /\ (t = Populate \/ cur[t] = "proxy") => proxy' = proxy,
           \A s \in Strm : \A i \in Ports(s) : Holds(t, s, i) => listeners'[s][i] = listeners[s][i]
    PROVE  Reads(t)'
<1>1. Types /\ Gift /\ Reads(t)
  BY DEF Safe
<1>2. ASSUME NEW s \in Strm, NEW i \in Ports(s), Holds(t, s, i)
      PROVE  listeners'[s][i] = listeners[s][i] /\ AtKept(s, listeners[s][i])
  BY <1>2 DEF AtKept, At
<1> QED
  BY <1>1, <1>2, ReadsKept

\* A reader that does not step, when a node is linked.
LEMMA KeptLink ==
    ASSUME BroadcastAssumption, Safe, NEW t \in Reader, FrameKept(t),
           NEW r \in Strm, NEW x \in Element, list' = [list EXCEPT ![r] = Append(@, x)],
           UNCHANGED <<max_ports, freed>>,
           InUse(t) /\ (t = Populate \/ cur[t] = "proxy") => proxy' = proxy,
           \A s \in Strm : \A i \in Ports(s) : Holds(t, s, i) => listeners'[s][i] = listeners[s][i]
    PROVE  Reads(t)'
<1>1. Types /\ Gift /\ Reads(t)
  BY DEF Safe
<1>2. ASSUME NEW s \in Strm, NEW i \in Ports(s), Holds(t, s, i)
      PROVE  listeners'[s][i] = listeners[s][i] /\ AtKept(s, listeners[s][i])
  <2>1. listeners'[s][i] = listeners[s][i]
    BY <1>2
  <2>2. Len(list[s]) \in Nat /\ freed[s] \in Nat /\ listeners[s][i] \in Nat
    <3>1. Len(list[s]) \in Nat /\ freed[s] \in Nat
      BY <1>1, ListOf
    <3>2. listeners[s][i] \in Nat
      <4>1. InUse(t)
        BY <1>2 DEF Holds
      <4>2. Loc(t) \in Nat /\ (t # Populate => listeners["out"][t] \in Nat)
        BY <1>1, <4>1, HeldOf
      <4> QED
        BY <1>2, <4>2 DEF Holds, Loc
    <3> QED
      BY <3>1, <3>2
  <2>3. CASE s # r
    <3>1. list'[s] = list[s]
      BY <1>1, <2>3 DEF Types
    <3> QED
      BY <2>1, <3>1 DEF AtKept, At
  <2>4. CASE s = r
    <3>1. list'[s] = Append(list[s], x)
      BY <1>1, <2>4 DEF Types
    <3>2. Len(list'[s]) = Len(list[s]) + 1 /\ \A k \in 1 .. Len(list[s]) : list'[s][k] = list[s][k]
      BY <1>1, <3>1, ListOf, AppendOf
    <3>3. At(s, listeners[s][i]) # 0 => At(s, listeners[s][i])' = At(s, listeners[s][i])
      BY <2>1, <2>2, <3>2 DEF At
    <3>4. At(s, listeners[s][i]) # 0 => At(s, listeners[s][i]) \in 1 .. Len(list[s])
      BY <1>1, <2>2, AtOf
    <3> QED
      BY <2>1, <3>2, <3>3, <3>4 DEF AtKept
  <2> QED
    BY <2>3, <2>4
<1> QED
  BY <1>1, <1>2, ReadsKept

\* A reader that does not step, when a first node is freed and nobody is at the cell
\* first.
LEMMA KeptFree ==
    ASSUME BroadcastAssumption, Safe, NEW t \in Reader, FrameKept(t),
           NEW r \in Strm, freed' = [freed EXCEPT ![r] = @ + 1],
           \A i \in Ports(r) : listeners[r][i] # 0,
           UNCHANGED <<max_ports, list, listeners>>,
           InUse(t) /\ (t = Populate \/ cur[t] = "proxy") => proxy' = proxy
    PROVE  Reads(t)'
<1>1. Types /\ Gift /\ Reads(t)
  BY DEF Safe
<1>2. ASSUME NEW s \in Strm, NEW i \in Ports(s), Holds(t, s, i)
      PROVE  listeners'[s][i] = listeners[s][i] /\ AtKept(s, listeners[s][i])
  <2>1. listeners'[s][i] = listeners[s][i]
    OBVIOUS
  <2>2. s # r => freed'[s] = freed[s]
    BY <1>1 DEF Types
  <2>3. s = r => listeners[s][i] # 0
    OBVIOUS
  <2>4. At(s, listeners[s][i])' = At(s, listeners[s][i])
    BY <2>1, <2>2, <2>3 DEF At
  <2> QED
    BY <2>1, <2>4 DEF AtKept
<1> QED
  BY <1>1, <1>2, ReadsKept

\* When a reader steps it moves its own listeners only: the others keep what they have.
LEMMA OthersKept ==
    ASSUME BroadcastAssumption, Safe, NEW u \in Reader,
           \A t \in Reader : t # u => FrameKept(t),
           UNCHANGED <<max_ports, list, freed, proxy>>,
           \A s \in Strm : \A i \in Ports(s) :
               listeners'[s][i] # listeners[s][i] => Holds(u, s, i)
    PROVE  \A t \in Reader : t # u => Reads(t)'
<1> SUFFICES ASSUME NEW t \in Reader, t # u PROVE Reads(t)'
  OBVIOUS
<1>1. ASSUME NEW s \in Strm, NEW i \in Ports(s), Holds(t, s, i)
      PROVE  listeners'[s][i] = listeners[s][i]
  BY <1>1, HeldApart DEF Safe
<1>2. FrameKept(t)
  OBVIOUS
<1> QED
  BY <1>1, <1>2, KeptQuiet
-----------------------------------------------------------------------------
(***************************************************************************)
(* The parts of the invariant that are not about a reader                  *)
(***************************************************************************)
\* No reader or writer does what the parts are about.
PopulateKept ==
    \/ rpc'[Populate] = rpc[Populate]
    \/ /\ rpc[Populate] \in {"sweep", "put", "cleanup"} \cup Waiting
       /\ rpc'[Populate] \in {"sweep", "put", "cleanup"} \cup Waiting
       /\ rpc[Populate] = "sweep" => wpc["proxy"] = "idle"
IdleKept ==
    wpc["out"] = "destroy" => \A t \in Port : rpc'[t] = rpc[t]

\* A step of a reader that moves no listener.
LEMMA PartsKept ==
    ASSUME BroadcastAssumption, Safe, Running, PopulateKept, IdleKept,
           UNCHANGED <<max_ports, list, freed, listeners, proxy, writing>>
    PROVE  Placed' /\ Sweeps' /\ Gift'
<1>1. Types /\ Placed /\ Sweeps /\ Gift
  BY DEF Safe
<1>2. \A s \in Strm : Ports(s)' = Ports(s)
  BY DEF Ports
<1>3. over # "gone"
  BY Constants DEF Running
<1>4. Placed'
  BY <1>1, <1>2 DEF Placed
<1>5. Sweeps'
  <2> SUFFICES ASSUME NEW s \in Strm PROVE Swept(s)'
    BY DEF Sweeps
  <2>1. Swept(s)
    BY <1>1 DEF Sweeps
  <2>2. HasProxy("out", freed["out"] + 1)' <=> HasProxy("out", freed["out"] + 1)
    BY DEF HasProxy
  <2>3. wpc' = wpc /\ iter' = iter
    BY DEF writing
  <2>4. wpc[s] = "destroy" => \A t \in Port : rpc'[t] = "idle"
    BY <2>1 DEF Swept, IdleKept
  <2>5. "out" \in Strm
    BY DEF Strm
  <2> QED
    BY <1>2, <1>3, <2>1, <2>2, <2>3, <2>4, <2>5 DEF Swept
<1>6. Gift'
  <2>1. Given' <=> Given
    BY DEF Given
  <2>2. "in" \in Strm /\ "proxy" \in Strm
    BY DEF Strm
  <2>3. wpc' = wpc
    BY DEF writing
  <2>4. proxy = "none" => rpc'[Populate] = "none"
    BY <1>1 DEF Gift, PopulateKept, Waiting
  <2>5. proxy # "none" => rpc'[Populate] # "none"
    BY <1>1 DEF Gift, PopulateKept, Waiting
  <2>6. rpc[Populate] = "ended" => rpc'[Populate] = "ended"
    BY <1>1 DEF PopulateKept, Waiting
  <2>7. wpc["proxy"] # "idle" => rpc'[Populate] = "sweep"
    BY <1>1 DEF Gift, PopulateKept, Waiting
  <2> QED
    BY <1>1, <1>2, <2>1, <2>2, <2>3, <2>4, <2>5, <2>6, <2>7 DEF Gift
<1> QED
  BY <1>4, <1>5, <1>6
\* A step that moves one listener to the node its location holds.
LEMMA PartsMoved ==
    ASSUME BroadcastAssumption, Safe, Running, PopulateKept, IdleKept,
           NEW s \in Strm, NEW i \in Ports(s), listeners[s][i] # NULL,
           NEW n, n = At(s, listeners[s][i]), n # 0, MoveTo(s, i, n),
           UNCHANGED <<max_ports, list, freed, proxy, writing>>
    PROVE  /\ Placed' /\ Sweeps' /\ Gift'
           /\ listeners' = [r \in Strm |-> listeners'[r]]
           /\ \A r \in Strm : listeners'[r] \in Location(r)'
           /\ \A r \in Strm : \A j \in Ports(r) :
                 r # s \/ j # i => listeners'[r][j] = listeners[r][j]
<1>1. Types /\ Placed /\ Sweeps /\ Gift
  BY DEF Safe
<1>2. \A r \in Strm : Ports(r)' = Ports(r)
  BY DEF Ports
<1>3. over # "gone" /\ NULL \notin Nat
  BY Constants DEF Running
<1>4. /\ listeners[s][i] \in Nat /\ freed[s] \in Nat /\ Len(list[s]) \in Nat
      /\ n \in Nat /\ n # NULL
      /\ n = (IF listeners[s][i] = 0 THEN freed[s] ELSE listeners[s][i]) + 1 /\ n <= Len(list[s])
  <2>1. listeners[s][i] \in Nat
    BY <1>1, LocationOf
  <2>2. freed[s] \in Nat /\ Len(list[s]) \in Nat
    BY <1>1, ListOf
  <2>3. /\ At(s, listeners[s][i]) \in Nat
        /\ At(s, listeners[s][i]) = (IF listeners[s][i] = 0 THEN freed[s] ELSE listeners[s][i]) + 1
        /\ At(s, listeners[s][i]) \in 1 .. Len(list[s])
    BY <1>1, <2>1, AtOf
  <2>4. n \in Nat /\ n <= Len(list[s])
    BY <2>2, <2>3
  <2>5. n # NULL
    BY <1>3, <2>4
  <2> QED
    BY <2>1, <2>2, <2>3, <2>4, <2>5
<1>5. /\ listeners' = [r \in Strm |-> listeners'[r]]
      /\ \A r \in Strm : listeners'[r] \in Location(r)'
      /\ listeners'[s][i] = n
      /\ \A r \in Strm : \A j \in Ports(r) :
            r # s \/ j # i => listeners'[r][j] = listeners[r][j]
  <2>1. n \in Nat \cup {NULL}
    BY <1>4
  <2> QED
    BY <1>1, <2>1, MoveOf
<1>6. n > freed[s] /\ (n # 0)
  <2>1. listeners[s][i] # 0 => listeners[s][i] > freed[s]
    BY <1>1 DEF Placed
  <2> QED
    BY <1>4, <2>1
<1>7. Placed'
  <2> SUFFICES ASSUME NEW r \in Strm, NEW j \in Ports(r), listeners'[r][j] # NULL
               PROVE  /\ listeners'[r][j] <= Len(list[r])
                      /\ listeners'[r][j] = 0 \/ listeners'[r][j] > freed[r]
                      /\ listeners'[r][j] = 0 /\ r # "out" => freed[r] = 0
    BY <1>2 DEF Placed
  <2>1. CASE r = s /\ j = i
    BY <1>4, <1>5, <1>6, <2>1
  <2>2. CASE r # s \/ j # i
    BY <1>1, <1>5, <2>2 DEF Placed
  <2> QED
    BY <2>1, <2>2
<1>8. Sweeps'
  <2> SUFFICES ASSUME NEW r \in Strm PROVE Swept(r)'
    BY DEF Sweeps
  <2>1. Swept(r)
    BY <1>1 DEF Sweeps
  <2>2. HasProxy("out", freed["out"] + 1)' <=> HasProxy("out", freed["out"] + 1)
    BY DEF HasProxy
  <2>3. wpc' = wpc /\ iter' = iter /\ list' = list /\ freed' = freed
    BY DEF writing
  <2>4. wpc[r] = "destroy" => \A t \in Port : rpc'[t] = "idle"
    BY <2>1 DEF Swept, IdleKept
  <2>5. wpc[r] \in {"loop", "join"} => \A j \in Ports(r) : listeners'[r][j] # 0
    BY <1>5, <1>6, <2>1 DEF Swept
  <2>6. wpc[r] = "join" =>
          \A j \in Ports("out") : listeners'["out"][j] # NULL => listeners'["out"][j] > freed["out"] + 1
    <3> SUFFICES ASSUME wpc[r] = "join", NEW j \in Ports("out"), listeners'["out"][j] # NULL
                 PROVE  listeners'["out"][j] > freed["out"] + 1
      OBVIOUS
    <3>0. "out" \in Strm /\ r = "out"
      BY <2>1 DEF Strm, Swept
    <3>1. CASE "out" = s /\ j = i
      <4>1. listeners[s][i] > freed[s] + 1
        BY <2>1, <3>0, <3>1 DEF Swept
      <4> QED
        BY <1>4, <1>5, <3>1, <4>1
    <3>2. CASE ~("out" = s /\ j = i)
      <4>1. listeners'["out"][j] = listeners["out"][j]
        BY <1>5, <3>0, <3>2
      <4> QED
        BY <2>1, <4>1 DEF Swept
    <3> QED
      BY <3>1, <3>2
  <2> QED
    BY <1>2, <1>3, <2>1, <2>2, <2>3, <2>4, <2>5, <2>6 DEF Swept
<1>9. Gift'
  <2>1. Given' <=> Given
    BY DEF Given
  <2>2. "in" \in Strm /\ "proxy" \in Strm
    BY DEF Strm
  <2>3. wpc' = wpc
    BY DEF writing
  <2>4. proxy = "none" => rpc'[Populate] = "none"
    BY <1>1 DEF Gift, PopulateKept, Waiting
  <2>5. proxy # "none" => rpc'[Populate] # "none"
    BY <1>1 DEF Gift, PopulateKept, Waiting
  <2>6. rpc[Populate] = "ended" => rpc'[Populate] = "ended"
    BY <1>1 DEF PopulateKept, Waiting
  <2>7. wpc["proxy"] # "idle" => rpc'[Populate] = "sweep"
    BY <1>1 DEF Gift, PopulateKept, Waiting
  <2>8. proxy # "none" => \A j \in Ports("proxy") : listeners'["proxy"][j] # NULL
    BY <1>1, <1>4, <1>5, <2>2 DEF Gift
  <2>9. \A j \in Ports("in") : listeners'["in"][j] = NULL => rpc'[Populate] = "ended"
    <3> SUFFICES ASSUME NEW j \in Ports("in"), listeners'["in"][j] = NULL
                 PROVE  rpc'[Populate] = "ended"
      OBVIOUS
    <3>1. listeners["in"][j] = NULL
      BY <1>4, <1>5, <2>2
    <3> QED
      BY <1>1, <2>6, <3>1 DEF Gift
  <2> QED
    BY <1>1, <1>2, <2>1, <2>2, <2>3, <2>4, <2>5, <2>6, <2>7, <2>8, <2>9 DEF Gift
<1> QED
  BY <1>5, <1>7, <1>8, <1>9
-----------------------------------------------------------------------------
(***************************************************************************)
(* The steps of a reader                                                   *)
(***************************************************************************)
\* What the guard of a reader's step leaves alone.
LEMMA AtStep ==
    ASSUME NEW t \in Reader, NEW pc, At_(t, pc)
    PROVE  /\ Running /\ rpc[t] = pc
           /\ UNCHANGED <<max_ports, list, freed, off, proxy, writing, cancelling>>
  BY DEF At_, nodes

\* Waiting for a node: the cell, closed or not, the cell again.
LEMMA WaitSafe ==
    ASSUME BroadcastAssumption, Safe, NEW t \in Reader, Wait(t)
    PROVE  Safe'
<1>1. Types /\ Gift /\ Reads(t)
  BY DEF Safe
<1>2. /\ Running /\ rpc[t] \in {"load", "off", "reload"} /\ Keep
      /\ UNCHANGED <<max_ports, list, freed, off, proxy, writing, cancelling>>
  BY AtStep DEF Wait, Load, CheckOff, Reload
<1>21. rpc \in [Reader -> Steps] /\ node \in [Reader -> Nat]
  BY <1>1 DEF Types
<1>22. /\ rpc' = [rpc EXCEPT ![t] = rpc'[t]]
       /\ rpc'[t] \in Waiting \/ (t = Populate /\ rpc'[t] = "cleanup")
  <2>1. CASE Load(t)
    BY <1>21, <2>1 DEF Load, To, Waiting
  <2>2. CASE CheckOff(t)
    BY <1>21, <2>2 DEF CheckOff, To, Waiting, Cancels
  <2>3. CASE Reload(t)
    BY <1>21, <2>3 DEF Reload, To, Waiting
  <2> QED
    BY <2>1, <2>2, <2>3 DEF Wait
<1>23. /\ node' = [node EXCEPT ![t] = node'[t]]
       /\ rpc'[t] = "have" => node'[t] = Cell(t) /\ Cell(t) # 0
       /\ node'[t] \in {node[t], Cell(t)}
  <2>1. CASE Load(t)
    BY <1>21, <2>1 DEF Load, To
  <2>2. CASE CheckOff(t)
    BY <1>21, <2>2 DEF CheckOff, To
  <2>3. CASE Reload(t)
    BY <1>21, <2>3 DEF Reload, To, Reloaded
  <2> QED
    BY <2>1, <2>2, <2>3 DEF Wait
<1>3. /\ cur[t] \in Strm /\ Loc(t) \in Nat /\ Cell(t) \in Nat
  <2>1. InUse(t)
    BY <1>2 DEF InUse
  <2>2. cur[t] \in Strm /\ Loc(t) \in Nat
    BY <1>1, <2>1, HeldOf
  <2> QED
    BY <1>1, <2>2, AtOf DEF Cell
<1>4. Types'
  <2>1. rpc' \in [Reader -> Steps]
    <3>1. rpc'[t] \in Steps
      BY <1>22 DEF Steps
    <3> QED
      BY <1>21, <1>22, <3>1
  <2>2. node' \in [Reader -> Nat]
    <3>1. node'[t] \in Nat
      BY <1>3, <1>21, <1>23
    <3> QED
      BY <1>21, <1>23, <3>1
  <2>3. \A s \in Strm : Location(s)' = Location(s)
    BY <1>2 DEF Location, Ports
  <2> QED
    BY SMTT(30), <1>1, <1>2, <2>1, <2>2, <2>3 DEF Types, Keep, writing
<1>5. Placed' /\ Sweeps' /\ Gift'
  <2>1. PopulateKept
    BY <1>2, <1>21, <1>22, Constants DEF PopulateKept, Waiting
  <2>2. IdleKept
    <3>1. wpc["out"] = "destroy" => t \notin Port
      BY <1>2 DEF Safe, Sweeps, Swept, Strm
    <3> QED
      BY <1>21, <1>22, <3>1, Constants DEF IdleKept
  <2> QED
    BY <1>2, <2>1, <2>2, PartsKept DEF Keep
<1>6. \A u \in Reader : u # t => Reads(u)'
  <2>1. \A u \in Reader : u # t => FrameKept(u)
    BY <1>2, <1>21, <1>22, <1>23 DEF FrameKept, Keep
  <2> QED
    BY <1>2, <2>1, OthersKept DEF Keep
<1>7. Reads(t)'
  <2>1. rpc[t] \in Waiting
    BY <1>2 DEF Waiting
  <2>2. Cell(t)' = Cell(t)
    BY <1>2 DEF Cell, At, Loc, PortOf, PeekId, Keep
  <2>3. InGiven(t)' <=> InGiven(t)
    BY <1>2 DEF InGiven, At, Keep
  <2>4. Ports("out")' = Ports("out")
    BY <1>2 DEF Ports
  <2>5. UNCHANGED <<listeners, op, cur, asking>>
    BY <1>2 DEF Keep
  <2>6. rpc'[t] = "have" => node'[t] = Cell(t)' /\ node'[t] # 0
    BY <1>23, <2>2
  <2>7. CASE t = Populate
    <3>1. rpc'[t] \in {"cleanup"} \cup Waiting
      BY <1>22
    <3>2. cur[t] = "in" /\ ~asking[t] /\ op[t] \in {"get", "depleted"} /\ proxy = "live"
      BY <1>1, <2>1, <2>7 DEF Reads
    <3>3. rpc'[t] # "put"
      BY <3>1 DEF Waiting
    <3> QED
      BY <1>2, <2>5, <2>6, <2>7, <3>1, <3>2, <3>3 DEF Reads
  <2>8. CASE t # Populate
    <3>1. rpc'[t] \in Waiting /\ rpc'[t] # "idle" /\ rpc'[t] \notin Looking \cup Asking
      BY <1>22, <2>8 DEF Waiting, Looking, Asking
    <3>2. rpc[t] # "idle"
      BY <1>2
    <3> QED
      BY <1>1, <1>2, <2>1, <2>3, <2>4, <2>5, <2>6, <2>8, <3>1, <3>2 DEF Reads
  <2> QED
    BY <2>7, <2>8
<1> QED
  BY <1>4, <1>5, <1>6, <1>7 DEF Safe
\* A step that changes the frame of t only.
FrameStep(t) ==
    /\ rpc' = [rpc EXCEPT ![t] = rpc'[t]] /\ rpc'[t] \in Steps
    /\ op' = [op EXCEPT ![t] = op'[t]]
    /\ op'[t] \in {"get", "peek", "skip", "depleted", "ready", "empty", NULL}
    /\ cur' = [cur EXCEPT ![t] = cur'[t]] /\ cur'[t] \in Strm
    /\ asking' = [asking EXCEPT ![t] = asking'[t]] /\ asking'[t] \in BOOLEAN
    /\ node' = [node EXCEPT ![t] = node'[t]] /\ node'[t] \in Nat
    /\ closed' = [closed EXCEPT ![t] = closed'[t]] /\ closed'[t] \in BOOLEAN
    /\ t = Populate \/ ret' = ret

\* The step is one of a reader's: nothing is written, deleted or freed.
ReaderStep ==
    /\ Running
    /\ UNCHANGED <<max_ports, list, freed, proxy, writing, cancelling>>
    /\ off' \in [Strm -> BOOLEAN]
    /\ ret' \in Element \cup {NULL} /\ took' \in [Port -> Nat] /\ promised' \in [Port -> BOOLEAN]

\* The frames stay in their types, and the others' stay what they are.
LEMMA FramesOf ==
    ASSUME Types, NEW t \in Reader, FrameStep(t)
    PROVE  /\ rpc' \in [Reader -> Steps]
           /\ op' \in [Reader -> {"get", "peek", "skip", "depleted", "ready", "empty", NULL}]
           /\ cur' \in [Reader -> Strm] /\ asking' \in [Reader -> BOOLEAN]
           /\ node' \in [Reader -> Nat] /\ closed' \in [Reader -> BOOLEAN]
           /\ \A u \in Reader : u # t => FrameKept(u) /\ closed'[u] = closed[u]
<1>1. rpc' \in [Reader -> Steps] /\ \A u \in Reader : u # t => rpc'[u] = rpc[u]
  BY DEF Types, FrameStep
<1>2. /\ op' \in [Reader -> {"get", "peek", "skip", "depleted", "ready", "empty", NULL}]
      /\ \A u \in Reader : u # t => op'[u] = op[u]
  BY DEF Types, FrameStep
<1>3. cur' \in [Reader -> Strm] /\ \A u \in Reader : u # t => cur'[u] = cur[u]
  BY DEF Types, FrameStep
<1>4. asking' \in [Reader -> BOOLEAN] /\ \A u \in Reader : u # t => asking'[u] = asking[u]
  BY DEF Types, FrameStep
<1>5. node' \in [Reader -> Nat] /\ \A u \in Reader : u # t => node'[u] = node[u]
  BY DEF Types, FrameStep
<1>6. closed' \in [Reader -> BOOLEAN] /\ \A u \in Reader : u # t => closed'[u] = closed[u]
  BY DEF Types, FrameStep
<1> QED
  BY <1>1, <1>2, <1>3, <1>4, <1>5, <1>6 DEF FrameKept, FrameStep

\* The types hold after a reader's step.
LEMMA ReaderTypes ==
    ASSUME Types, NEW t \in Reader, FrameStep(t), ReaderStep,
           listeners' = [s \in Strm |-> listeners'[s]],
           \A s \in Strm : listeners'[s] \in Location(s)'
    PROVE  Types'
<1>1. /\ max_ports' \in OutPorts
      /\ list' \in [Strm -> Seq(Element)] /\ freed' \in [Strm -> Nat] /\ off' \in [Strm -> BOOLEAN]
      /\ proxy' \in {"none", "live", "deleted"} /\ cancelling' \in BOOLEAN
      /\ wpc' \in [Strm -> {"idle", "first", "loop", "join", "destroy"}] /\ iter' \in [Strm -> Nat]
  BY DEF Types, ReaderStep, writing
<1>2. ret' \in Element \cup {NULL} /\ took' \in [Port -> Nat] /\ promised' \in [Port -> BOOLEAN]
  BY DEF ReaderStep
<1> QED
  BY <1>1, <1>2, FramesOf DEF Types

\* A step of a listener leaves the other parts as they are.
LEMMA ListenerKept ==
    ASSUME BroadcastAssumption, Safe, NEW t \in Port, FrameStep(t),
           rpc[t] # "idle" \/ wpc["out"] # "destroy"
    PROVE  PopulateKept /\ IdleKept
<1>1. Types /\ t \in Reader /\ t # Populate /\ Populate \in Reader /\ Port \subseteq Reader
  BY Constants DEF Safe
<1>2. \A u \in Reader : u # t => rpc'[u] = rpc[u]
  BY <1>1, FramesOf DEF FrameKept
<1>3. PopulateKept
  BY <1>1, <1>2 DEF PopulateKept
<1>4. wpc["out"] = "destroy" => rpc[t] = "idle"
  BY DEF Safe, Sweeps, Swept, Strm
<1> QED
  BY <1>3, <1>4 DEF IdleKept

\* A step of a reader that moves no listener.
LEMMA StepSafe ==
    ASSUME BroadcastAssumption, Safe, NEW t \in Reader, FrameStep(t), ReaderStep,
           PopulateKept, IdleKept, listeners' = listeners, Reads(t)'
    PROVE  Safe'
<1>1. Types /\ UNCHANGED <<max_ports, list, freed, proxy, writing>> /\ Running
  BY DEF Safe, ReaderStep
<1>2. \A s \in Strm : Location(s)' = Location(s)
  BY <1>1 DEF Location, Ports
<1>3. Types'
  <2>1. listeners' = [s \in Strm |-> listeners'[s]] /\ \A s \in Strm : listeners'[s] \in Location(s)'
    BY <1>1, <1>2 DEF Types
  <2> QED
    BY <1>1, <2>1, ReaderTypes
<1>4. Placed' /\ Sweeps' /\ Gift'
  BY <1>1, PartsKept
<1>5. \A u \in Reader : u # t => Reads(u)'
  <2>1. \A u \in Reader : u # t => FrameKept(u)
    BY <1>1, FramesOf
  <2> QED
    BY <1>1, <2>1, OthersKept
<1> QED
  BY <1>3, <1>4, <1>5 DEF Safe

\* A step of a reader that moves a listener it holds to the next node.
LEMMA MoveSafe ==
    ASSUME BroadcastAssumption, Safe, NEW t \in Reader, FrameStep(t), ReaderStep,
           PopulateKept, IdleKept, NEW s \in Strm, NEW i \in Ports(s), Holds(t, s, i),
           NEW n, n = At(s, listeners[s][i]), n # 0, MoveTo(s, i, n), Reads(t)'
    PROVE  Safe'
<1>1. Types /\ Gift /\ Reads(t) /\ UNCHANGED <<max_ports, list, freed, proxy, writing>> /\ Running
  BY DEF Safe, ReaderStep
<1>2. listeners[s][i] # NULL
  <2>1. InUse(t)
    BY DEF Holds
  <2>2. Loc(t) \in Nat /\ (t # Populate => listeners["out"][t] \in Nat)
    BY <1>1, <2>1, HeldOf
  <2>3. listeners[s][i] \in Nat
    BY <2>2 DEF Holds, Loc
  <2> QED
    BY <2>3, Constants
<1>3. /\ Placed' /\ Sweeps' /\ Gift'
      /\ listeners' = [r \in Strm |-> listeners'[r]]
      /\ \A r \in Strm : listeners'[r] \in Location(r)'
      /\ \A r \in Strm : \A j \in Ports(r) :
            r # s \/ j # i => listeners'[r][j] = listeners[r][j]
  BY <1>1, <1>2, PartsMoved
<1>4. Types'
  BY <1>1, <1>3, ReaderTypes
<1>5. \A u \in Reader : u # t => Reads(u)'
  <2>1. \A u \in Reader : u # t => FrameKept(u)
    BY <1>1, FramesOf
  <2>2. \A r \in Strm : \A j \in Ports(r) : listeners'[r][j] # listeners[r][j] => Holds(t, r, j)
    BY <1>3
  <2> QED
    BY <1>1, <2>1, <2>2, OthersKept
<1> QED
  BY <1>3, <1>4, <1>5 DEF Safe
-----------------------------------------------------------------------------
\* A listener that returns holds nothing.
LEMMA ReturnOf ==
    ASSUME BroadcastAssumption, Types, NEW t \in Port, Return(t), ret' = ret
    PROVE  FrameStep(t) /\ Reads(t)' /\ promised' \in [Port -> BOOLEAN]
<1>1. t \in Reader /\ t # Populate /\ "idle" \in Steps /\ "out" \in Strm
  BY Constants DEF Steps, Strm
<1>2. /\ rpc'[t] = "idle" /\ op'[t] = NULL /\ cur'[t] = "out" /\ asking'[t] = FALSE /\ node'[t] = 0
      /\ closed'[t] = FALSE
  BY <1>1 DEF Return, To, Types
<1>3. FrameStep(t)
  <2>1. rpc' = [rpc EXCEPT ![t] = rpc'[t]] /\ rpc'[t] \in Steps
    BY <1>1, <1>2 DEF Return, To
  <2>2. /\ op' = [op EXCEPT ![t] = op'[t]]
        /\ op'[t] \in {"get", "peek", "skip", "depleted", "ready", "empty", NULL}
    BY <1>2 DEF Return
  <2>3. cur' = [cur EXCEPT ![t] = cur'[t]] /\ cur'[t] \in Strm
    BY <1>1, <1>2 DEF Return
  <2>4. asking' = [asking EXCEPT ![t] = asking'[t]] /\ asking'[t] \in BOOLEAN
    BY <1>2 DEF Return
  <2>5. node' = [node EXCEPT ![t] = node'[t]] /\ node'[t] \in Nat
    <3>1. node' = [node EXCEPT ![t] = node'[t]]
      BY <1>2, Zenon DEF Return
    <3>2. node'[t] \in Nat
      BY <1>2
    <3> QED
      BY <3>1, <3>2
  <2>6. closed' = [closed EXCEPT ![t] = closed'[t]] /\ closed'[t] \in BOOLEAN
    BY <1>2 DEF Return
  <2> QED
    BY <2>1, <2>2, <2>3, <2>4, <2>5, <2>6 DEF FrameStep
<1>4. Reads(t)'
  BY <1>1, <1>2 DEF Reads, Waiting, Looking, Asking
<1>5. promised' \in [Port -> BOOLEAN]
  BY DEF Return, Types
<1> QED
  BY <1>3, <1>4, <1>5

\* A listener that returns and moves nothing.
LEMMA ReturnSafe ==
    ASSUME BroadcastAssumption, Safe, NEW t \in Port, NEW pc, At_(t, pc), pc # "idle",
           Return(t), listeners' = listeners, UNCHANGED <<ret, took>>
    PROVE  Safe'
<1>1. Types /\ t \in Reader
  BY Constants DEF Safe
<1>2. FrameStep(t) /\ Reads(t)' /\ promised' \in [Port -> BOOLEAN]
  BY <1>1, ReturnOf
<1>3. rpc[t] # "idle" /\ Running
      /\ UNCHANGED <<max_ports, list, freed, off, proxy, writing, cancelling>>
  BY <1>1, AtStep
<1>4. ReaderStep
  BY <1>1, <1>2, <1>3 DEF ReaderStep, Types
<1>5. PopulateKept /\ IdleKept
  BY <1>2, <1>3, ListenerKept
<1> QED
  BY <1>1, <1>2, <1>4, <1>5, StepSafe
-----------------------------------------------------------------------------
(***************************************************************************)
(* The calls of a listener                                                 *)
(***************************************************************************)
\* A call begins.
LEMMA CallSafe ==
    ASSUME BroadcastAssumption, Safe, NEW t \in Port,
           NEW o \in {"get", "peek", "skip", "depleted", "ready", "empty"}, Call(t, o)
    PROVE  Safe'
<1>1. Types /\ Reads(t) /\ t \in Reader /\ t # Populate
  BY Constants DEF Safe
<1>2. /\ rpc[t] = "idle" /\ Running /\ t \in Ports("out") /\ listeners["out"][t] # NULL
      /\ UNCHANGED <<max_ports, list, freed, off, proxy, writing, cancelling>>
      /\ wpc["out"] # "destroy"
  BY <1>1, AtStep DEF Call
<1>3. /\ op' = [op EXCEPT ![t] = o] /\ op'[t] = o
      /\ rpc' = [rpc EXCEPT ![t] = IF o \in {"ready", "empty"} THEN o ELSE "load"]
      /\ rpc'[t] = IF o \in {"ready", "empty"} THEN o ELSE "load"
      /\ UNCHANGED <<listeners, cur, asking, node, closed, ret, took, over>>
      /\ promised' = [promised EXCEPT ![t] = promised'[t]]
  BY <1>1 DEF Call, To, Types
<1>4. FrameStep(t)
  <2>1. rpc' = [rpc EXCEPT ![t] = rpc'[t]] /\ rpc'[t] \in Steps
    BY <1>1, <1>3 DEF Steps, Waiting, Asking
  <2>2. cur' = [cur EXCEPT ![t] = cur'[t]] /\ cur'[t] \in Strm
    BY <1>1, <1>3 DEF Types
  <2>3. asking' = [asking EXCEPT ![t] = asking'[t]] /\ asking'[t] \in BOOLEAN
    BY <1>1, <1>3 DEF Types
  <2>4. node' = [node EXCEPT ![t] = node'[t]] /\ node'[t] \in Nat
    BY <1>1, <1>3 DEF Types
  <2>5. closed' = [closed EXCEPT ![t] = closed'[t]] /\ closed'[t] \in BOOLEAN
    BY <1>1, <1>3 DEF Types
  <2> QED
    BY <1>3, <2>1, <2>2, <2>3, <2>4, <2>5 DEF FrameStep
<1>5. ReaderStep
  <2>1. promised' \in [Port -> BOOLEAN]
    BY <1>1 DEF Call, Types
  <2> QED
    BY <1>1, <1>2, <1>3, <2>1 DEF ReaderStep, Types
<1>6. PopulateKept /\ IdleKept
  BY <1>2, <1>4, ListenerKept
<1>7. Reads(t)'
  <2>1. cur[t] = "out" /\ ~asking[t]
    BY <1>1, <1>2 DEF Reads
  <2>2. cur'[t] = "out" /\ ~asking'[t] /\ listeners'["out"][t] # NULL
    BY <1>2, <1>3, <2>1
  <2>3. Ports("out")' = Ports("out")
    BY <1>2 DEF Ports
  <2>4. CASE o \in {"ready", "empty"}
    BY <1>1, <1>2, <1>3, <2>2, <2>3, <2>4 DEF Reads, Waiting, Looking, Asking
  <2>5. CASE o \notin {"ready", "empty"}
    BY <1>1, <1>2, <1>3, <2>2, <2>3, <2>5 DEF Reads, Waiting, Looking, Asking
  <2> QED
    BY <2>4, <2>5
<1>8. listeners' = listeners
  BY <1>3
<1> QED
  BY <1>1, <1>4, <1>5, <1>6, <1>7, <1>8, StepSafe

\* Nothing can come any more.
LEMMA EndSafe ==
    ASSUME BroadcastAssumption, Safe, NEW t \in Port, End(t)
    PROVE  Safe'
<1>1. Types /\ Reads(t) /\ t \in Reader
  BY Constants DEF Safe
<1>2. CASE op[t] = "depleted"
  <2>1. At_(t, "end") /\ Return(t) /\ listeners' = listeners /\ UNCHANGED <<ret, took>>
    BY <1>2 DEF End, ReturnOnly
  <2> QED
    BY <2>1, ReturnSafe
<1>3. CASE op[t] # "depleted"
  <2>1. /\ Running /\ rpc[t] = "end"
        /\ UNCHANGED <<max_ports, list, freed, off, proxy, writing, cancelling>>
        /\ listeners' = listeners /\ UNCHANGED reading
    BY <1>1, <1>3, AtStep DEF End
  <2>2. UNCHANGED <<rpc, op, cur, asking, node, closed, ret, took, promised>>
    BY <2>1 DEF reading, frame
  <2>3. FrameStep(t)
    BY <1>1, <2>2 DEF FrameStep, Types
  <2>4. ReaderStep
    BY <1>1, <2>1, <2>2 DEF ReaderStep, Types
  <2>5. PopulateKept /\ IdleKept
    BY <2>1, <2>3, ListenerKept
  <2>6. Reads(t)'
    BY <1>1, <2>1, <2>2, KeptQuiet DEF FrameKept
  <2> QED
    BY <1>1, <2>1, <2>3, <2>4, <2>5, <2>6, StepSafe
<1> QED
  BY <1>2, <1>3

\* The given stream ended: the listener goes past it.
LEMMA EndOfGivenSafe ==
    ASSUME BroadcastAssumption, Safe, NEW t \in Port, EndOfGiven(t)
    PROVE  Safe'
<1>1. Types /\ Gift /\ Reads(t) /\ t \in Reader /\ t # Populate /\ "out" \in Strm
  BY Constants DEF Safe, Strm
<1>2. /\ Running /\ rpc[t] = "end" /\ asking[t]
      /\ UNCHANGED <<max_ports, list, freed, off, proxy, writing, cancelling>>
      /\ MoveTo("out", t, At("out", listeners["out"][t]))
  BY <1>1, AtStep DEF EndOfGiven
<1>3. /\ cur' = [cur EXCEPT ![t] = "out"] /\ asking' = [asking EXCEPT ![t] = FALSE]
      /\ rpc' = [rpc EXCEPT ![t] = "load"]
      /\ UNCHANGED <<op, node, closed, ret, took, promised, over>>
  BY DEF EndOfGiven, To
<1>4. rpc'[t] = "load" /\ cur'[t] = "out" /\ asking'[t] = FALSE
  BY <1>1, <1>3 DEF Types
<1>5. FrameStep(t)
  <2>1. rpc' = [rpc EXCEPT ![t] = rpc'[t]] /\ rpc'[t] \in Steps
    BY <1>3, <1>4 DEF Steps, Waiting
  <2>2. /\ op' = [op EXCEPT ![t] = op'[t]]
        /\ op'[t] \in {"get", "peek", "skip", "depleted", "ready", "empty", NULL}
    BY <1>1, <1>3 DEF Types
  <2>3. cur' = [cur EXCEPT ![t] = cur'[t]] /\ cur'[t] \in Strm
    BY <1>1, <1>3, <1>4
  <2>4. asking' = [asking EXCEPT ![t] = asking'[t]] /\ asking'[t] \in BOOLEAN
    BY <1>3, <1>4
  <2>5. node' = [node EXCEPT ![t] = node'[t]] /\ node'[t] \in Nat
    BY <1>1, <1>3 DEF Types
  <2>6. closed' = [closed EXCEPT ![t] = closed'[t]] /\ closed'[t] \in BOOLEAN
    BY <1>1, <1>3 DEF Types
  <2> QED
    BY <1>3, <2>1, <2>2, <2>3, <2>4, <2>5, <2>6 DEF FrameStep
<1>6. ReaderStep
  BY <1>1, <1>2, <1>3 DEF ReaderStep, Types
<1>7. PopulateKept /\ IdleKept
  BY <1>2, <1>5, ListenerKept
<1>8. /\ InUse(t) /\ t \in Ports("out") /\ listeners["out"][t] \in Nat
      /\ op[t] \in {"get", "peek", "skip", "depleted"} /\ InGiven(t)
  <2>1. InUse(t)
    BY <1>2 DEF InUse
  <2>2. t \in Ports("out") /\ listeners["out"][t] \in Nat
    BY <1>1, <2>1, HeldOf
  <2> QED
    BY <1>1, <1>2, <2>1, <2>2 DEF Reads, Waiting
<1>9. At("out", listeners["out"][t]) # 0 /\ At("out", listeners["out"][t]) \in Nat
  BY <1>1, <1>8, AtOf DEF InGiven
<1>10. Reads(t)'
  <2>1. listeners'["out"][t] # NULL
    <3>1. listeners'["out"][t] = At("out", listeners["out"][t])
      BY <1>1, <1>2, <1>8, <1>9, MoveOf
    <3> QED
      BY <1>9, <3>1, Constants
  <2>2. Ports("out")' = Ports("out")
    BY <1>2 DEF Ports
  <2>3. op'[t] \in {"get", "peek", "skip", "depleted"}
    BY <1>3, <1>8
  <2> QED
    BY <1>1, <1>4, <1>8, <2>1, <2>2, <2>3 DEF Reads, Waiting, Looking, Asking
<1>11. Holds(t, "out", t)
  BY <1>1, <1>8 DEF Holds
<1> QED
  BY <1>1, <1>2, <1>5, <1>6, <1>7, <1>8, <1>9, <1>10, <1>11, MoveSafe

\* A call enters the given stream, in place or in the proxy.
LEMMA EnterGivenSafe ==
    ASSUME BroadcastAssumption, Safe, NEW t \in Reader, EnterGiven(t)
    PROVE  t # Populate /\ Safe'
<1>1. Types /\ Gift /\ Reads(t) /\ "out" \in Strm
  BY DEF Safe, Strm
<1>2. /\ Running /\ rpc[t] = "have" /\ IsGiven(t)
      /\ UNCHANGED <<max_ports, list, freed, off, proxy, writing, cancelling>>
  BY AtStep DEF EnterGiven
<1>3. /\ cur' = [cur EXCEPT ![t] = IF max_ports <= 1 THEN "in" ELSE "proxy"]
      /\ asking' = [asking EXCEPT ![t] = TRUE]
      /\ rpc' = [rpc EXCEPT ![t] = "load"] /\ node' = [node EXCEPT ![t] = 0]
      /\ UNCHANGED <<listeners, op, closed, ret, took, promised, over>>
  BY DEF EnterGiven, Again, To
<1>4. InUse(t) /\ rpc[t] \in Waiting
  BY <1>2 DEF InUse, Waiting
<1>5. /\ cur[t] \in Strm /\ Loc(t) \in Nat /\ node[t] = Cell(t) /\ Cell(t) # 0
      /\ Cell(t) \in 1 .. Len(list[cur[t]])
  <2>1. cur[t] \in Strm /\ Loc(t) \in Nat
    BY <1>1, <1>4, HeldOf
  <2> QED
    BY <1>1, <1>2, <2>1, AtOf DEF Cell, Reads
<1>6. cur[t] = "out"
  <2>1. CASE cur[t] # "out"
    <3>1. cur[t] \in {"in", "proxy"} /\ Cell(t) \in DOMAIN list[cur[t]]
      BY <1>1, <1>5, <2>1, ListOf DEF Strm
    <3>2. list[cur[t]][Cell(t)] # GIVEN
      BY <1>1, <3>1 DEF Gift
    <3> QED
      BY <1>2, <1>5, <3>2 DEF IsGiven
  <2> QED
    BY <2>1
<1>7. t # Populate /\ t \in Port
  BY <1>1, <1>4, <1>6, Constants DEF Reads
<1>8. PortOf(t) = t /\ Loc(t) = listeners["out"][t]
  BY <1>6 DEF PortOf, Loc
<1>9. InGiven(t)
  BY <1>2, <1>5, <1>6, <1>8 DEF InGiven, IsGiven, Cell
<1>10. max_ports > 1 => proxy = "live"
  <2>1. /\ At("out", listeners["out"][t]) \in 1 .. Len(list["out"])
        /\ At("out", listeners["out"][t]) > freed["out"] /\ freed["out"] \in Nat
        /\ list["out"][At("out", listeners["out"][t])] = GIVEN
    <3>1. /\ listeners["out"][t] \in Nat /\ t \in Ports("out") /\ listeners["out"][t] # NULL
          /\ freed["out"] \in Nat
      BY <1>1, <1>4, <1>7, HeldOf, ListOf, Constants
    <3>2. listeners["out"][t] # 0 => listeners["out"][t] > freed["out"]
      BY <1>1, <3>1 DEF Safe, Placed
    <3> QED
      BY <1>1, <1>9, <3>1, <3>2, AtOf DEF InGiven
  <2>2. Given
    BY <2>1 DEF Given, Contains
  <2>3. proxy # "deleted"
    <3> SUFFICES ASSUME proxy = "deleted" PROVE FALSE
      OBVIOUS
    <3>1. PICK i \in 1 .. freed["out"] : list["out"][i] = GIVEN
      BY <1>1 DEF Gift
    <3>2. i \in DOMAIN list["out"] /\ At("out", listeners["out"][t]) \in DOMAIN list["out"]
      BY <1>1, <2>1, <3>1, ListOf
    <3>3. i = At("out", listeners["out"][t])
      BY <1>1, <2>1, <3>1, <3>2 DEF Gift
    <3> QED
      BY <2>1, <3>1, <3>3
  <2> QED
    BY <1>1, <2>2, <2>3 DEF Gift, Types
<1>11. /\ rpc'[t] = "load" /\ cur'[t] = (IF max_ports <= 1 THEN "in" ELSE "proxy")
       /\ asking'[t] = TRUE /\ node'[t] = 0
  BY <1>1, <1>3 DEF Types
<1>12. FrameStep(t)
  <2>1. rpc' = [rpc EXCEPT ![t] = rpc'[t]] /\ rpc'[t] \in Steps
    BY <1>3, <1>11 DEF Steps, Waiting
  <2>2. /\ op' = [op EXCEPT ![t] = op'[t]]
        /\ op'[t] \in {"get", "peek", "skip", "depleted", "ready", "empty", NULL}
    BY <1>1, <1>3 DEF Types
  <2>3. cur' = [cur EXCEPT ![t] = cur'[t]] /\ cur'[t] \in Strm
    BY <1>1, <1>3, <1>11 DEF Strm
  <2>4. asking' = [asking EXCEPT ![t] = asking'[t]] /\ asking'[t] \in BOOLEAN
    BY <1>3, <1>11
  <2>5. node' = [node EXCEPT ![t] = node'[t]] /\ node'[t] \in Nat
    <3>1. node' = [node EXCEPT ![t] = node'[t]]
      BY <1>3, <1>11, Zenon
    <3>2. node'[t] \in Nat
      BY <1>11
    <3> QED
      BY <3>1, <3>2
  <2>6. closed' = [closed EXCEPT ![t] = closed'[t]] /\ closed'[t] \in BOOLEAN
    BY <1>1, <1>3 DEF Types
  <2> QED
    BY <1>3, <2>1, <2>2, <2>3, <2>4, <2>5, <2>6 DEF FrameStep
<1>13. ReaderStep
  BY <1>1, <1>2, <1>3 DEF ReaderStep, Types
<1>14. PopulateKept /\ IdleKept
  BY <1>2, <1>7, <1>12, ListenerKept
<1>15. Reads(t)'
  <2>1. t \in Ports("out") /\ listeners["out"][t] # NULL
        /\ op[t] \in {"get", "peek", "skip", "depleted"}
    BY <1>1, <1>4, <1>7, <1>2 DEF Reads
  <2>2. Ports("out")' = Ports("out") /\ max_ports \in Nat
    BY <1>1, <1>2, Constants DEF Ports, Types
  <2>3. InGiven(t)'
    BY <1>2, <1>3, <1>9 DEF InGiven, At
  <2>4. cur'[t] = (IF max_ports' > 1 THEN "proxy" ELSE "in")
    BY <1>2, <1>11, <2>2
  <2>5. cur'[t] = "proxy" => proxy' = "live"
    BY <1>2, <1>10, <2>4
  <2>6. op'[t] \in {"get", "peek", "skip", "depleted"} /\ listeners' = listeners
    BY <1>3, <2>1
  <2>7. cur'[t] # "out"
    BY <2>4
  <2> QED
    BY <1>7, <1>11, <2>1, <2>2, <2>3, <2>4, <2>5, <2>6, <2>7 DEF Reads, Waiting, Looking, Asking
<1> QED
  BY <1>3, <1>7, <1>12, <1>13, <1>14, <1>15, StepSafe
\* The part of a frame a step leaves alone, and that it sets.
LEMMA SameOf ==
    ASSUME Types, NEW t \in Reader
    PROVE  /\ rpc' = rpc => rpc' = [rpc EXCEPT ![t] = rpc'[t]] /\ rpc'[t] \in Steps
           /\ op' = op =>
                /\ op' = [op EXCEPT ![t] = op'[t]]
                /\ op'[t] \in {"get", "peek", "skip", "depleted", "ready", "empty", NULL}
           /\ cur' = cur => cur' = [cur EXCEPT ![t] = cur'[t]] /\ cur'[t] \in Strm
           /\ asking' = asking => asking' = [asking EXCEPT ![t] = asking'[t]] /\ asking'[t] \in BOOLEAN
           /\ node' = node => node' = [node EXCEPT ![t] = node'[t]] /\ node'[t] \in Nat
           /\ closed' = closed => closed' = [closed EXCEPT ![t] = closed'[t]] /\ closed'[t] \in BOOLEAN
<1>1. /\ rpc' = rpc => rpc' = [rpc EXCEPT ![t] = rpc'[t]] /\ rpc'[t] \in Steps
      /\ cur' = cur => cur' = [cur EXCEPT ![t] = cur'[t]] /\ cur'[t] \in Strm
  BY DEF Types
<1>2. op' = op => /\ op' = [op EXCEPT ![t] = op'[t]]
                  /\ op'[t] \in {"get", "peek", "skip", "depleted", "ready", "empty", NULL}
  BY DEF Types
<1>3. /\ asking' = asking => asking' = [asking EXCEPT ![t] = asking'[t]] /\ asking'[t] \in BOOLEAN
      /\ closed' = closed => closed' = [closed EXCEPT ![t] = closed'[t]] /\ closed'[t] \in BOOLEAN
  BY DEF Types
<1>4. node' = node => node' = [node EXCEPT ![t] = node'[t]] /\ node'[t] \in Nat
  BY DEF Types
<1> QED
  BY <1>1, <1>2, <1>3, <1>4

\* A component that is set where one element of its domain changes.
LEMMA SetOf ==
    ASSUME Types, NEW t \in Reader, NEW x
    PROVE  /\ rpc' = [rpc EXCEPT ![t] = x] => rpc'[t] = x /\ rpc' = [rpc EXCEPT ![t] = rpc'[t]]
           /\ op' = [op EXCEPT ![t] = x] => op'[t] = x /\ op' = [op EXCEPT ![t] = op'[t]]
           /\ cur' = [cur EXCEPT ![t] = x] => cur'[t] = x /\ cur' = [cur EXCEPT ![t] = cur'[t]]
           /\ asking' = [asking EXCEPT ![t] = x] =>
                asking'[t] = x /\ asking' = [asking EXCEPT ![t] = asking'[t]]
           /\ node' = [node EXCEPT ![t] = x] => node'[t] = x /\ node' = [node EXCEPT ![t] = node'[t]]
           /\ closed' = [closed EXCEPT ![t] = x] =>
                closed'[t] = x /\ closed' = [closed EXCEPT ![t] = closed'[t]]
<1>1. /\ rpc' = [rpc EXCEPT ![t] = x] => rpc'[t] = x
      /\ op' = [op EXCEPT ![t] = x] => op'[t] = x
      /\ cur' = [cur EXCEPT ![t] = x] => cur'[t] = x
      /\ asking' = [asking EXCEPT ![t] = x] => asking'[t] = x
      /\ node' = [node EXCEPT ![t] = x] => node'[t] = x
      /\ closed' = [closed EXCEPT ![t] = x] => closed'[t] = x
  BY DEF Types
<1> QED
  BY <1>1, Zenon

\* The given stream is not depleted: the call goes to it.
LEMMA AskedGivenSafe ==
    ASSUME BroadcastAssumption, Safe, NEW t \in Port, AskedGiven(t)
    PROVE  Safe'
<1>1. Types /\ Reads(t) /\ t \in Reader /\ t # Populate
  BY Constants DEF Safe
<1>2. /\ Running /\ rpc[t] = "have" /\ asking[t]
      /\ UNCHANGED <<max_ports, list, freed, off, proxy, writing, cancelling>>
  BY <1>1, AtStep DEF AskedGiven
<1>3. /\ asking' = [asking EXCEPT ![t] = FALSE] /\ rpc' = [rpc EXCEPT ![t] = "load"]
      /\ node' = [node EXCEPT ![t] = 0]
      /\ listeners' = listeners /\ op' = op /\ cur' = cur /\ closed' = closed
      /\ UNCHANGED <<ret, took, promised>>
  BY DEF AskedGiven, Again, To
<1>4. rpc'[t] = "load" /\ asking'[t] = FALSE /\ node'[t] = 0 /\ cur'[t] = cur[t] /\ op'[t] = op[t]
  BY <1>1, <1>3, SetOf
<1>5. FrameStep(t)
  <2>1. rpc' = [rpc EXCEPT ![t] = rpc'[t]] /\ rpc'[t] \in Steps
    BY <1>1, <1>3, <1>4, SetOf DEF Steps, Waiting
  <2>2. asking' = [asking EXCEPT ![t] = asking'[t]] /\ asking'[t] \in BOOLEAN
    BY <1>1, <1>3, <1>4, SetOf
  <2>3. node' = [node EXCEPT ![t] = node'[t]]
    BY <1>1, <1>3, SetOf
  <2>4. node'[t] \in Nat
    BY <1>4
  <2> QED
    BY <1>1, <1>3, <2>1, <2>2, <2>3, <2>4, SameOf DEF FrameStep
<1>6. ReaderStep
  BY <1>1, <1>2, <1>3 DEF ReaderStep, Types
<1>7. PopulateKept /\ IdleKept
  BY <1>2, <1>5, ListenerKept
<1>8. Reads(t)'
  <2>1. /\ t \in Ports("out") /\ listeners["out"][t] # NULL
        /\ op[t] \in {"get", "peek", "skip", "depleted"} /\ cur[t] # "out"
        /\ cur[t] = (IF max_ports > 1 THEN "proxy" ELSE "in") /\ (cur[t] = "proxy" => proxy = "live")
        /\ InGiven(t)
    BY <1>1, <1>2 DEF Reads, Waiting
  <2>2. Ports("out")' = Ports("out")
    BY <1>2 DEF Ports
  <2>3. InGiven(t)'
    BY <1>2, <1>3, <2>1 DEF InGiven, At
  <2> QED
    BY <1>1, <1>2, <1>3, <1>4, <2>1, <2>2, <2>3 DEF Reads, Waiting, Looking, Asking
<1> QED
  BY <1>1, <1>3, <1>5, <1>6, <1>7, <1>8, StepSafe

\* An element.
LEMMA FoundSafe ==
    ASSUME BroadcastAssumption, Safe, NEW t \in Port, Found(t)
    PROVE  Safe'
<1>1. Types /\ Gift /\ Reads(t) /\ t \in Reader /\ t # Populate
  BY Constants DEF Safe
<1>2. /\ At_(t, "have") /\ Running /\ rpc[t] = "have" /\ Return(t) /\ ret' = ret
      /\ UNCHANGED <<max_ports, list, freed, off, proxy, writing, cancelling>>
  BY <1>1, AtStep DEF Found
<1>3. CASE op[t] \in {"get", "skip"}
  <2>1. MoveTo(cur[t], PortOf(t), node[t]) /\ took' = [took EXCEPT ![t] = @ + 1]
    BY <1>3 DEF Found
  <2>2. FrameStep(t) /\ Reads(t)' /\ promised' \in [Port -> BOOLEAN]
    BY <1>1, <1>2, ReturnOf
  <2>3. ReaderStep
    <3>1. took' \in [Port -> Nat]
      BY <1>1, <2>1 DEF Types
    <3> QED
      BY <1>1, <1>2, <2>2, <3>1 DEF ReaderStep, Types
  <2>4. PopulateKept /\ IdleKept
    BY <1>2, <2>2, ListenerKept
  <2>5. InUse(t)
    BY <1>2 DEF InUse
  <2>6. cur[t] \in Strm /\ PortOf(t) \in Ports(cur[t]) /\ Holds(t, cur[t], PortOf(t))
    BY <1>1, <2>5, HeldOf DEF Holds
  <2>7. node[t] = At(cur[t], listeners[cur[t]][PortOf(t)]) /\ node[t] # 0
    BY <1>1, <1>2 DEF Reads, Cell, Loc
  <2> QED
    BY <1>1, <2>1, <2>2, <2>3, <2>4, <2>6, <2>7, MoveSafe
<1>4. CASE op[t] \notin {"get", "skip"}
  <2>1. listeners' = listeners /\ took' = took
    BY <1>4 DEF Found
  <2> QED
    BY <1>2, <2>1, ReturnSafe
<1> QED
  BY <1>3, <1>4

\* ready and empty: what is next in the listener's own stream.
LEMMA LookSafe ==
    ASSUME BroadcastAssumption, Safe, NEW t \in Port, NEW o \in {"ready", "empty"}, Look(t, o)
    PROVE  Safe'
<1>1. Types /\ Gift /\ Reads(t) /\ t \in Reader /\ t # Populate
  BY Constants DEF Safe
<1>2. /\ At_(t, o) /\ Running /\ rpc[t] = o /\ o \in Asking
      /\ UNCHANGED <<max_ports, list, freed, off, proxy, writing, cancelling>>
  BY <1>1, AtStep DEF Look, Asking
<1>3. CASE ReturnOnly(t) /\ listeners' = listeners
  BY <1>2, <1>3, ReturnSafe DEF ReturnOnly
<1>4. CASE listeners' = listeners /\ UNCHANGED reading
  <2>1. UNCHANGED <<rpc, op, cur, asking, node, closed, ret, took, promised>>
    BY <1>4 DEF reading, frame
  <2>2. FrameStep(t)
    BY <1>1, <2>1, SameOf DEF FrameStep
  <2>3. ReaderStep
    BY <1>1, <1>2, <2>1 DEF ReaderStep, Types
  <2>4. PopulateKept /\ IdleKept
    BY <1>2, <2>2, ListenerKept
  <2>5. Reads(t)'
    BY <1>1, <1>2, <1>4, <2>1, KeptQuiet DEF FrameKept
  <2> QED
    BY <1>1, <1>4, <2>2, <2>3, <2>4, <2>5, StepSafe
<1>5. CASE /\ Cell(t) # 0 /\ list["out"][Cell(t)] = GIVEN /\ ~(max_ports > 1)
           /\ node' = [node EXCEPT ![t] = Cell(t)] /\ cur' = [cur EXCEPT ![t] = "in"]
           /\ rpc' = [rpc EXCEPT ![t] = "closed"]
           /\ UNCHANGED <<listeners, op, asking, closed, ret, took, promised, over>>
  <2>1. rpc'[t] = "closed" /\ cur'[t] = "in" /\ node'[t] = Cell(t)
    BY <1>1, <1>5, SetOf
  <2>2. cur[t] = "out" /\ op[t] = o /\ ~asking[t] /\ t \in Ports("out")
        /\ listeners["out"][t] # NULL
    BY <1>1, <1>2 DEF Reads, Asking
  <2>3. PortOf(t) = t /\ Cell(t) = At("out", listeners["out"][t]) /\ Cell(t) \in Nat
    <3>1. PortOf(t) = t
      BY <2>2 DEF PortOf
    <3>2. listeners["out"][t] \in Nat
      BY <1>1, <2>2, LocationOf DEF Strm
    <3>3. Cell(t) = At("out", listeners["out"][t])
      BY <2>2, <3>1 DEF Cell, Loc
    <3> QED
      BY <1>1, <3>1, <3>2, <3>3, AtOf DEF Strm
  <2>4. FrameStep(t)
    <3>1. rpc' = [rpc EXCEPT ![t] = rpc'[t]] /\ rpc'[t] \in Steps
      BY <1>1, <1>5, <2>1, SetOf DEF Steps, Looking
    <3>2. cur' = [cur EXCEPT ![t] = cur'[t]] /\ cur'[t] \in Strm
      BY <1>1, <1>5, <2>1, SetOf DEF Strm
    <3>3. node' = [node EXCEPT ![t] = node'[t]]
      BY <1>1, <1>5, SetOf
    <3>4. node'[t] \in Nat
      BY <2>1, <2>3
    <3>5. op' = op /\ asking' = asking /\ closed' = closed /\ ret' = ret
      BY <1>5
    <3> QED
      BY <1>1, <3>1, <3>2, <3>3, <3>4, <3>5, SameOf DEF FrameStep
  <2>5. ReaderStep
    BY <1>1, <1>2, <1>5 DEF ReaderStep, Types
  <2>6. PopulateKept /\ IdleKept
    BY <1>2, <2>4, ListenerKept DEF Asking
  <2>7. Reads(t)'
    <3>1. Ports("out")' = Ports("out")
      BY <1>2 DEF Ports
    <3>2. At("out", listeners["out"][t])' = At("out", listeners["out"][t])
      BY <1>2, <1>5 DEF At
    <3>3. InGiven(t)'
      BY <1>2, <1>5, <2>3, <3>2 DEF InGiven
    <3>4. op'[t] = o /\ ~asking'[t] /\ listeners'["out"][t] # NULL
          /\ cur'[t] = (IF max_ports' > 1 THEN "proxy" ELSE "in")
      BY <1>2, <1>5, <2>1, <2>2
    <3> QED
      BY <1>1, <1>2, <2>1, <2>2, <2>3, <3>1, <3>2, <3>3, <3>4 DEF Reads, Waiting, Looking, Asking
  <2> QED
    BY <1>1, <1>5, <2>4, <2>5, <2>6, <2>7, StepSafe
<1> QED
  BY <1>3, <1>4, <1>5 DEF Look, To
\* ready and empty look into the given stream.
LEMMA LookingSafe ==
    ASSUME BroadcastAssumption, Safe, NEW t \in Port,
           LookClosed(t) \/ LookInside(t) \/ LookAnswer(t)
    PROVE  Safe'
<1>1. Types /\ Gift /\ Reads(t) /\ t \in Reader /\ t # Populate
  BY Constants DEF Safe
<1>2. CASE ReturnOnly(t) /\ listeners' = listeners /\ \E pc \in Looking : At_(t, pc)
  <2>1. PICK pc \in Looking : At_(t, pc)
    BY <1>2
  <2>2. pc # "idle"
    BY <2>1 DEF Looking
  <2> QED
    BY <1>2, <2>1, <2>2, ReturnSafe DEF ReturnOnly
<1>3. CASE /\ \E pc \in Looking : At_(t, pc)
           /\ rpc' = [rpc EXCEPT ![t] = rpc'[t]] /\ rpc'[t] \in Looking
           /\ closed' = [closed EXCEPT ![t] = closed'[t]] /\ closed'[t] \in BOOLEAN
           /\ UNCHANGED <<listeners, op, cur, asking, node, ret, took, promised, over>>
  <2>1. /\ Running /\ rpc[t] \in Looking
        /\ UNCHANGED <<max_ports, list, freed, off, proxy, writing, cancelling>>
    BY <1>1, <1>3, AtStep
  <2>2. FrameStep(t)
    BY <1>1, <1>3, SameOf DEF FrameStep, Steps
  <2>3. ReaderStep
    BY <1>1, <1>3, <2>1 DEF ReaderStep, Types
  <2>4. rpc[t] # "idle" /\ rpc[t] # "have"
    BY <2>1 DEF Looking
  <2>5. PopulateKept /\ IdleKept
    BY <2>2, <2>4, ListenerKept
  <2>6. Reads(t)'
    <3>1. /\ t \in Ports("out") /\ listeners["out"][t] # NULL
          /\ op[t] \in Asking /\ ~asking[t]
          /\ cur[t] = "in" /\ node[t] = At("out", listeners["out"][t])
          /\ cur[t] = (IF max_ports > 1 THEN "proxy" ELSE "in") /\ InGiven(t)
      BY <1>1, <2>1, <2>4 DEF Reads
    <3>2. Ports("out")' = Ports("out")
      BY <2>1 DEF Ports
    <3>3. At("out", listeners["out"][t])' = At("out", listeners["out"][t])
      BY <1>3, <2>1 DEF At
    <3>4. InGiven(t)'
      BY <1>3, <2>1, <3>1, <3>3 DEF InGiven
    <3>5. rpc'[t] \notin {"idle", "have"} \cup Waiting \cup Asking
      BY <1>3 DEF Looking, Waiting, Asking
    <3> QED
      BY <1>1, <1>3, <2>1, <3>1, <3>2, <3>3, <3>4, <3>5 DEF Reads
  <2> QED
    BY <1>1, <1>3, <2>2, <2>3, <2>5, <2>6, StepSafe
<1>4. rpc \in [Reader -> Steps] /\ closed \in [Reader -> BOOLEAN] /\ off["in"] \in BOOLEAN
  BY <1>1 DEF Types, Strm
<1>5. CASE LookClosed(t)
  <2>1. At_(t, "closed") /\ "closed" \in Looking /\ listeners' = listeners
    BY <1>5 DEF LookClosed, Looking
  <2>2. CASE op[t] = "empty" /\ ~off["in"]
    BY <1>2, <1>5, <2>1, <2>2 DEF LookClosed
  <2>3. CASE ~(op[t] = "empty" /\ ~off["in"])
    <3>1. /\ closed' = [closed EXCEPT ![t] = off["in"]] /\ rpc' = [rpc EXCEPT ![t] = "inside"]
          /\ UNCHANGED <<op, cur, asking, node, ret, took, promised, over>>
      BY <1>5, <2>3 DEF LookClosed, To
    <3>2. /\ rpc' = [rpc EXCEPT ![t] = rpc'[t]] /\ rpc'[t] = "inside"
          /\ closed' = [closed EXCEPT ![t] = closed'[t]] /\ closed'[t] = off["in"]
      BY <1>1, <3>1, SetOf
    <3>3. rpc'[t] \in Looking
      BY <3>2 DEF Looking
    <3> QED
      BY <1>3, <1>4, <2>1, <3>1, <3>2, <3>3
  <2> QED
    BY <2>2, <2>3
<1>6. CASE LookInside(t)
  <2>1. At_(t, "inside") /\ "inside" \in Looking
    BY <1>6 DEF LookInside, Looking
  <2>2. /\ rpc' = [rpc EXCEPT ![t] = IF Cell(t) # 0 THEN "some" ELSE "past"]
        /\ UNCHANGED <<listeners, op, cur, asking, node, closed, ret, took, promised, over>>
    BY <1>6 DEF LookInside, To, Keep
  <2>3. /\ rpc' = [rpc EXCEPT ![t] = rpc'[t]] /\ rpc'[t] \in {"some", "past"}
        /\ closed' = [closed EXCEPT ![t] = closed'[t]] /\ closed'[t] \in BOOLEAN
    BY ZenonT(30), <1>1, <2>2, SetOf, SameOf
  <2>4. rpc'[t] \in Looking
    BY <2>3 DEF Looking
  <2> QED
    BY <1>3, <2>1, <2>2, <2>3, <2>4
<1>7. CASE LookAnswer(t)
  BY <1>2, <1>7 DEF LookAnswer, Looking
<1> QED
  BY <1>5, <1>6, <1>7

\* They go past it, and look again.
LEMMA LookPastSafe ==
    ASSUME BroadcastAssumption, Safe, NEW t \in Port, LookPast(t)
    PROVE  Safe'
<1>1. Types /\ Gift /\ Reads(t) /\ t \in Reader /\ t # Populate /\ "out" \in Strm
  BY Constants DEF Safe, Strm
<1>2. /\ Running /\ rpc[t] = "past" /\ MoveTo("out", t, node[t])
      /\ UNCHANGED <<max_ports, list, freed, off, proxy, writing, cancelling>>
      /\ cur' = [cur EXCEPT ![t] = "out"] /\ rpc' = [rpc EXCEPT ![t] = op[t]]
      /\ op' = op /\ asking' = asking /\ node' = node /\ closed' = closed
      /\ UNCHANGED <<ret, took, promised, over>>
  BY <1>1, AtStep DEF LookPast, To
<1>3. /\ t \in Ports("out") /\ listeners["out"][t] # NULL /\ InUse(t)
      /\ op[t] \in Asking /\ ~asking[t] /\ node[t] = At("out", listeners["out"][t]) /\ node[t] # 0
  BY <1>1, <1>2 DEF Reads, InUse, InGiven, Looking
<1>4. rpc'[t] = op[t] /\ cur'[t] = "out"
  BY <1>1, <1>2, SetOf
<1>5. FrameStep(t)
  <2>1. rpc' = [rpc EXCEPT ![t] = rpc'[t]] /\ rpc'[t] \in Steps
    BY <1>1, <1>2, <1>3, <1>4, SetOf DEF Steps
  <2>2. cur' = [cur EXCEPT ![t] = cur'[t]] /\ cur'[t] \in Strm
    BY <1>1, <1>2, <1>4, SetOf
  <2> QED
    BY <1>1, <1>2, <2>1, <2>2, SameOf DEF FrameStep
<1>6. ReaderStep
  BY <1>1, <1>2 DEF ReaderStep, Types
<1>7. PopulateKept /\ IdleKept
  BY <1>2, <1>5, ListenerKept
<1>8. Reads(t)'
  <2>1. node[t] \in Nat /\ node[t] # NULL
    BY <1>1, Constants DEF Types
  <2>2. listeners'["out"][t] # NULL
    BY <1>1, <1>2, <1>3, <2>1, MoveOf
  <2>3. Ports("out")' = Ports("out")
    BY <1>2 DEF Ports
  <2>4. rpc'[t] \in Asking /\ rpc'[t] \notin {"idle", "have"} \cup Waiting \cup Looking
    BY <1>3, <1>4 DEF Asking, Waiting, Looking
  <2> QED
    BY <1>1, <1>2, <1>3, <1>4, <2>2, <2>3, <2>4 DEF Reads
<1>9. Holds(t, "out", t)
  BY <1>1, <1>3 DEF Holds
<1> QED
  BY <1>1, <1>2, <1>3, <1>5, <1>6, <1>7, <1>8, <1>9, MoveSafe
-----------------------------------------------------------------------------
(***************************************************************************)
(* populate                                                                *)
(***************************************************************************)
\* What populate has while it runs.
LEMMA PopulateOf ==
    ASSUME BroadcastAssumption, Safe, rpc[Populate] \in {"put", "sweep", "cleanup"} \cup Waiting
    PROVE  /\ Types /\ Gift /\ Reads(Populate) /\ Populate \in Reader /\ InUse(Populate)
           /\ cur[Populate] = "in" /\ asking[Populate] = FALSE /\ proxy = "live" /\ max_ports > 1
           /\ op[Populate] \in {"get", "depleted"}
           /\ PortOf(Populate) = KeyId /\ KeyId \in Ports("in") /\ listeners["in"][KeyId] \in Nat
           /\ Holds(Populate, "in", KeyId)
<1>1. Types /\ Gift /\ Reads(Populate) /\ Populate \in Reader
  BY Constants DEF Safe
<1>2. InUse(Populate)
  BY DEF InUse, Waiting
<1>3. cur[Populate] = "in" /\ ~asking[Populate] /\ proxy = "live"
      /\ op[Populate] \in {"get", "depleted"}
  BY <1>1 DEF Reads
<1>4. PortOf(Populate) = KeyId /\ Loc(Populate) \in Nat /\ max_ports > 1
  BY <1>1, <1>2, HeldOf
<1> QED
  BY <1>1, <1>2, <1>3, <1>4, Constants DEF Loc, Holds, Types

\* A step of populate that leaves the frames of the others and goes on.
LEMMA PopulateStep ==
    ASSUME BroadcastAssumption, Safe, rpc[Populate] \in {"put", "sweep", "cleanup"} \cup Waiting,
           rpc'[Populate] \in {"put", "sweep", "cleanup"} \cup Waiting, rpc'[Populate] # "have",
           rpc[Populate] = "sweep" => wpc["proxy"] = "idle",
           rpc'[Populate] = "put" => ret' \in Element /\ ret' # GIVEN, op'[Populate] \in {"get",
           "depleted"},
           FrameStep(Populate), ReaderStep, UNCHANGED <<cur, asking>>
    PROVE  PopulateKept /\ IdleKept /\ Reads(Populate)'
<1>1. PopulateKept
  BY DEF PopulateKept
<1>2. IdleKept
  <2>1. Types /\ Populate \in Reader /\ \A t \in Port : t \in Reader /\ t # Populate
    BY Constants DEF Safe
  <2> QED
    BY <2>1, FramesOf DEF IdleKept, FrameKept
<1>3. Reads(Populate)'
  <2>1. /\ cur'[Populate] = "in" /\ ~asking'[Populate] /\ proxy' = "live"
    BY PopulateOf DEF ReaderStep
  <2> QED
    BY <2>1 DEF Reads
<1> QED
  BY <1>1, <1>2, <1>3

\* populate sees an element, or takes it.
LEMMA PopulateFoundSafe ==
    ASSUME BroadcastAssumption, Safe, PopulateFound
    PROVE  Safe'
<1> DEFINE t == Populate
<1>0. t \in Reader
  BY Constants
<1>1. /\ Running /\ rpc[t] = "have" /\ rpc[t] \in Waiting
      /\ UNCHANGED <<max_ports, list, freed, off, proxy, writing, cancelling>>
      /\ cur' = cur /\ asking' = asking /\ closed' = closed /\ took' = took /\ promised' = promised
      /\ over' = over
  BY <1>0, AtStep DEF PopulateFound, Waiting
<1>2. /\ Types /\ Gift /\ Reads(t) /\ cur[t] = "in" /\ PortOf(t) = KeyId /\ KeyId \in Ports("in")
      /\ Holds(t, "in", KeyId) /\ listeners["in"][KeyId] \in Nat
  BY <1>1, PopulateOf
<1>3. "in" \in Strm /\ node[t] = At("in", listeners["in"][KeyId]) /\ node[t] # 0
  BY <1>1, <1>2 DEF Strm, Reads, Cell, Loc
<1>4. list["in"][node[t]] \in Element /\ list["in"][node[t]] # GIVEN
  BY <1>2, <1>3, AtOf, ListOf DEF Gift
<1>5. CASE op[t] = "depleted"
  <2>1. /\ op' = [op EXCEPT ![t] = "get"] /\ rpc' = [rpc EXCEPT ![t] = "load"]
        /\ node' = [node EXCEPT ![t] = 0] /\ listeners' = listeners /\ ret' = ret
    BY <1>5 DEF PopulateFound, Again, To
  <2>2. op'[t] = "get" /\ rpc'[t] = "load" /\ node'[t] = 0
    BY <1>0, <1>2, <2>1, SetOf
  <2>3. node'[t] \in Nat /\ rpc'[t] \in Waiting /\ rpc'[t] \in Steps
    BY <2>2 DEF Waiting, Steps
  <2>4. FrameStep(t)
    <3>1. /\ rpc' = [rpc EXCEPT ![t] = rpc'[t]] /\ op' = [op EXCEPT ![t] = op'[t]]
          /\ node' = [node EXCEPT ![t] = node'[t]]
      BY <1>0, <1>2, <2>1, SetOf
    <3> QED
      BY <1>0, <1>1, <1>2, <2>2, <2>3, <3>1, SameOf DEF FrameStep
  <2>5. ReaderStep
    BY <1>1, <1>2, <2>1 DEF ReaderStep, Types
  <2>6. PopulateKept /\ IdleKept /\ Reads(t)'
    BY <1>1, <2>2, <2>3, <2>4, <2>5, PopulateStep
  <2> QED
    BY <1>0, <2>1, <2>4, <2>5, <2>6, StepSafe
<1>6. CASE op[t] # "depleted"
  <2>1. /\ MoveTo("in", KeyId, node[t]) /\ ret' = list["in"][node[t]]
        /\ rpc' = [rpc EXCEPT ![t] = "put"] /\ node' = [node EXCEPT ![t] = 0] /\ op' = op
    BY <1>6 DEF PopulateFound, To
  <2>2. rpc'[t] = "put" /\ node'[t] = 0
    BY <1>0, <1>2, <2>1, SetOf
  <2>3. node'[t] \in Nat /\ rpc'[t] \in Steps
    BY <2>2 DEF Steps
  <2>4. FrameStep(t)
    <3>1. rpc' = [rpc EXCEPT ![t] = rpc'[t]] /\ node' = [node EXCEPT ![t] = node'[t]]
      BY <1>0, <1>2, <2>1, SetOf
    <3> QED
      BY <1>0, <1>1, <1>2, <2>1, <2>3, <3>1, SameOf DEF FrameStep
  <2>5. ReaderStep
    BY <1>1, <1>2, <1>4, <2>1 DEF ReaderStep, Types
  <2>6. PopulateKept /\ IdleKept /\ Reads(t)'
    <3>1. op'[t] \in {"get", "depleted"}
      BY <1>1, <2>1, PopulateOf
    <3> QED
      BY <1>1, <1>4, <2>1, <2>2, <2>4, <2>5, <3>1, PopulateStep
  <2> QED
    BY <1>0, <1>2, <1>3, <2>1, <2>4, <2>5, <2>6, MoveSafe
<1> QED
  BY <1>5, <1>6

\* It looks for the next one, or closes the proxy.
LEMMA PopulateNextSafe ==
    ASSUME BroadcastAssumption, Safe, PopulateNext \/ PopulateClose
    PROVE  Safe'
<1> DEFINE t == Populate
<1>0. t \in Reader
  BY Constants
<1>1. /\ Running /\ rpc[t] \in {"sweep", "end"} /\ listeners' = listeners
      /\ UNCHANGED <<max_ports, list, freed, proxy, writing, cancelling>>
      /\ cur' = cur /\ asking' = asking /\ closed' = closed /\ took' = took /\ promised' = promised
      /\ over' = over /\ node' = node /\ ret' = ret
      /\ rpc[t] = "sweep" => wpc["proxy"] = "idle"
  BY DEF PopulateNext, PopulateClose, Copying
<1>2. rpc[t] \in {"put", "sweep", "cleanup"} \cup Waiting
  BY <1>1 DEF Waiting
<1>3. Types /\ op[t] \in {"get", "depleted"}
  BY <1>2, PopulateOf
<1>4. rpc' = [rpc EXCEPT ![t] = "load"] \/ rpc' = [rpc EXCEPT ![t] = "cleanup"]
  BY DEF PopulateNext, PopulateClose, To
<1>5. rpc' = [rpc EXCEPT ![t] = rpc'[t]] /\ rpc'[t] \in {"load", "cleanup"}
  BY <1>0, <1>3, <1>4, SetOf
<1>6. op' = [op EXCEPT ![t] = op'[t]] /\ op'[t] \in {"get", "depleted"}
  <2>1. op' = [op EXCEPT ![t] = "depleted"] \/ op' = op
    BY DEF PopulateNext, PopulateClose
  <2> QED
    <3>1. CASE op' = [op EXCEPT ![t] = "depleted"]
      BY <1>0, <1>3, <3>1, SetOf
    <3>2. CASE op' = op
      BY <1>0, <1>3, <3>2, SameOf
    <3> QED
      BY <2>1, <3>1, <3>2
<1>7. off' \in [Strm -> BOOLEAN]
  BY <1>3 DEF PopulateNext, PopulateClose, CloseProxy, Types
<1>8. FrameStep(t)
  <2>1. rpc'[t] \in Steps
    BY <1>5 DEF Steps, Waiting
  <2> QED
    BY <1>0, <1>1, <1>3, <1>5, <1>6, <2>1, SameOf DEF FrameStep
<1>9. ReaderStep
  BY <1>1, <1>3, <1>7 DEF ReaderStep, Types
<1>10. PopulateKept /\ IdleKept /\ Reads(t)'
  <2>1. rpc'[t] \in {"put", "sweep", "cleanup"} \cup Waiting /\ rpc'[t] # "have" /\ rpc'[t] # "put"
    BY <1>5 DEF Waiting
  <2> QED
    BY <1>1, <1>2, <1>6, <1>8, <1>9, <2>1, PopulateStep
<1> QED
  BY <1>0, <1>1, <1>8, <1>9, <1>10, StepSafe

\* It gives up its listener, and ends.
LEMMA PopulateCleanupSafe ==
    ASSUME BroadcastAssumption, Safe, PopulateCleanup
    PROVE  Safe'
<1> DEFINE t == Populate
<1>0. t \in Reader /\ "in" \in Strm /\ "out" \in Strm /\ "proxy" \in Strm
  BY Constants DEF Strm
<1>1. /\ Running /\ rpc[t] = "cleanup" /\ MoveTo("in", KeyId, NULL)
      /\ UNCHANGED <<max_ports, list, freed, proxy, writing, cancelling>>
      /\ cur' = cur /\ asking' = asking /\ closed' = closed /\ took' = took /\ promised' = promised
      /\ over' = over /\ node' = node /\ ret' = ret /\ op' = op /\ off' = off
      /\ rpc' = [rpc EXCEPT ![t] = "ended"]
  BY DEF PopulateCleanup, Copying, MoveTo, To
<1>2. rpc[t] \in {"put", "sweep", "cleanup"} \cup Waiting
  BY <1>1
<1>3. /\ Types /\ Gift /\ KeyId \in Ports("in") /\ Holds(t, "in", KeyId) /\ proxy = "live"
      /\ max_ports > 1 /\ Placed /\ Sweeps
  BY <1>2, PopulateOf DEF Safe
<1>4. rpc'[t] = "ended" /\ rpc' = [rpc EXCEPT ![t] = rpc'[t]]
  BY <1>0, <1>1, <1>3, SetOf
<1>5. FrameStep(t)
  <2>1. rpc'[t] \in Steps
    BY <1>4 DEF Steps
  <2> QED
    BY <1>0, <1>1, <1>3, <1>4, <2>1, SameOf DEF FrameStep
<1>6. \A u \in Reader : u # t => FrameKept(u) /\ rpc'[u] = rpc[u]
  BY <1>0, <1>3, <1>5, FramesOf DEF FrameKept
<1>7. /\ listeners' = [r \in Strm |-> listeners'[r]]
      /\ \A r \in Strm : Ports(r)' = Ports(r) /\ listeners'[r] \in Location(r)'
      /\ listeners'["in"][KeyId] = NULL
      /\ \A r \in Strm : \A j \in Ports(r) :
            r # "in" \/ j # KeyId => listeners'[r][j] = listeners[r][j]
  BY <1>0, <1>1, <1>3, MoveOf
<1>8. ReaderStep
  BY <1>1, <1>3 DEF ReaderStep, Types
<1>9. Types'
  BY <1>0, <1>3, <1>5, <1>7, <1>8, ReaderTypes
<1>10. Placed'
  BY <1>1, <1>3, <1>7 DEF Placed
<1>11. Sweeps'
  <2> SUFFICES ASSUME NEW s \in Strm PROVE Swept(s)'
    BY DEF Sweeps
  <2>1. Swept(s)
    BY <1>3 DEF Sweeps
  <2>2. HasProxy("out", freed["out"] + 1)' <=> HasProxy("out", freed["out"] + 1)
    BY <1>1 DEF HasProxy
  <2>3. wpc' = wpc /\ iter' = iter /\ list' = list /\ freed' = freed /\ over' = over
    BY <1>1 DEF writing
  <2>4. wpc[s] = "destroy" => \A u \in Port : rpc'[u] = "idle"
    BY <1>6, <2>1, Constants DEF Swept
  <2>5. NULL # 0
    BY Constants
  <2>6. wpc[s] \in {"loop", "join"} => \A j \in Ports(s) : listeners'[s][j] # 0
    BY <1>7, <2>1, <2>5 DEF Swept
  <2>7. \A j \in Ports("out") : listeners'["out"][j] = listeners["out"][j]
    BY <1>0, <1>7
  <2>8. Ports(s)' = Ports(s) /\ Ports("out")' = Ports("out")
    BY <1>0, <1>7
  <2> QED
    BY <2>1, <2>2, <2>3, <2>4, <2>6, <2>7, <2>8 DEF Swept
<1>12. Gift'
  <2>1. Given' <=> Given
    BY <1>1 DEF Given
  <2>2. wpc' = wpc /\ list' = list /\ proxy' = proxy /\ freed' = freed
    BY <1>1 DEF writing
  <2>3. wpc["proxy"] = "idle"
    BY <1>1, <1>3 DEF Gift
  <2>4. \A j \in Ports("proxy") : listeners'["proxy"][j] # NULL
    BY <1>0, <1>3, <1>7 DEF Gift
  <2> QED
    BY <1>0, <1>1, <1>3, <1>4, <1>7, <2>1, <2>2, <2>3, <2>4 DEF Gift
<1>13. Reads(t)'
  BY <1>1, <1>2, <1>4, PopulateOf DEF Reads, Waiting
<1>14. ASSUME NEW u \in Reader, u # t PROVE Reads(u)'
  <2>1. \A s \in Strm : \A j \in Ports(s) : Holds(u, s, j) => listeners'[s][j] = listeners[s][j]
    <3> SUFFICES ASSUME NEW s \in Strm, NEW j \in Ports(s), Holds(u, s, j),
                        listeners'[s][j] # listeners[s][j]
                 PROVE  FALSE
      OBVIOUS
    <3>1. s = "in" /\ j = KeyId
      BY <1>7
    <3>2. Reads(u) /\ Reads(t)
      BY <1>0 DEF Safe
    <3> QED
      BY <1>0, <1>3, <1>14, <3>1, <3>2, HeldApart
  <2> QED
    BY <1>1, <1>6, <1>14, <2>1, KeptQuiet
<1> QED
  BY <1>9, <1>10, <1>11, <1>12, <1>13, <1>14 DEF Safe
-----------------------------------------------------------------------------
(***************************************************************************)
(* The steps of a writer                                                   *)
(***************************************************************************)
\* The parts hold after a step that links a node; give sets the proxy's listeners.
LEMMA LinkParts ==
    ASSUME BroadcastAssumption, Safe, Running, NEW r \in Strm, NEW x \in Element, Link(r, x),
           x = GIVEN => r = "out" /\ ~Given,
           over' = over, \A s \in Strm : s # "proxy" => listeners'[s] = listeners[s],
           \/ listeners'["proxy"] = listeners["proxy"]
           \/ /\ list["proxy"] = << >> /\ wpc["proxy"] = "idle" /\ r # "proxy"
              /\ \A i \in Ports("proxy") : listeners'["proxy"][i] = 0,
           \A t \in Port : rpc'[t] = rpc[t]
    PROVE  /\ Placed' /\ Sweeps'
           /\ list' \in [Strm -> Seq(Element)] /\ wpc'[r] = "first"
           /\ wpc' \in [Strm -> {"idle", "first", "loop", "join", "destroy"}]
           /\ iter' \in [Strm -> Nat]
           /\ \A i, j \in DOMAIN list'["out"] :
                 list'["out"][i] = GIVEN /\ list'["out"][j] = GIVEN => i = j
           /\ \A s \in {"in", "proxy"} : \A i \in DOMAIN list'[s] : list'[s][i] # GIVEN
           /\ Given' <=> Given \/ x = GIVEN
           /\ \A s \in Strm : s # r => wpc'[s] = wpc[s] /\ list'[s] = list[s]
           /\ \A i \in 1 .. freed["out"] : list'["out"][i] = list["out"][i]
<1>1. Types /\ Placed /\ Sweeps /\ Gift
  BY DEF Safe
<1>2. /\ wpc[r] = "idle" /\ list' = [list EXCEPT ![r] = Append(list[r], x)]
      /\ wpc' = [wpc EXCEPT ![r] = "first"] /\ iter' = [iter EXCEPT ![r] = freed[r] + 1]
      /\ max_ports' = max_ports /\ freed' = freed
  BY <1>1 DEF Link, Types
<1>3. /\ list'[r] = Append(list[r], x) /\ wpc'[r] = "first" /\ iter'[r] = freed[r] + 1
      /\ \A s \in Strm : s # r => list'[s] = list[s] /\ wpc'[s] = wpc[s] /\ iter'[s] = iter[s]
  BY <1>1, <1>2 DEF Types
<1>4. /\ list'[r] \in Seq(Element) /\ Len(list'[r]) = Len(list[r]) + 1
      /\ DOMAIN list'[r] = 1 .. Len(list[r]) + 1 /\ list'[r][Len(list[r]) + 1] = x
      /\ \A k \in 1 .. Len(list[r]) : list'[r][k] = list[r][k]
      /\ Len(list[r]) \in Nat /\ freed[r] \in Nat /\ DOMAIN list[r] = 1 .. Len(list[r])
  BY <1>1, <1>3, ListOf, AppendOf
<1>5. \A s \in Strm : /\ Ports(s)' = Ports(s) /\ Len(list[s]) \in Nat /\ Len(list'[s]) \in Nat
                      /\ freed[s] \in Nat /\ Len(list'[s]) >= Len(list[s])
                      /\ freed[s] <= Len(list[s])
                      /\ list[s] # << >> => list'[s] # << >>
  <2> SUFFICES ASSUME NEW s \in Strm
               PROVE  /\ Ports(s)' = Ports(s) /\ Len(list[s]) \in Nat /\ Len(list'[s]) \in Nat
                      /\ freed[s] \in Nat /\ Len(list'[s]) >= Len(list[s])
                      /\ freed[s] <= Len(list[s])
                      /\ list[s] # << >> => list'[s] # << >>
    OBVIOUS
  <2>1. freed[s] <= Len(list[s]) /\ Len(list[s]) \in Nat /\ freed[s] \in Nat
    BY <1>1, ListOf DEF Sweeps, Swept
  <2>2. Ports(s)' = Ports(s)
    BY <1>2 DEF Ports
  <2>3. CASE s = r
    <3>1. list'[s] # << >>
      BY <1>4, <2>3
    <3> QED
      BY <1>4, <2>1, <2>2, <2>3, <3>1
  <2>4. CASE s # r
    BY <1>3, <2>1, <2>2, <2>4
  <2> QED
    BY <2>3, <2>4
<1>6. "out" \in Strm /\ "in" \in Strm /\ "proxy" \in Strm /\ over' # "gone" /\ over # "gone"
  BY Constants DEF Strm, Running
<1>7. Placed'
  <2> SUFFICES ASSUME NEW s \in Strm, NEW i \in Ports(s), listeners'[s][i] # NULL
               PROVE  /\ listeners'[s][i] <= Len(list'[s])
                      /\ listeners'[s][i] = 0 \/ listeners'[s][i] > freed'[s]
                      /\ listeners'[s][i] = 0 /\ s # "out" => freed'[s] = 0
    BY <1>5 DEF Placed
  <2>1. freed'[s] = freed[s]
    BY <1>2
  <2>2. CASE listeners'[s] = listeners[s]
    <3>1. /\ listeners[s][i] <= Len(list[s]) /\ listeners[s][i] \in Nat
          /\ listeners[s][i] = 0 \/ listeners[s][i] > freed[s]
          /\ listeners[s][i] = 0 /\ s # "out" => freed[s] = 0
      BY <1>1, <2>2, LocationOf DEF Placed
    <3> QED
      BY <1>5, <2>1, <2>2, <3>1
  <2>3. CASE listeners'[s] # listeners[s]
    <3>1. s = "proxy" /\ listeners'[s][i] = 0 /\ list[s] = << >>
      BY <2>3
    <3>2. Len(list[s]) = 0
      BY <3>1
    <3>3. freed[s] = 0
      BY <1>5, <3>2
    <3> QED
      BY <1>5, <2>1, <3>1, <3>3
  <2> QED
    BY <2>2, <2>3
<1>8. Sweeps'
  <2> SUFFICES ASSUME NEW s \in Strm PROVE Swept(s)'
    BY DEF Sweeps
  <2>1. Swept(s)
    BY <1>1 DEF Sweeps
  <2>2. CASE s = r
    <3>1. /\ freed'[s] <= Len(list'[s]) /\ freed'[s] < Len(list'[s]) /\ list'[s] # << >>
          /\ wpc'[s] = "first" /\ iter'[s] = freed'[s] + 1
      BY <1>2, <1>3, <1>4, <2>1, <2>2 DEF Swept
    <3> QED
      BY <3>1 DEF Swept
  <2>3. CASE s # r
    <3>1. list'[s] = list[s] /\ wpc'[s] = wpc[s] /\ iter'[s] = iter[s] /\ freed'[s] = freed[s]
      BY <1>2, <1>3, <2>3
    <3>2. wpc[s] \in {"loop", "join"} => \A i \in Ports(s) : listeners'[s][i] # 0
      <4>1. wpc[s] # "idle" => listeners'[s] = listeners[s]
        OBVIOUS
      <4> QED
        BY <2>1, <4>1 DEF Swept
    <3>3. wpc[s] = "join" => /\ s = "out" /\ HasProxy("out", freed["out"] + 1)'
                             /\ listeners'["out"] = listeners["out"]
      <4>1. wpc[s] = "join" => s = "out" /\ HasProxy("out", freed["out"] + 1)
        BY <2>1 DEF Swept
      <4> QED
        BY <1>2, <1>6, <3>1, <4>1 DEF HasProxy
    <3>4. wpc[s] = "destroy" => s = "out" /\ \A t \in Port : rpc'[t] = "idle"
      BY <2>1 DEF Swept
    <3>5. Ports(s)' = Ports(s) /\ Ports("out")' = Ports("out")
      BY <1>5, <1>6
    <3> QED
      BY ZenonT(30), <1>2, <1>6, <2>1, <3>1, <3>2, <3>3, <3>4, <3>5 DEF Swept
  <2> QED
    BY <2>2, <2>3
<1>9. \A i, j \in DOMAIN list'["out"] : list'["out"][i] = GIVEN /\ list'["out"][j] = GIVEN => i = j
  <2>1. CASE r # "out"
    BY <1>1, <1>3, <1>6, <2>1 DEF Gift
  <2>2. CASE r = "out"
    <3> SUFFICES ASSUME NEW i \in 1 .. Len(list["out"]) + 1, NEW j \in 1 .. Len(list["out"]) + 1,
                        list'["out"][i] = GIVEN, list'["out"][j] = GIVEN
                 PROVE  i = j
      BY <1>4, <2>2
    <3>1. CASE x # GIVEN
      <4>1. i # Len(list["out"]) + 1 /\ j # Len(list["out"]) + 1
        BY <1>4, <2>2, <3>1
      <4>2. i \in DOMAIN list["out"] /\ j \in DOMAIN list["out"]
        BY <1>4, <2>2, <4>1
      <4>3. list["out"][i] = GIVEN /\ list["out"][j] = GIVEN
        BY <1>4, <2>2, <4>2
      <4> QED
        BY <1>1, <4>2, <4>3 DEF Gift
    <3>2. CASE x = GIVEN
      <4>1. \A k \in 1 .. Len(list["out"]) : list'["out"][k] # GIVEN
        BY <1>4, <2>2, <3>2 DEF Given, Contains
      <4> QED
        BY <1>4, <2>2, <4>1
    <3> QED
      BY <3>1, <3>2
  <2> QED
    BY <2>1, <2>2
<1>10. \A s \in {"in", "proxy"} : \A i \in DOMAIN list'[s] : list'[s][i] # GIVEN
  <2> SUFFICES ASSUME NEW s \in {"in", "proxy"}, NEW i \in DOMAIN list'[s] PROVE list'[s][i] # GIVEN
    OBVIOUS
  <2>1. CASE s # r
    BY <1>1, <1>3, <1>6, <2>1 DEF Gift
  <2>2. CASE s = r
    <3>1. i \in 1 .. Len(list[s]) => list[s][i] # GIVEN
      BY <1>1, <1>4, <2>2 DEF Gift
    <3> QED
      BY <1>4, <2>2, <3>1
  <2> QED
    BY <2>1, <2>2
<1>11. Given' <=> Given \/ x = GIVEN
  <2>1. CASE r # "out"
    BY <1>3, <1>6, <2>1 DEF Given
  <2>2. CASE r = "out"
    <3>1. ASSUME Given PROVE Given'
      <4>1. PICK k \in 1 .. Len(list["out"]) : list["out"][k] = GIVEN
        BY <3>1 DEF Given, Contains
      <4>2. k \in 1 .. Len(list'["out"]) /\ list'["out"][k] = GIVEN
        BY <1>4, <2>2, <4>1
      <4> QED
        BY <4>2 DEF Given, Contains
    <3>2. ASSUME x = GIVEN PROVE Given'
      <4>1. Len(list["out"]) + 1 \in 1 .. Len(list'["out"])
        BY <1>4, <2>2
      <4>2. list'["out"][Len(list["out"]) + 1] = GIVEN
        BY <1>4, <2>2, <3>2
      <4> QED
        BY <4>1, <4>2 DEF Given, Contains
    <3>3. ASSUME Given', x # GIVEN PROVE Given
      <4>1. PICK k \in 1 .. Len(list'["out"]) : list'["out"][k] = GIVEN
        BY <3>3 DEF Given, Contains
      <4>2. k \in 1 .. Len(list["out"]) /\ list["out"][k] = GIVEN
        BY <1>4, <2>2, <3>3, <4>1
      <4> QED
        BY <4>2 DEF Given, Contains
    <3> QED
      BY <3>1, <3>2, <3>3
  <2> QED
    BY <2>1, <2>2
<1>12. \A i \in 1 .. freed["out"] : list'["out"][i] = list["out"][i]
  <2> SUFFICES ASSUME NEW i \in 1 .. freed["out"] PROVE list'["out"][i] = list["out"][i]
    OBVIOUS
  <2>1. i \in 1 .. Len(list["out"])
    BY <1>5, <1>6
  <2> QED
    BY <1>3, <1>4, <1>6, <2>1
<1>13. /\ list' \in [Strm -> Seq(Element)]
       /\ wpc' \in [Strm -> {"idle", "first", "loop", "join", "destroy"}] /\ iter' \in [Strm -> Nat]
  BY SMTT(30), <1>1, <1>2, <1>4 DEF Types
<1> QED
  BY <1>3, <1>7, <1>8, <1>9, <1>10, <1>11, <1>12, <1>13
\* What Element has, and what GIVEN is.
LEMMA ElementOf ==
    ASSUME NEW s \in Strm, NEW n \in Nat
    PROVE  <<s, n + 1>> \in Element /\ <<s, n + 1>> # GIVEN /\ GIVEN \in Element
<1>1. <<s, n + 1>> \in Element /\ GIVEN \in Element
  BY DEF Element, Strm, GIVEN
<1>2. n + 1 # 0
  OBVIOUS
<1> QED
  BY <1>1, <1>2 DEF GIVEN

\* put, and give to a stream with one port: a node is linked and nothing else.
LEMMA PutSafe ==
    ASSUME BroadcastAssumption, Safe,
           (\E s \in {"out", "in"} : Put(s)) \/ GiveOne
    PROVE  Safe'
<1>1. Types /\ Gift /\ Placed /\ Sweeps
  BY DEF Safe
<1>2. PICK r \in {"out", "in"}, x \in Element :
         /\ Link(r, x) /\ (x = GIVEN => r = "out" /\ ~Given /\ ~(max_ports > 1))
         /\ Running /\ listeners' = listeners
         /\ UNCHANGED <<listeners, off, proxy, cancelling, reading, over>>
  <2>1. CASE \E s \in {"out", "in"} : Put(s)
    <3>1. PICK s \in {"out", "in"} : Put(s)
      BY <2>1
    <3>2. s \in Strm /\ Len(list[s]) \in Nat
      BY <1>1, ListOf DEF Strm
    <3>3. <<s, Len(list[s]) + 1>> \in Element /\ <<s, Len(list[s]) + 1>> # GIVEN
      BY <3>2, ElementOf
    <3> QED
      BY <3>1, <3>3 DEF Put, Writes
  <2>2. CASE GiveOne
    <3>1. GIVEN \in Element
      BY ElementOf DEF Strm
    <3>2. ~(max_ports > 1)
      BY <1>1, <2>2, Constants DEF GiveOne, Types
    <3> QED
      BY <2>2, <3>1, <3>2 DEF GiveOne, Gives, Given, Writes
  <2> QED
    BY <2>1, <2>2
<1>3. r \in Strm /\ r # "proxy" /\ "out" \in Strm /\ "proxy" \in Strm
  BY DEF Strm
<1>4. UNCHANGED <<rpc, op, cur, asking, node, closed, ret, took, promised>>
  BY <1>2 DEF reading, frame
<1>5. max_ports' = max_ports /\ freed' = freed
  BY <1>2 DEF Link
<1>6. /\ Placed' /\ Sweeps'
      /\ list' \in [Strm -> Seq(Element)] /\ wpc'[r] = "first"
      /\ wpc' \in [Strm -> {"idle", "first", "loop", "join", "destroy"}] /\ iter' \in [Strm -> Nat]
      /\ \A i, j \in DOMAIN list'["out"] :
            list'["out"][i] = GIVEN /\ list'["out"][j] = GIVEN => i = j
      /\ \A s \in {"in", "proxy"} : \A i \in DOMAIN list'[s] : list'[s][i] # GIVEN
      /\ Given' <=> Given \/ x = GIVEN
      /\ \A s \in Strm : s # r => wpc'[s] = wpc[s] /\ list'[s] = list[s]
      /\ \A i \in 1 .. freed["out"] : list'["out"][i] = list["out"][i]
  <2>1. over' = over /\ (\A s \in Strm : s # "proxy" => listeners'[s] = listeners[s])
        /\ listeners'["proxy"] = listeners["proxy"] /\ \A t \in Port : rpc'[t] = rpc[t]
    BY <1>2, <1>4
  <2>2. x = GIVEN => r = "out" /\ ~Given
    BY <1>2
  <2> QED
    BY <1>2, <1>3, <2>1, <2>2, LinkParts
<1>7. Types'
  <2>1. \A s \in Strm : Location(s)' = Location(s)
    BY <1>5 DEF Location, Ports
  <2>2. UNCHANGED <<off, proxy, cancelling>>
    BY <1>2
  <2> QED
    BY SMTT(30), <1>1, <1>2, <1>4, <1>5, <1>6, <2>1, <2>2 DEF Types
<1>8. Gift'
  <2>1. proxy' = proxy /\ rpc' = rpc /\ listeners' = listeners /\ max_ports' = max_ports
        /\ freed' = freed
    BY <1>2, <1>4, <1>5
  <2>2. list'["proxy"] = list["proxy"] /\ wpc'["proxy"] = wpc["proxy"]
    BY <1>3, <1>6
  <2>3. proxy' # "none" <=> max_ports' > 1 /\ Given'
    BY <1>1, <1>2, <1>6, <2>1 DEF Gift
  <2>4. proxy' = "deleted" => /\ rpc'[Populate] = "ended"
                              /\ \E i \in 1 .. freed'["out"] : list'["out"][i] = GIVEN
    BY <1>1, <1>6, <2>1 DEF Gift
  <2>5. \A s \in Strm : Ports(s)' = Ports(s)
    BY <2>1 DEF Ports
  <2>6. "in" \in Strm
    BY DEF Strm
  <2> QED
    BY <1>1, <1>3, <1>6, <2>1, <2>2, <2>3, <2>4, <2>5, <2>6 DEF Gift
<1>9. ASSUME NEW t \in Reader PROVE Reads(t)'
  <2>1. FrameKept(t)
    BY <1>4 DEF FrameKept
  <2>2. list' = [list EXCEPT ![r] = Append(@, x)]
    BY <1>2 DEF Link
  <2>3. proxy' = proxy /\ listeners' = listeners
    BY <1>2
  <2> QED
    BY <1>3, <1>5, <2>1, <2>2, <2>3, KeptLink
<1> QED
  BY <1>6, <1>7, <1>8, <1>9 DEF Safe

\* give to a stream with several ports: a proxy, with every port listening.
LEMMA GiveAllSafe ==
    ASSUME BroadcastAssumption, Safe, GiveAll
    PROVE  Safe'
<1>1. Types /\ Gift /\ Placed /\ Sweeps
  BY DEF Safe
<1>2. "out" \in Strm /\ "proxy" \in Strm /\ "in" \in Strm /\ GIVEN \in Element
      /\ Populate \in Reader
  BY ElementOf, Constants DEF Strm
<1>3. /\ max_ports > 1 /\ Running /\ ~Given /\ Link("out", GIVEN) /\ proxy' = "live"
      /\ listeners' = [listeners EXCEPT !["proxy"] = [i \in Ports("proxy") |-> 0]]
      /\ rpc' = [rpc EXCEPT ![Populate] = "load"] /\ op' = [op EXCEPT ![Populate] = "depleted"]
      /\ cur' = [cur EXCEPT ![Populate] = "in"]
      /\ asking' = asking /\ node' = node /\ closed' = closed /\ ret' = ret
      /\ UNCHANGED <<off, cancelling, took, promised, over>>
  BY DEF GiveAll, Gives, Writes, Given
<1>4. proxy = "none" /\ rpc[Populate] = "none" /\ list["proxy"] = << >> /\ wpc["proxy"] = "idle"
  <2>1. proxy = "none"
    BY <1>1, <1>3 DEF Gift
  <2> QED
    BY <1>1, <2>1 DEF Gift
<1>5. max_ports' = max_ports /\ freed' = freed
  BY <1>3 DEF Link
<1>6. \A s \in Strm : Ports(s)' = Ports(s)
  BY <1>5 DEF Ports
<1>7. /\ DOMAIN listeners = Strm /\ listeners'["proxy"] = [i \in Ports("proxy") |-> 0]
      /\ \A s \in Strm : s # "proxy" => listeners'[s] = listeners[s]
      /\ listeners' = [s \in Strm |-> listeners'[s]]
  <2>1. DOMAIN listeners = Strm
    BY <1>1 DEF Types
  <2> QED
    BY <1>2, <1>3, <2>1
<1>8. /\ rpc'[Populate] = "load" /\ op'[Populate] = "depleted" /\ cur'[Populate] = "in"
      /\ asking'[Populate] = asking[Populate]
      /\ rpc' = [rpc EXCEPT ![Populate] = rpc'[Populate]]
      /\ op' = [op EXCEPT ![Populate] = op'[Populate]]
      /\ cur' = [cur EXCEPT ![Populate] = cur'[Populate]]
  BY <1>1, <1>2, <1>3, SetOf
<1>9. FrameStep(Populate)
  <2>1. rpc'[Populate] \in Steps
    BY <1>8 DEF Steps, Waiting
  <2> QED
    BY <1>1, <1>2, <1>3, <1>8, <2>1, SameOf DEF FrameStep
<1>10. \A t \in Reader : t # Populate => FrameKept(t) /\ rpc'[t] = rpc[t]
  BY <1>1, <1>2, <1>9, FramesOf DEF FrameKept
<1>11. /\ Placed' /\ Sweeps'
       /\ list' \in [Strm -> Seq(Element)] /\ wpc'["out"] = "first"
       /\ wpc' \in [Strm -> {"idle", "first", "loop", "join", "destroy"}] /\ iter' \in [Strm -> Nat]
       /\ \A i, j \in DOMAIN list'["out"] :
             list'["out"][i] = GIVEN /\ list'["out"][j] = GIVEN => i = j
       /\ \A s \in {"in", "proxy"} : \A i \in DOMAIN list'[s] : list'[s][i] # GIVEN
       /\ Given'
       /\ \A s \in Strm : s # "out" => wpc'[s] = wpc[s] /\ list'[s] = list[s]
  <2>1. \A t \in Port : rpc'[t] = rpc[t]
    BY <1>10, Constants
  <2>2. \A i \in Ports("proxy") : listeners'["proxy"][i] = 0
    BY <1>7
  <2>3. over' = over
    BY <1>3
  <2> QED
    BY <1>2, <1>3, <1>4, <1>7, <2>1, <2>2, <2>3, LinkParts
<1>12. Types'
  <2>1. \A s \in Strm : listeners'[s] \in Location(s)'
    <3> SUFFICES ASSUME NEW s \in Strm PROVE listeners'[s] \in Location(s)'
      OBVIOUS
    <3>1. Location(s)' = [Ports(s) -> Nat \cup {NULL}]
      BY <1>6 DEF Location
    <3>2. CASE s = "proxy"
      BY <1>7, <3>1, <3>2
    <3>3. CASE s # "proxy"
      BY <1>1, <1>7, <3>1, <3>3 DEF Types, Location
    <3> QED
      BY <3>2, <3>3
  <2>2. /\ off' \in [Strm -> BOOLEAN] /\ cancelling' \in BOOLEAN /\ took' \in [Port -> Nat]
        /\ promised' \in [Port -> BOOLEAN] /\ ret' \in Element \cup {NULL}
        /\ max_ports' \in OutPorts /\ freed' \in [Strm -> Nat]
        /\ proxy' \in {"none", "live", "deleted"}
    BY <1>1, <1>3, <1>5 DEF Types
  <2> QED
    BY <1>1, <1>2, <1>7, <1>9, <1>11, <2>1, <2>2, FramesOf DEF Types
<1>13. Gift'
  <2>1. wpc'["proxy"] = "idle"
    BY <1>2, <1>4, <1>11
  <2>2. \A i \in Ports("proxy") : listeners'["proxy"][i] # NULL
    BY <1>7, Constants
  <2>3. \A i \in Ports("in") : listeners'["in"][i] # NULL
    BY <1>1, <1>2, <1>4, <1>7 DEF Gift
  <2>4. /\ proxy' = "live" /\ max_ports' > 1 /\ rpc'[Populate] = "load"
        /\ Ports("in")' = Ports("in") /\ Ports("proxy")' = Ports("proxy")
    BY <1>2, <1>3, <1>5, <1>6, <1>8
  <2> QED
    BY <1>11, <2>1, <2>2, <2>3, <2>4 DEF Gift
<1>14. ASSUME NEW t \in Reader, t # Populate PROVE Reads(t)'
  <2>1. list' = [list EXCEPT !["out"] = Append(@, GIVEN)]
    BY <1>3 DEF Link
  <2>2. InUse(t) => cur[t] # "proxy"
    BY <1>4, <1>14 DEF Safe, Reads
  <2>3. \A s \in Strm : \A i \in Ports(s) : Holds(t, s, i) => listeners'[s][i] = listeners[s][i]
    BY <1>7, <1>14, <2>2 DEF Holds
  <2> QED
    BY <1>2, <1>5, <1>10, <1>14, <2>1, <2>2, <2>3, KeptLink
<1>15. Reads(Populate)'
  <2>1. ~asking[Populate]
    BY <1>2 DEF Safe, Reads
  <2> QED
    BY <1>3, <1>8, <2>1 DEF Reads, Waiting
<1> QED
  BY <1>11, <1>12, <1>13, <1>14, <1>15 DEF Safe
\* populate puts what it took in the proxy.
LEMMA PopulatePutSafe ==
    ASSUME BroadcastAssumption, Safe, PopulatePut
    PROVE  Safe'
<1> DEFINE t == Populate
<1>1. /\ Running /\ rpc[t] = "put" /\ Link("proxy", ret) /\ ret' = NULL
      /\ rpc' = [rpc EXCEPT ![t] = "sweep"]
      /\ listeners' = listeners /\ proxy' = proxy /\ op' = op /\ cur' = cur /\ asking' = asking
      /\ node' = node /\ closed' = closed
      /\ UNCHANGED <<off, cancelling, took, promised, over>>
  BY DEF PopulatePut, To
<1>2. /\ Types /\ Gift /\ Placed /\ Sweeps /\ Reads(t) /\ t \in Reader /\ proxy = "live"
      /\ ret \in Element /\ ret # GIVEN
      /\ "proxy" \in Strm /\ "in" \in Strm /\ "out" \in Strm
  <2>1. rpc[t] \in {"put", "sweep", "cleanup"} \cup Waiting
    BY <1>1
  <2>2. Types /\ Gift /\ Reads(t) /\ t \in Reader /\ proxy = "live"
    BY <2>1, PopulateOf
  <2>3. ret \in Element /\ ret # GIVEN
    BY <1>1, <2>2 DEF Reads
  <2> QED
    BY <2>2, <2>3 DEF Safe, Strm
<1>3. max_ports' = max_ports /\ freed' = freed /\ list' = [list EXCEPT !["proxy"] = Append(@, ret)]
  BY <1>1 DEF Link
<1>4. rpc'[t] = "sweep" /\ rpc' = [rpc EXCEPT ![t] = rpc'[t]]
  BY <1>1, <1>2, SetOf
<1>5. FrameStep(t)
  <2>1. rpc'[t] \in Steps
    BY <1>4 DEF Steps
  <2> QED
    BY <1>1, <1>2, <1>4, <2>1, SameOf DEF FrameStep
<1>6. \A u \in Reader : u # t => FrameKept(u) /\ rpc'[u] = rpc[u]
  BY <1>2, <1>5, FramesOf DEF FrameKept
<1>7. /\ Placed' /\ Sweeps'
      /\ list' \in [Strm -> Seq(Element)]
      /\ wpc' \in [Strm -> {"idle", "first", "loop", "join", "destroy"}] /\ iter' \in [Strm -> Nat]
      /\ \A i, j \in DOMAIN list'["out"] :
            list'["out"][i] = GIVEN /\ list'["out"][j] = GIVEN => i = j
      /\ \A s \in {"in", "proxy"} : \A i \in DOMAIN list'[s] : list'[s][i] # GIVEN
      /\ Given' <=> Given
  <2>1. \A u \in Port : rpc'[u] = rpc[u]
    BY <1>6, Constants
  <2>2. over' = over
    BY <1>1
  <2> QED
    BY <1>1, <1>2, <2>1, <2>2, LinkParts
<1>8. Types'
  <2>1. \A s \in Strm : Location(s)' = Location(s)
    BY <1>3 DEF Location, Ports
  <2>2. /\ off' \in [Strm -> BOOLEAN] /\ cancelling' \in BOOLEAN /\ took' \in [Port -> Nat]
        /\ promised' \in [Port -> BOOLEAN]
        /\ max_ports' \in OutPorts /\ freed' \in [Strm -> Nat]
        /\ proxy' \in {"none", "live", "deleted"}
    BY <1>1, <1>2, <1>3 DEF Types
  <2>3. ret' \in Element \cup {NULL}
    BY <1>1
  <2>4. listeners' = [s \in Strm |-> listeners'[s]] /\ \A s \in Strm : listeners'[s] \in Location(s)'
    BY <1>1, <1>2, <2>1 DEF Types
  <2> QED
    BY <1>2, <1>5, <1>7, <2>2, <2>3, <2>4, FramesOf DEF Types
<1>9. Gift'
  <2>1. \A s \in Strm : Ports(s)' = Ports(s)
    BY <1>3 DEF Ports
  <2> QED
    BY <1>1, <1>2, <1>3, <1>4, <1>7, <2>1 DEF Gift
<1>10. ASSUME NEW u \in Reader, u # t PROVE Reads(u)'
  BY <1>1, <1>2, <1>3, <1>6, <1>10, KeptLink
<1>11. Reads(t)'
  BY <1>1, <1>2, <1>4 DEF Reads, Waiting
<1> QED
  BY <1>7, <1>8, <1>9, <1>10, <1>11 DEF Safe

\* listen and cancel set the location of a port whose thread is in no call.
LEMMA PortSafe ==
    ASSUME BroadcastAssumption, Safe, Running, NEW i \in Port, i \in Ports("out"), rpc[i] = "idle",
           NEW n \in {0, NULL}, MoveTo("out", i, n),
           n = 0 => wpc["out"] = "idle",
           UNCHANGED <<max_ports, nodes, proxy, writing, cancelling, frame, ret, promised, over>>,
           took' \in [Port -> Nat]
    PROVE  Safe'
<1>1. Types /\ Gift /\ Placed /\ Sweeps /\ "out" \in Strm /\ "in" \in Strm /\ "proxy" \in Strm
  BY DEF Safe, Strm
<1>2. /\ UNCHANGED <<max_ports, list, freed, off, proxy, wpc, iter, cancelling>>
      /\ UNCHANGED <<rpc, op, cur, asking, node, closed, ret, promised, over>>
  BY DEF nodes, frame, writing
<1>3. n \in Nat \cup {NULL} /\ NULL # 0
  BY Constants
<1>4. /\ listeners' = [r \in Strm |-> listeners'[r]]
      /\ \A r \in Strm : Ports(r)' = Ports(r) /\ listeners'[r] \in Location(r)'
      /\ listeners'["out"][i] = n
      /\ \A r \in Strm : \A j \in Ports(r) :
            r # "out" \/ j # i => listeners'[r][j] = listeners[r][j]
  BY <1>1, <1>2, <1>3, MoveOf
<1>5. Types'
  BY <1>1, <1>2, <1>4 DEF Types
<1>6. Placed'
  <2> SUFFICES ASSUME NEW r \in Strm, NEW j \in Ports(r), listeners'[r][j] # NULL
               PROVE  /\ listeners'[r][j] <= Len(list[r])
                      /\ listeners'[r][j] = 0 \/ listeners'[r][j] > freed[r]
                      /\ listeners'[r][j] = 0 /\ r # "out" => freed[r] = 0
    BY <1>2, <1>4 DEF Placed
  <2>1. CASE r = "out" /\ j = i
    <3>1. listeners'[r][j] = 0
      BY <1>4, <2>1
    <3>2. Len(list[r]) \in Nat
      BY <1>1, ListOf
    <3> QED
      BY <2>1, <3>1, <3>2
  <2>2. CASE r # "out" \/ j # i
    BY <1>1, <1>4, <2>2 DEF Placed
  <2> QED
    BY <2>1, <2>2
<1>7. Sweeps'
  <2> SUFFICES ASSUME NEW s \in Strm PROVE Swept(s)'
    BY DEF Sweeps
  <2>1. Swept(s)
    BY <1>1 DEF Sweeps
  <2>2. HasProxy("out", freed["out"] + 1)' <=> HasProxy("out", freed["out"] + 1)
    BY <1>2 DEF HasProxy
  <2>3. wpc[s] \in {"loop", "join"} => \A j \in Ports(s) : listeners'[s][j] # 0
    BY <1>3, <1>4, <2>1 DEF Swept
  <2>4. wpc[s] = "join" =>
          \A j \in Ports("out") : listeners'["out"][j] # NULL => listeners'["out"][j] > freed["out"] + 1
    <3>1. wpc[s] = "join" => listeners'["out"][i] = NULL
      BY <1>4, <2>1 DEF Swept
    <3> QED
      BY <1>1, <1>4, <2>1, <3>1 DEF Swept
  <2>5. Ports(s)' = Ports(s) /\ Ports("out")' = Ports("out")
    BY <1>1, <1>4
  <2> QED
    BY <1>2, <2>1, <2>2, <2>3, <2>4, <2>5 DEF Swept
<1>8. Gift'
  <2>1. Given' <=> Given
    BY <1>2 DEF Given
  <2>2. \A r \in {"in", "proxy"} : \A j \in Ports(r) : listeners'[r][j] = listeners[r][j]
    BY <1>1, <1>4
  <2>3. Ports("in")' = Ports("in") /\ Ports("proxy")' = Ports("proxy")
    BY <1>1, <1>4
  <2> QED
    BY <1>1, <1>2, <2>1, <2>2, <2>3 DEF Gift
<1>9. ASSUME NEW t \in Reader PROVE Reads(t)'
  <2>1. FrameKept(t)
    BY <1>2 DEF FrameKept
  <2>2. ASSUME NEW s \in Strm, NEW j \in Ports(s), Holds(t, s, j) PROVE listeners'[s][j] = listeners[s][j]
    <3>1. CASE s = "out" /\ j = i
      <4>1. InUse(t)
        BY <2>2 DEF Holds
      <4>2. Reads(t)
        BY DEF Safe
      <4>3. cur[t] # "in" => PortOf(t) = t
        BY <1>1, <4>1, <4>2, HeldOf
      <4>4. t = Populate => cur[t] = "in"
        BY <1>1, <4>1, <4>2, HeldOf
      <4>5. j = t
        BY <2>2, <3>1, <4>3, <4>4 DEF Holds
      <4> QED
        BY <3>1, <4>1, <4>5 DEF InUse
    <3>2. CASE s # "out" \/ j # i
      BY <1>4, <3>2
    <3> QED
      BY <3>1, <3>2
  <2> QED
    BY <1>2, <2>1, <2>2, KeptQuiet
<1> QED
  BY <1>5, <1>6, <1>7, <1>8, <1>9 DEF Safe

\* listen, cancel and close.
LEMMA ListenSafe ==
    ASSUME BroadcastAssumption, Safe, NEW i \in Port, Listen(i) \/ Cancel(i)
    PROVE  Safe'
<1>1. Types /\ "out" \in Strm /\ i \in Reader
  BY Constants DEF Safe, Strm
<1>2. CASE Listen(i)
  <2>1. /\ Running /\ wpc["out"] = "idle" /\ i \in Ports("out") /\ rpc[i] = "idle"
        /\ MoveTo("out", i, 0)
        /\ UNCHANGED <<max_ports, nodes, proxy, writing, cancelling, frame, ret, promised, over>>
    BY <1>2 DEF Listen, Writes, Free, MoveTo
  <2>2. took' \in [Port -> Nat]
    BY <1>1, <1>2 DEF Listen, Types
  <2> QED
    BY <2>1, <2>2, PortSafe
<1>3. CASE Cancel(i)
  <2>1. /\ Running /\ i \in Ports("out") /\ rpc[i] = "idle" /\ MoveTo("out", i, NULL)
        /\ UNCHANGED <<max_ports, nodes, proxy, writing, cancelling, frame, ret, promised, over>>
    BY <1>1, <1>3, AtStep DEF Cancel, MoveTo, nodes, At_
  <2>2. took' \in [Port -> Nat] /\ NULL # 0
    BY SMTT(30), <1>1, <1>3, Constants DEF Cancel, Types
  <2> QED
    BY <2>1, <2>2, PortSafe
<1> QED
  BY <1>2, <1>3

\* Closing leaves the lists and the threads alone.
LEMMA CloseSafe ==
    ASSUME BroadcastAssumption, Safe, NEW s \in {"out", "in"}, Close(s)
    PROVE  Safe'
<1>1. Types /\ s \in Strm
  BY DEF Safe, Strm
<1>2. /\ Running /\ off' = [off EXCEPT ![s] = TRUE]
      /\ UNCHANGED <<max_ports, list, freed, listeners, proxy, writing, cancelling, reading, over>>
  BY DEF Close, Writes
<1>3. UNCHANGED <<rpc, op, cur, asking, node, closed, ret, took, promised>>
  BY <1>2 DEF reading, frame
<1>4. Types'
  <2>1. \A r \in Strm : Location(r)' = Location(r)
    BY <1>2 DEF Location, Ports
  <2>2. wpc' = wpc /\ iter' = iter /\ off' \in [Strm -> BOOLEAN]
    BY <1>1, <1>2 DEF writing, Types
  <2> QED
    BY <1>1, <1>2, <1>3, <2>1, <2>2 DEF Types
<1>5. Placed' /\ Sweeps' /\ Gift'
  <2>1. PopulateKept /\ IdleKept
    BY <1>3 DEF PopulateKept, IdleKept
  <2> QED
    BY <1>2, <2>1, PartsKept
<1>6. ASSUME NEW t \in Reader PROVE Reads(t)'
  BY <1>2, <1>3, KeptQuiet DEF FrameKept
<1> QED
  BY <1>4, <1>5, <1>6 DEF Safe
-----------------------------------------------------------------------------
(***************************************************************************)
(* The sweep, and the destructor                                           *)
(***************************************************************************)
\* What a step of a writer that changes no frame keeps.
Writing ==
    /\ Running
    /\ UNCHANGED <<max_ports, list, off>> /\ UNCHANGED reading

\* A step that frees nothing and moves no listener, of the writer of s.
LEMMA SweepKept ==
    ASSUME BroadcastAssumption, Safe, NEW s \in Strm, Writing, over' = over,
           UNCHANGED <<freed, listeners, proxy>>, cancelling' \in BOOLEAN,
           wpc' = [wpc EXCEPT ![s] = wpc'[s]],
           wpc'[s] \in {"idle", "first", "loop", "join", "destroy"},
           iter' = [iter EXCEPT ![s] = iter'[s]], iter'[s] \in Nat,
           Swept(s)', wpc'["proxy"] # "idle" => wpc["proxy"] # "idle"
    PROVE  Safe'
<1>1. Types /\ Gift /\ Placed /\ Sweeps /\ "out" \in Strm /\ "in" \in Strm /\ "proxy" \in Strm
  BY DEF Safe, Strm
<1>2. /\ UNCHANGED <<max_ports, list, off, freed, listeners, proxy>>
      /\ UNCHANGED <<rpc, op, cur, asking, node, closed, ret, took, promised>>
  BY DEF Writing, reading, frame
<1>3. \A r \in Strm : Ports(r)' = Ports(r) /\ Location(r)' = Location(r)
  BY <1>2 DEF Ports, Location
<1>4. Types'
  <2>1. /\ wpc' \in [Strm -> {"idle", "first", "loop", "join", "destroy"}]
        /\ iter' \in [Strm -> Nat]
    BY <1>1 DEF Types
  <2>2. /\ max_ports' \in OutPorts /\ list' \in [Strm -> Seq(Element)] /\ freed' \in [Strm -> Nat]
        /\ off' \in [Strm -> BOOLEAN] /\ proxy' \in {"none", "live", "deleted"}
    BY <1>1, <1>2 DEF Types
  <2>3. listeners' = [r \in Strm |-> listeners'[r]] /\ \A r \in Strm : listeners'[r] \in Location(r)'
    BY <1>1, <1>2, <1>3 DEF Types
  <2>4. /\ rpc' \in [Reader -> Steps]
        /\ op' \in [Reader -> {"get", "peek", "skip", "depleted", "ready", "empty", NULL}]
        /\ cur' \in [Reader -> Strm] /\ asking' \in [Reader -> BOOLEAN] /\ node' \in [Reader -> Nat]
        /\ closed' \in [Reader -> BOOLEAN] /\ ret' \in Element \cup {NULL}
        /\ took' \in [Port -> Nat] /\ promised' \in [Port -> BOOLEAN]
    BY <1>1, <1>2 DEF Types
  <2> QED
    BY <2>1, <2>2, <2>3, <2>4 DEF Types
<1>5. Placed'
  BY <1>1, <1>2, <1>3 DEF Placed
<1>6. Sweeps'
  <2> SUFFICES ASSUME NEW r \in Strm, r # s PROVE Swept(r)'
    BY DEF Sweeps
  <2>1. Swept(r)
    BY <1>1 DEF Sweeps
  <2>2. HasProxy("out", freed["out"] + 1)' <=> HasProxy("out", freed["out"] + 1)
    BY <1>2 DEF HasProxy
  <2>3. wpc'[r] = wpc[r] /\ iter'[r] = iter[r]
    BY <1>1 DEF Types
  <2>4. wpc[r] = "join" => r = "out"
    BY <2>1 DEF Swept
  <2> QED
    BY <1>1, <1>2, <1>3, <2>1, <2>2, <2>3, <2>4 DEF Swept
<1>7. Gift'
  <2>1. Given' <=> Given
    BY <1>2 DEF Given
  <2> QED
    BY <1>1, <1>2, <1>3, <2>1 DEF Gift
<1>8. ASSUME NEW t \in Reader PROVE Reads(t)'
  BY <1>2, KeptQuiet DEF FrameKept
<1> QED
  BY <1>4, <1>5, <1>6, <1>7, <1>8 DEF Safe

\* Past the first node nobody is at the cell first; and the sweep stops.
LEMMA SweepFirstSafe ==
    ASSUME BroadcastAssumption, Safe, NEW s \in Strm, SweepFirst(s) \/ SweepStop(s)
    PROVE  Safe'
<1>1. Types /\ Swept(s)
  BY DEF Safe, Sweeps
<1>2. /\ Writing /\ over' = over /\ UNCHANGED <<freed, listeners, proxy>>
      /\ cancelling' = cancelling
      /\ wpc[s] \in {"first", "loop"}
  BY DEF SweepFirst, SweepStop, Sweeping, Writing
<1>3. cancelling' \in BOOLEAN
  BY <1>1, <1>2 DEF Types
<1>4. freed[s] \in Nat /\ Len(list[s]) \in Nat /\ iter[s] \in Nat /\ list' = list /\ freed' = freed
  BY <1>1, <1>2, ListOf DEF Types, Writing
<1>5. CASE SweepDone(s)
  <2>1. wpc' = [wpc EXCEPT ![s] = "idle"] /\ iter' = [iter EXCEPT ![s] = 0]
    BY <1>5 DEF SweepDone, WriterAt
  <2>2. wpc'[s] = "idle" /\ iter'[s] = 0
    BY <1>1, <2>1 DEF Types
  <2>3. Swept(s)'
    BY <1>1, <1>2, <1>4, <2>2 DEF Swept
  <2>4. wpc' = [wpc EXCEPT ![s] = wpc'[s]] /\ iter' = [iter EXCEPT ![s] = iter'[s]]
    BY <2>1, <2>2, Zenon
  <2>5. iter'[s] \in Nat
    BY <2>2
  <2>6. wpc'["proxy"] # "idle" => wpc["proxy"] # "idle"
    BY <1>1, <2>1, <2>2 DEF Types, Strm
  <2> QED
    BY <1>2, <1>3, <2>2, <2>3, <2>4, <2>5, <2>6, SweepKept
<1>6. CASE SweepFirst(s) /\ ~Reached(s)
  <2>1. /\ wpc' = [wpc EXCEPT ![s] = "loop"] /\ iter' = [iter EXCEPT ![s] = NextNode(s)]
        /\ wpc[s] = "first"
    BY <1>6 DEF SweepFirst, WriterAt, Sweeping
  <2>2. wpc'[s] = "loop" /\ iter'[s] = NextNode(s)
    BY <1>1, <2>1 DEF Types
  <2>3. /\ iter[s] = freed[s] + 1 /\ freed[s] < Len(list[s]) /\ list[s] # << >>
    <3>1. over = NULL
      BY <1>2 DEF Writing, Running
    <3>2. over # "gone"
      BY <3>1, Constants
    <3> QED
      BY <1>1, <2>1, <3>2 DEF Swept
  <2>4. iter'[s] = IF freed[s] + 1 < Len(list[s]) THEN freed[s] + 2 ELSE 0
    BY <1>4, <2>2, <2>3 DEF NextNode
  <2>5. ASSUME NEW i \in Ports(s), listeners[s][i] = 0 PROVE FALSE
    <3>1. At(s, listeners[s][i]) = freed[s] + 1
      BY <1>4, <2>3, <2>5 DEF At
    <3>2. listeners[s][i] # NULL
      BY <2>5, Constants
    <3> QED
      BY <1>6, <2>3, <3>1, <3>2 DEF Reached
  <2>6. Ports(s)' = Ports(s)
    BY <1>2 DEF Ports, Writing
  <2>7. Swept(s)'
    BY <1>1, <1>2, <1>4, <2>2, <2>3, <2>4, <2>5, <2>6 DEF Swept
  <2>8. wpc' = [wpc EXCEPT ![s] = wpc'[s]] /\ iter' = [iter EXCEPT ![s] = iter'[s]]
    BY <2>1, <2>2, Zenon
  <2>9. iter'[s] \in Nat
    BY <1>4, <2>4
  <2>10. wpc'["proxy"] # "idle" => wpc["proxy"] # "idle"
    BY <1>1, <2>1, <2>2 DEF Types, Strm
  <2> QED
    BY <1>2, <1>3, <2>2, <2>7, <2>8, <2>9, <2>10, SweepKept
<1> QED
  BY <1>5, <1>6 DEF SweepFirst, SweepStop

\* In a loop that goes on, every listener is past the node that is freed.
LEMMA PassedOf ==
    ASSUME BroadcastAssumption, Safe, NEW s \in Strm, wpc[s] = "loop", iter[s] # 0, ~Reached(s)
    PROVE  /\ freed[s] \in Nat /\ Len(list[s]) \in Nat /\ freed[s] + 1 < Len(list[s])
           /\ iter[s] = freed[s] + 2
           /\ \A i \in Ports(s) : /\ listeners[s][i] # 0
                                  /\ listeners[s][i] # NULL => listeners[s][i] > freed[s] + 1
<1>1. Types /\ Swept(s) /\ Placed
  BY DEF Safe, Sweeps
<1>2. /\ freed[s] \in Nat /\ Len(list[s]) \in Nat /\ freed[s] + 1 < Len(list[s])
      /\ iter[s] = freed[s] + 2 /\ \A i \in Ports(s) : listeners[s][i] # 0
  BY <1>1, ListOf DEF Swept
<1>3. ASSUME NEW i \in Ports(s), listeners[s][i] # NULL PROVE listeners[s][i] > freed[s] + 1
  <2>1. listeners[s][i] \in Nat /\ listeners[s][i] > freed[s]
    BY <1>1, <1>2, <1>3, LocationOf DEF Placed
  <2>2. CASE listeners[s][i] = freed[s] + 1
    <3>1. At(s, listeners[s][i]) = freed[s] + 2
      BY <1>2, <2>2 DEF At
    <3> QED
      BY <1>2, <1>3, <3>1 DEF Reached
  <2> QED
    BY <1>2, <2>1, <2>2
<1> QED
  BY <1>2, <1>3

\* A sweep frees the first node, alone or with its proxy.
LEMMA FreeSafe ==
    ASSUME BroadcastAssumption, Safe, NEW s \in Strm, Writing, over' = over,
           wpc[s] \in {"loop", "join"}, wpc' = [wpc EXCEPT ![s] = "loop"],
           iter[s] = freed[s] + 2, freed[s] + 1 < Len(list[s]), FreeFirst(s),
           \A i \in Ports(s) : listeners[s][i] # NULL => listeners[s][i] > freed[s] + 1,
           UNCHANGED <<listeners, cancelling>>,
           \/ proxy' = proxy
           \/ /\ s = "out" /\ HasProxy("out", freed["out"] + 1) /\ Joined /\ proxy' = "deleted"
    PROVE  Safe'
<1>1. Types /\ Gift /\ Placed /\ Sweeps /\ "out" \in Strm /\ "in" \in Strm /\ "proxy" \in Strm
  BY DEF Safe, Strm
<1>2. /\ UNCHANGED <<max_ports, list, off, listeners>>
      /\ UNCHANGED <<rpc, op, cur, asking, node, closed, ret, took, promised>>
  BY DEF Writing, reading, frame
<1>3. \A r \in Strm : Ports(r)' = Ports(r) /\ Location(r)' = Location(r)
  BY <1>2 DEF Ports, Location
<1>4. /\ freed' = [freed EXCEPT ![s] = freed[s] + 1] /\ iter' = [iter EXCEPT ![s] = NextNode(s)]
      /\ freed[s] \in Nat /\ Len(list[s]) \in Nat
  BY <1>1, ListOf DEF FreeFirst, Types
<1>5. /\ freed'[s] = freed[s] + 1 /\ wpc'[s] = "loop"
      /\ iter'[s] = IF freed[s] + 2 < Len(list[s]) THEN freed[s] + 3 ELSE 0
      /\ \A r \in Strm : r # s => freed'[r] = freed[r] /\ wpc'[r] = wpc[r] /\ iter'[r] = iter[r]
  <2>1. freed'[s] = freed[s] + 1 /\ wpc'[s] = "loop" /\ iter'[s] = NextNode(s)
    BY <1>1, <1>4 DEF Types
  <2>2. NextNode(s) = IF freed[s] + 2 < Len(list[s]) THEN freed[s] + 3 ELSE 0
    BY <1>4 DEF NextNode
  <2>3. \A r \in Strm : r # s => freed'[r] = freed[r] /\ wpc'[r] = wpc[r] /\ iter'[r] = iter[r]
    BY <1>1, <1>4 DEF Types
  <2> QED
    BY <2>1, <2>2, <2>3
<1>6. \A i \in Ports(s) : listeners[s][i] # 0
  BY <1>1 DEF Sweeps, Swept
<1>7. Types'
  <2>1. /\ wpc' \in [Strm -> {"idle", "first", "loop", "join", "destroy"}]
        /\ iter' \in [Strm -> Nat]
        /\ freed' \in [Strm -> Nat]
    <3>1. NextNode(s) \in Nat /\ freed[s] + 1 \in Nat
      BY <1>4 DEF NextNode
    <3> QED
      BY <1>1, <1>4, <3>1 DEF Types
  <2>2. /\ proxy' \in {"none", "live", "deleted"} /\ cancelling' \in BOOLEAN
        /\ max_ports' \in OutPorts /\ list' \in [Strm -> Seq(Element)] /\ off' \in [Strm -> BOOLEAN]
    BY <1>1, <1>2 DEF Types
  <2>3. listeners' = [r \in Strm |-> listeners'[r]] /\ \A r \in Strm : listeners'[r] \in Location(r)'
    BY <1>1, <1>2, <1>3 DEF Types
  <2>4. /\ rpc' \in [Reader -> Steps]
        /\ op' \in [Reader -> {"get", "peek", "skip", "depleted", "ready", "empty", NULL}]
        /\ cur' \in [Reader -> Strm] /\ asking' \in [Reader -> BOOLEAN] /\ node' \in [Reader -> Nat]
        /\ closed' \in [Reader -> BOOLEAN] /\ ret' \in Element \cup {NULL}
        /\ took' \in [Port -> Nat] /\ promised' \in [Port -> BOOLEAN]
    BY <1>1, <1>2 DEF Types
  <2> QED
    BY <2>1, <2>2, <2>3, <2>4 DEF Types
<1>8. Placed'
  <2> SUFFICES ASSUME NEW r \in Strm, NEW j \in Ports(r), listeners[r][j] # NULL
               PROVE  /\ listeners[r][j] <= Len(list[r])
                      /\ listeners[r][j] = 0 \/ listeners[r][j] > freed'[r]
                      /\ listeners[r][j] = 0 /\ r # "out" => freed'[r] = 0
    BY <1>2, <1>3 DEF Placed
  <2>1. CASE r = s
    BY <1>1, <1>5, <1>6, <2>1 DEF Placed
  <2>2. CASE r # s
    BY <1>1, <1>5, <2>2 DEF Placed
  <2> QED
    BY <2>1, <2>2
<1>9. Sweeps'
  <2> SUFFICES ASSUME NEW r \in Strm PROVE Swept(r)'
    BY DEF Sweeps
  <2>1. Swept(r)
    BY <1>1 DEF Sweeps
  <2>2. CASE r = s
    <3>1. /\ freed'[r] <= Len(list'[r]) /\ freed'[r] < Len(list'[r])
          /\ wpc'[r] = "loop" /\ list'[r] # << >>
          /\ iter'[r] = IF freed'[r] + 1 < Len(list'[r]) THEN freed'[r] + 2 ELSE 0
          /\ \A i \in Ports(r)' : listeners'[r][i] # 0
      <4>1. list'[r] = list[r] /\ list[r] # << >>
        BY <1>2, <2>1, <2>2 DEF Swept
      <4>2. \A i \in Ports(r)' : listeners'[r][i] # 0
        BY <1>2, <1>3, <1>6, <2>2
      <4>3. /\ freed'[r] = freed[s] + 1 /\ wpc'[r] = "loop"
            /\ iter'[r] = IF freed[s] + 2 < Len(list[s]) THEN freed[s] + 3 ELSE 0
        BY <1>5, <2>2
      <4> QED
        BY <1>4, <2>2, <4>1, <4>2, <4>3
    <3> QED
      BY <3>1 DEF Swept
  <2>3. CASE r # s
    <3>1. freed'[r] = freed[r] /\ wpc'[r] = wpc[r] /\ iter'[r] = iter[r] /\ list'[r] = list[r]
      BY <1>2, <1>5, <2>3
    <3>2. wpc[r] = "join" =>
            HasProxy("out", freed["out"] + 1)' /\ freed'["out"] = freed["out"] /\ r = "out"
      <4>1. wpc[r] = "join" => HasProxy("out", freed["out"] + 1) /\ r = "out"
        BY <2>1 DEF Swept
      <4> QED
        BY <1>2, <3>1, <4>1 DEF HasProxy
    <3>3. Ports(r)' = Ports(r) /\ Ports("out")' = Ports("out")
      BY <1>1, <1>3
    <3>4. wpc[r] = "destroy" => r = "out" /\ \A t \in Port : rpc'[t] = "idle"
      BY <1>2, <2>1 DEF Swept
    <3> QED
      BY <1>2, <2>1, <3>1, <3>2, <3>3, <3>4 DEF Swept
  <2> QED
    BY <2>2, <2>3
<1>10. Gift'
  <2>1. Given' <=> Given
    BY <1>2 DEF Given
  <2>2. freed'["out"] \in Nat /\ freed["out"] \in Nat /\ freed'["out"] >= freed["out"]
    BY <1>1, <1>4, <1>5, ListOf
  <2>3. proxy = "deleted" => \E i \in 1 .. freed'["out"] : list["out"][i] = GIVEN
    <3>1. 1 .. freed["out"] \subseteq 1 .. freed'["out"]
      BY <2>2
    <3> QED
      BY <1>1, <3>1 DEF Gift
  <2>4. wpc'["proxy"] # "idle" => wpc["proxy"] # "idle"
    BY <1>1, <1>5
  <2>5. CASE proxy' = proxy
    BY <1>1, <1>2, <1>3, <2>1, <2>3, <2>4, <2>5 DEF Gift
  <2>6. CASE proxy' # proxy
    <3>1. s = "out" /\ HasProxy("out", freed["out"] + 1) /\ Joined /\ proxy' = "deleted"
      BY <2>6
    <3>2. max_ports > 1 /\ list["out"][freed["out"] + 1] = GIVEN
      BY <3>1 DEF HasProxy
    <3>3. freed["out"] + 1 \in 1 .. Len(list["out"])
      BY <1>4, <3>1
    <3>4. Given
      BY <3>2, <3>3 DEF Given, Contains
    <3>5. proxy # "none"
      BY <1>1, <3>2, <3>4 DEF Gift
    <3>6. \E i \in 1 .. freed'["out"] : list["out"][i] = GIVEN
      <4>1. freed'["out"] = freed["out"] + 1 /\ freed["out"] + 1 \in 1 .. freed'["out"]
        BY <1>5, <2>2, <3>1
      <4> QED
        BY <3>2, <4>1
    <3>7. rpc[Populate] = "ended"
      BY <3>1 DEF Joined
    <3> QED
      BY <1>1, <1>2, <1>3, <2>1, <2>4, <3>1, <3>2, <3>4, <3>5, <3>6, <3>7 DEF Gift
  <2> QED
    BY <2>5, <2>6
<1>11. ASSUME NEW t \in Reader PROVE Reads(t)'
  <2>1. InUse(t) /\ (t = Populate \/ cur[t] = "proxy") => proxy' = proxy
    <3> SUFFICES ASSUME InUse(t), t = Populate \/ cur[t] = "proxy", proxy' # proxy PROVE FALSE
      OBVIOUS
    <3>1. s = "out" /\ HasProxy("out", freed["out"] + 1) /\ rpc[Populate] = "ended"
      BY DEF Joined
    <3>2. t # Populate
      BY <3>1 DEF InUse
    <3>3. /\ InGiven(t) /\ t \in Ports("out") /\ listeners["out"][t] \in Nat
          /\ listeners["out"][t] # NULL
      <4>1. Reads(t)
        BY DEF Safe
      <4>2. InGiven(t)
        BY <3>2, <4>1 DEF Reads
      <4> QED
        BY <1>1, <3>2, <4>1, <4>2, HeldOf, Constants
    <3>4. list["out"][freed["out"] + 1] = GIVEN
      BY <3>1 DEF HasProxy
    <3>5. /\ At("out", listeners["out"][t]) \in 1 .. Len(list["out"])
          /\ At("out", listeners["out"][t]) = listeners["out"][t] + 1
          /\ list["out"][At("out", listeners["out"][t])] = GIVEN
      BY <1>1, <1>6, <3>1, <3>3, AtOf DEF InGiven
    <3>6. At("out", listeners["out"][t]) = freed["out"] + 1
      <4>1. At("out", listeners["out"][t]) \in DOMAIN list["out"]
        BY <1>1, <3>5, ListOf
      <4>2. freed["out"] + 1 \in DOMAIN list["out"]
        BY <1>1, <1>4, <3>1, ListOf
      <4> QED
        BY <1>1, <3>4, <3>5, <4>1, <4>2 DEF Gift
    <3> QED
      BY <1>4, <3>1, <3>3, <3>5, <3>6
  <2>2. FrameKept(t)
    BY <1>2 DEF FrameKept
  <2>3. freed' = [freed EXCEPT ![s] = @ + 1]
    BY <1>4
  <2> QED
    BY <1>2, <1>6, <2>1, <2>2, <2>3, KeptFree
<1> QED
  BY <1>7, <1>8, <1>9, <1>10, <1>11 DEF Safe
\* The node behind everyone is freed.
LEMMA SweepFreeSafe ==
    ASSUME BroadcastAssumption, Safe, NEW s \in Strm, SweepFree(s)
    PROVE  Safe'
<1>1. Types
  BY DEF Safe
<1>2. /\ Writing /\ over' = over /\ wpc[s] = "loop" /\ iter[s] # 0 /\ ~Reached(s) /\ FreeFirst(s)
      /\ listeners' = listeners /\ proxy' = proxy /\ wpc' = wpc /\ cancelling' = cancelling
  BY DEF SweepFree, Passed, Sweeping, Writing
<1>3. /\ iter[s] = freed[s] + 2 /\ freed[s] + 1 < Len(list[s])
      /\ \A i \in Ports(s) : listeners[s][i] # NULL => listeners[s][i] > freed[s] + 1
  BY <1>2, PassedOf
<1>4. wpc' = [wpc EXCEPT ![s] = "loop"] /\ wpc[s] \in {"loop", "join"}
  BY <1>1, <1>2 DEF Types
<1> QED
  BY <1>2, <1>3, <1>4, FreeSafe

\* populate is told to end, and waited for.
LEMMA SweepCancelSafe ==
    ASSUME BroadcastAssumption, Safe, SweepCancel
    PROVE  Safe'
<1>1. Types /\ "out" \in Strm /\ Swept("out")
  BY DEF Safe, Strm, Sweeps
<1>2. /\ Writing /\ over' = over /\ wpc["out"] = "loop" /\ iter["out"] # 0 /\ ~Reached("out")
      /\ HasProxy("out", freed["out"] + 1) /\ wpc' = [wpc EXCEPT !["out"] = "join"]
      /\ UNCHANGED <<freed, listeners, proxy>> /\ iter' = iter /\ cancelling' = TRUE
  BY DEF SweepCancel, Passed, Sweeping, Writing, WriterAt
<1>3. \A i \in Ports("out") : listeners["out"][i] # NULL => listeners["out"][i] > freed["out"] + 1
  BY <1>1, <1>2, PassedOf
<1>4. wpc'["out"] = "join" /\ wpc'["proxy"] = wpc["proxy"]
  BY <1>1, <1>2 DEF Types, Strm
<1>5. wpc' = [wpc EXCEPT !["out"] = wpc'["out"]]
  BY <1>2, <1>4
<1>6. iter' = [iter EXCEPT !["out"] = iter'["out"]] /\ iter'["out"] \in Nat
  BY <1>1, <1>2 DEF Types
<1>7. Swept("out")'
  <2>1. list' = list /\ freed' = freed /\ listeners' = listeners /\ max_ports' = max_ports
    BY <1>2 DEF Writing
  <2>2. Ports("out")' = Ports("out") /\ HasProxy("out", freed["out"] + 1)'
    BY <1>2, <2>1 DEF Ports, HasProxy
  <2> QED
    BY <1>1, <1>2, <1>3, <1>4, <2>1, <2>2 DEF Swept
<1> QED
  BY <1>1, <1>2, <1>4, <1>5, <1>6, <1>7, SweepKept

\* populate has ended: its proxy and the node are freed.
LEMMA SweepJoinSafe ==
    ASSUME BroadcastAssumption, Safe, SweepJoin
    PROVE  Safe'
<1>1. Types /\ "out" \in Strm /\ Swept("out")
  BY DEF Safe, Strm, Sweeps
<1>2. /\ Writing /\ over' = over /\ wpc["out"] = "join" /\ FreeFirst("out")
      /\ wpc' = [wpc EXCEPT !["out"] = "loop"] /\ proxy' = "deleted" /\ Joined
      /\ UNCHANGED <<listeners, cancelling>>
  BY DEF SweepJoin, Sweeping, Writing, WriterAt
<1>3. /\ HasProxy("out", freed["out"] + 1) /\ iter["out"] # 0
      /\ \A i \in Ports("out") : listeners["out"][i] # NULL => listeners["out"][i] > freed["out"] + 1
      /\ iter["out"] = IF freed["out"] + 1 < Len(list["out"]) THEN freed["out"] + 2 ELSE 0
  BY <1>1, <1>2 DEF Swept
<1>4. iter["out"] = freed["out"] + 2 /\ freed["out"] + 1 < Len(list["out"])
  BY <1>3
<1>5. wpc["out"] \in {"loop", "join"}
  BY <1>2
<1> QED
  BY <1>1, <1>2, <1>3, <1>4, <1>5, FreeSafe

\* The destructor begins when nobody is in a call.
LEMMA DestroySafe ==
    ASSUME BroadcastAssumption, Safe, Destroy
    PROVE  Safe'
<1>1. Types /\ "out" \in Strm /\ Swept("out")
  BY DEF Safe, Strm, Sweeps
<1>2. /\ Writing /\ over' = over /\ wpc' = [wpc EXCEPT !["out"] = "destroy"]
      /\ UNCHANGED <<freed, listeners, proxy>> /\ iter' = iter /\ cancelling' \in BOOLEAN
      /\ \A t \in Port : rpc[t] = "idle"
  BY DEF Destroy, Sweeping, Writing, WriterAt
<1>3. wpc'["out"] = "destroy" /\ wpc'["proxy"] = wpc["proxy"]
  BY <1>1, <1>2 DEF Types, Strm
<1>4. wpc' = [wpc EXCEPT !["out"] = wpc'["out"]]
  BY <1>2, <1>3
<1>5. iter' = [iter EXCEPT !["out"] = iter'["out"]] /\ iter'["out"] \in Nat
  BY <1>1, <1>2 DEF Types
<1>6. Swept("out")'
  <2>1. list' = list /\ freed' = freed /\ rpc' = rpc
    BY <1>2 DEF Writing, reading, frame
  <2> QED
    BY <1>1, <1>2, <1>3, <2>1 DEF Swept
<1> QED
  BY <1>1, <1>2, <1>3, <1>4, <1>5, <1>6, SweepKept

\* It frees every node, and the proxy once populate has ended.
LEMMA DestroyedSafe ==
    ASSUME BroadcastAssumption, Safe, Destroyed
    PROVE  Safe'
<1>1. Types /\ Gift /\ Placed /\ Sweeps /\ "out" \in Strm /\ "in" \in Strm /\ "proxy" \in Strm
  BY DEF Safe, Strm
<1>2. /\ Running /\ wpc["out"] = "destroy" /\ (proxy = "live" => rpc[Populate] = "ended")
      /\ max_ports' = max_ports /\ list' = list /\ off' = off
      /\ freed' = [freed EXCEPT !["out"] = Len(list["out"])]
      /\ listeners' = [listeners EXCEPT !["out"] = [i \in Ports("out") |-> NULL]]
      /\ proxy' = (IF proxy = "live" THEN "deleted" ELSE proxy)
      /\ over' = "gone" /\ wpc' = [wpc EXCEPT !["out"] = "idle"]
      /\ UNCHANGED <<iter, cancelling>>
      /\ UNCHANGED <<rpc, op, cur, asking, node, closed, ret, took, promised>>
  BY DEF Destroyed, Sweeping, WriterAt, Joined, reading, frame
<1>3. \A t \in Port : rpc[t] = "idle"
  BY <1>1, <1>2 DEF Sweeps, Swept
<1>4. \A s \in Strm : Ports(s)' = Ports(s) /\ Location(s)' = Location(s)
  BY <1>2 DEF Ports, Location
<1>5. /\ freed'["out"] = Len(list["out"]) /\ Len(list["out"]) \in Nat /\ freed["out"] \in Nat
      /\ freed["out"] <= Len(list["out"])
      /\ \A s \in Strm : s # "out" => freed'[s] = freed[s] /\ wpc'[s] = wpc[s]
      /\ wpc'["out"] = "idle"
  BY <1>1, <1>2, ListOf DEF Types, Sweeps, Swept
<1>6. /\ listeners'["out"] = [i \in Ports("out") |-> NULL]
      /\ \A s \in Strm : s # "out" => listeners'[s] = listeners[s]
      /\ listeners' = [s \in Strm |-> listeners'[s]]
  <2>1. DOMAIN listeners = Strm
    BY <1>1 DEF Types
  <2> QED
    BY <1>1, <1>2, <2>1
<1>7. Types'
  <2>1. \A s \in Strm : listeners'[s] \in Location(s)'
    <3> SUFFICES ASSUME NEW s \in Strm PROVE listeners'[s] \in Location(s)'
      OBVIOUS
    <3>1. Location(s)' = [Ports(s) -> Nat \cup {NULL}]
      BY <1>4 DEF Location
    <3>2. CASE s = "out"
      BY <1>6, <3>1, <3>2
    <3>3. CASE s # "out"
      BY <1>1, <1>6, <3>1, <3>3 DEF Types, Location
    <3> QED
      BY <3>2, <3>3
  <2>2. /\ max_ports' \in OutPorts /\ list' \in [Strm -> Seq(Element)] /\ freed' \in [Strm -> Nat]
        /\ off' \in [Strm -> BOOLEAN] /\ proxy' \in {"none", "live", "deleted"}
        /\ cancelling' \in BOOLEAN
        /\ wpc' \in [Strm -> {"idle", "first", "loop", "join", "destroy"}]
        /\ iter' \in [Strm -> Nat]
    BY <1>1, <1>2, <1>5 DEF Types
  <2>3. /\ rpc' \in [Reader -> Steps]
        /\ op' \in [Reader -> {"get", "peek", "skip", "depleted", "ready", "empty", NULL}]
        /\ cur' \in [Reader -> Strm] /\ asking' \in [Reader -> BOOLEAN] /\ node' \in [Reader -> Nat]
        /\ closed' \in [Reader -> BOOLEAN] /\ ret' \in Element \cup {NULL}
        /\ took' \in [Port -> Nat] /\ promised' \in [Port -> BOOLEAN]
    BY <1>1, <1>2 DEF Types
  <2> QED
    BY <1>6, <2>1, <2>2, <2>3 DEF Types
<1>8. Placed'
  <2> SUFFICES ASSUME NEW s \in Strm, NEW i \in Ports(s), listeners'[s][i] # NULL
               PROVE  /\ listeners'[s][i] <= Len(list[s])
                      /\ listeners'[s][i] = 0 \/ listeners'[s][i] > freed'[s]
                      /\ listeners'[s][i] = 0 /\ s # "out" => freed'[s] = 0
    BY <1>2, <1>4 DEF Placed
  <2>1. s # "out"
    BY <1>6
  <2> QED
    BY <1>1, <1>5, <1>6, <2>1 DEF Placed
<1>9. Sweeps'
  <2> SUFFICES ASSUME NEW s \in Strm PROVE Swept(s)'
    BY DEF Sweeps
  <2>1. Swept(s)
    BY <1>1 DEF Sweeps
  <2>2. CASE s = "out"
    BY <1>2, <1>5, <2>2 DEF Swept
  <2>3. CASE s # "out"
    <3>1. freed'[s] = freed[s] /\ wpc'[s] = wpc[s] /\ listeners'[s] = listeners[s]
          /\ Ports(s)' = Ports(s)
      BY <1>4, <1>5, <1>6, <2>3
    <3>2. wpc[s] # "join" /\ wpc[s] # "destroy"
      BY <2>1, <2>3 DEF Swept
    <3> QED
      BY <1>2, <2>1, <3>1, <3>2 DEF Swept
  <2> QED
    BY <2>2, <2>3
<1>10. Gift'
  <2>1. Given' <=> Given
    BY <1>2 DEF Given
  <2>2. proxy # "none" => \E i \in 1 .. freed'["out"] : list["out"][i] = GIVEN
    BY <1>1, <1>5 DEF Gift, Given, Contains
  <2>3. proxy' = "deleted" => rpc[Populate] = "ended"
    BY <1>1, <1>2 DEF Gift
  <2>4. \A s \in {"in", "proxy"} : Ports(s)' = Ports(s) /\ listeners'[s] = listeners[s]
    BY <1>1, <1>4, <1>6
  <2>5. wpc'["proxy"] = wpc["proxy"]
    BY <1>1, <1>5
  <2>6. (proxy' # "none" <=> proxy # "none") /\ (proxy' = "deleted" => proxy # "none")
    BY <1>2
  <2> QED
    BY <1>1, <1>2, <2>1, <2>2, <2>3, <2>4, <2>5, <2>6 DEF Gift
<1>11. ASSUME NEW t \in Reader PROVE Reads(t)'
  <2>1. ~InUse(t)
    <3>1. CASE t = Populate
      <4>1. Reads(t)
        BY DEF Safe
      <4>2. rpc[t] \in {"none", "ended"}
        <5>1. proxy # "live" => rpc[t] \in {"none", "ended"}
          BY <1>1, <3>1 DEF Gift, Types
        <5> QED
          BY <1>2, <3>1, <5>1
      <4> QED
        BY <4>2 DEF InUse
    <3>2. CASE t # Populate
      BY <1>3, <3>2, Constants DEF InUse
    <3> QED
      BY <3>1, <3>2
  <2>2. FrameKept(t)
    BY <1>2 DEF FrameKept
  <2>3. Reads(t)
    BY DEF Safe
  <2> QED
    BY <1>1, <1>2, <2>1, <2>2, <2>3, ReadsKept DEF Holds
<1> QED
  BY <1>7, <1>8, <1>9, <1>10, <1>11 DEF Safe
-----------------------------------------------------------------------------
(***************************************************************************)
(* Memory safety                                                           *)
(***************************************************************************)
\* In the first state nothing is put and nobody listens to out.
LEMMA InitSafe ==
    ASSUME BroadcastAssumption, Init
    PROVE  Safe
<1>1. /\ max_ports \in OutPorts /\ list = [s \in Strm |-> << >>] /\ freed = [s \in Strm |-> 0]
      /\ off = [s \in Strm |-> FALSE]
      /\ listeners = [s \in Strm |-> [i \in Ports(s) |-> IF s = "in" THEN 0 ELSE NULL]]
      /\ proxy = "none" /\ cancelling = FALSE /\ over = NULL
      /\ wpc = [s \in Strm |-> "idle"] /\ iter = [s \in Strm |-> 0]
      /\ rpc = [t \in Reader |-> IF t = Populate THEN "none" ELSE "idle"]
      /\ op = [t \in Reader |-> NULL] /\ cur = [t \in Reader |-> "out"]
      /\ asking = [t \in Reader |-> FALSE] /\ node = [t \in Reader |-> 0]
      /\ closed = [t \in Reader |-> FALSE] /\ ret = NULL
      /\ took = [i \in Port |-> 0] /\ promised = [i \in Port |-> FALSE]
  BY DEF Init
<1>2. "out" \in Strm /\ "in" \in Strm /\ "proxy" \in Strm /\ Populate \in Reader
  BY Constants DEF Strm
<1>3. Types
  <2>1. \A s \in Strm : listeners[s] \in Location(s)
    BY <1>1 DEF Location
  <2>2. /\ off \in [Strm -> BOOLEAN] /\ proxy \in {"none", "live", "deleted"}
        /\ cancelling \in BOOLEAN
        /\ wpc \in [Strm -> {"idle", "first", "loop", "join", "destroy"}]
    BY <1>1
  <2>6. freed \in [Strm -> Nat] /\ iter \in [Strm -> Nat]
    BY <1>1
  <2>7. list \in [Strm -> Seq(Element)]
    BY <1>1
  <2>8. listeners = [s \in Strm |-> listeners[s]]
    BY <1>1, Zenon
  <2>3. rpc \in [Reader -> Steps]
    BY <1>1 DEF Steps
  <2>4. /\ op \in [Reader -> {"get", "peek", "skip", "depleted", "ready", "empty", NULL}]
        /\ cur \in [Reader -> Strm] /\ asking \in [Reader -> BOOLEAN]
        /\ closed \in [Reader -> BOOLEAN] /\ ret \in Element \cup {NULL}
        /\ promised \in [Port -> BOOLEAN]
    BY <1>1, <1>2
  <2>5. node \in [Reader -> Nat] /\ took \in [Port -> Nat]
    BY <1>1
  <2> QED
    BY <1>1, <2>1, <2>2, <2>3, <2>4, <2>5, <2>6, <2>7, <2>8 DEF Types
<1>4. Placed
  BY <1>1, <1>3, LocationOf, ListOf DEF Placed
<1>5. Sweeps
  BY <1>1 DEF Sweeps, Swept
<1>6. Gift
  <2>1. ~Given
    BY <1>1, <1>2 DEF Given, Contains
  <2>2. \A i \in Ports("in") : listeners["in"][i] # NULL
    BY <1>1, <1>2, Constants
  <2>3. \A s \in Strm : DOMAIN list[s] = {}
    BY <1>1
  <2> QED
    BY <1>1, <1>2, <2>1, <2>2, <2>3 DEF Gift
<1>7. ASSUME NEW t \in Reader PROVE Reads(t)
  <2>1. CASE t = Populate
    BY <1>1, <2>1 DEF Reads, Waiting
  <2>2. CASE t # Populate
    <3>1. rpc[t] = "idle" /\ cur[t] = "out" /\ asking[t] = FALSE
      BY <1>1, <2>2
    <3> QED
      BY <2>2, <3>1 DEF Reads, Waiting, Looking, Asking
  <2> QED
    BY <2>1, <2>2
<1> QED
  BY <1>3, <1>4, <1>5, <1>6, <1>7 DEF Safe

\* Every step keeps it.
LEMMA NextSafe ==
    ASSUME BroadcastAssumption, Safe, Next
    PROVE  Safe'
<1>1. CASE \E s \in {"out", "in"} : Put(s) \/ Close(s) \/ Sweep(s)
  <2>1. PICK s \in {"out", "in"} : Put(s) \/ Close(s) \/ Sweep(s)
    BY <1>1
  <2>2. s \in Strm
    BY DEF Strm
  <2> QED
    BY <2>1, <2>2, PutSafe, CloseSafe, SweepFirstSafe, SweepFreeSafe DEF Sweep
<1>2. CASE GiveOne \/ GiveAll \/ WriteOut \/ Destroy
  BY <1>2, PutSafe, GiveAllSafe, SweepCancelSafe, SweepJoinSafe, DestroySafe, DestroyedSafe
     DEF WriteOut
<1>3. ASSUME NEW t \in Port, \/ Listen(t) \/ Cancel(t) \/ Listening(t)
                             \/ \E o \in Calls[max_ports] : Call(t, o)
      PROVE  Safe'
  <2>1. t \in Reader
    BY Constants
  <2>2. CASE Listen(t) \/ Cancel(t)
    BY <2>2, ListenSafe
  <2>3. CASE Listening(t)
    <3>1. "ready" \in {"ready", "empty"} /\ "empty" \in {"ready", "empty"}
      OBVIOUS
    <3> QED
      BY <2>1, <2>3, <3>1, WaitSafe, EndSafe, EndOfGivenSafe, EnterGivenSafe, AskedGivenSafe,
         FoundSafe,
         LookSafe, LookingSafe, LookPastSafe DEF Listening
  <2>4. CASE \E o \in Calls[max_ports] : Call(t, o)
    <3>1. PICK o \in Calls[max_ports] : Call(t, o)
      BY <2>4
    <3>2. o \in {"get", "peek", "skip", "depleted", "ready", "empty"}
      BY DEF BroadcastAssumption, Safe, Types
    <3> QED
      BY <3>1, <3>2, CallSafe
  <2> QED
    BY <1>3, <2>2, <2>3, <2>4
<1>4. CASE Populating
  <2>1. Populate \in Reader /\ "proxy" \in Strm
    BY Constants DEF Strm
  <2> QED
    BY <1>4, <2>1, WaitSafe, PopulateFoundSafe, PopulatePutSafe, PopulateNextSafe,
       PopulateCleanupSafe,
       SweepFirstSafe, SweepFreeSafe DEF Populating, Sweep
<1> QED
  BY <1>1, <1>2, <1>3, <1>4 DEF Next

\* Nothing changes in a step that stutters.
LEMMA StutterSafe ==
    ASSUME BroadcastAssumption, Safe, UNCHANGED vars
    PROVE  Safe'
<1>1. /\ UNCHANGED <<max_ports, list, freed, off, listeners, proxy, wpc, iter, cancelling, over>>
      /\ UNCHANGED <<rpc, op, cur, asking, node, closed, ret, took, promised>>
  BY DEF vars, nodes, writing, reading, frame
<1>2. Types'
  BY <1>1 DEF Safe, Types, Location, Ports
<1>3. Placed'
  BY <1>1 DEF Safe, Placed, Ports
<1>4. Sweeps'
  BY <1>1 DEF Safe, Sweeps, Swept, Ports, HasProxy
<1>5. Gift'
  BY <1>1 DEF Safe, Gift, Given, Ports
<1>6. ASSUME NEW t \in Reader PROVE Reads(t)'
  BY <1>1, KeptQuiet DEF FrameKept
<1> QED
  BY <1>2, <1>3, <1>4, <1>5, <1>6 DEF Safe

\* The invariant says what MemorySafe does.
LEMMA SafeImplies ==
    ASSUME BroadcastAssumption, Safe
    PROVE  MemorySafe
<1>1. Types /\ Gift /\ Placed /\ Sweeps
  BY DEF Safe
<1>2. \A s \in Strm : \A i \in Ports(s) :
         listeners[s][i] # NULL => listeners[s][i] = 0 \/ listeners[s][i] > freed[s]
  BY <1>1 DEF Placed
<1>3. \A s \in Strm : list[s] # << >> /\ over # "gone" => freed[s] < Len(list[s])
  BY <1>1 DEF Sweeps, Swept
<1>4. ASSUME NEW t \in Reader, rpc[t] = "have" PROVE node[t] > freed[cur[t]]
  <2>1. InUse(t) /\ Reads(t) /\ node[t] = Cell(t) /\ node[t] # 0
    BY <1>4 DEF InUse, Safe, Reads
  <2>2. cur[t] \in Strm /\ PortOf(t) \in Ports(cur[t]) /\ Loc(t) \in Nat
    BY <1>1, <2>1, HeldOf
  <2>3. Loc(t) # 0 => Loc(t) > freed[cur[t]]
    <3>1. Loc(t) # NULL
      BY <2>2, Constants
    <3> QED
      BY <1>1, <2>2, <3>1 DEF Placed, Loc
  <2>4. At(cur[t], Loc(t)) = (IF Loc(t) = 0 THEN freed[cur[t]] ELSE Loc(t)) + 1 /\ freed[cur[t]] \in Nat
    BY <1>1, <2>1, <2>2, AtOf, ListOf DEF Cell
  <2> QED
    BY <2>1, <2>2, <2>3, <2>4 DEF Cell
<1>5. ASSUME NEW t \in Reader, InUse(t), t = Populate \/ cur[t] = "proxy" PROVE proxy = "live"
  <2>1. Reads(t)
    BY DEF Safe
  <2>2. t = Populate => proxy = "live"
    BY <1>1, <1>5, <2>1, HeldOf
  <2>3. t # Populate => proxy = "live"
    BY <1>5, <2>1 DEF Reads
  <2> QED
    BY <2>2, <2>3
<1> QED
  BY <1>2, <1>3, <1>4, <1>5 DEF MemorySafe

\* The invariant holds in every state.
THEOREM Invariant ==
    Spec => []Safe
<1> USE BroadcastAssumption
<1>1. Init => Safe
  BY InitSafe
<1>2. Safe /\ [Next]_vars => Safe'
  BY NextSafe, StutterSafe
<1> QED
  BY <1>1, <1>2, PTL DEF Spec

\* A sweep frees only what every listener is past, a thread that has loaded a node
\* finds it there, and a proxy is deleted only when populate has ended and nobody is
\* in it: whatever the numbers of ports and nodes, and however the threads run.
THEOREM NothingFreedInUse ==
    Spec => []MemorySafe
<1> USE BroadcastAssumption
<1>1. Safe => MemorySafe
  BY SafeImplies
<1> QED
  BY <1>1, Invariant, PTL
-----------------------------------------------------------------------------
(***************************************************************************)
(* The numbers of ports                                                    *)
(***************************************************************************)
\* A set of natural numbers has a least one.
LEMMA LeastOf ==
    ASSUME NEW T, T \subseteq Nat, T # {}
    PROVE  \E n \in T : \A m \in T : n <= m
<1> DEFINE R == OpToRel(<, Nat)
<1>1. \E x \in T : \A y \in T : ~(<<y, x>> \in R)
  <2>1. IsWellFoundedOn(R, Nat)
    BY NatLessThanWellFounded
  <2> HIDE DEF R
  <2> QED
    BY <2>1, WFMin
<1>2. R = {ss \in Nat \X Nat : ss[1] < ss[2]}
  BY DEF OpToRel
<1>3. \A x, y \in Nat : <<y, x>> \in R <=> y < x
  <2> HIDE DEF R
  <2> QED
    BY <1>2
<1> HIDE DEF R
<1>4. PICK n \in T : \A m \in T : ~(<<m, n>> \in R)
  BY <1>1
<1>5. \A m \in T : ~(m < n)
  BY <1>3, <1>4
<1>6. \A m \in T : n <= m
  BY <1>5
<1> QED
  BY <1>6

\* A finite set of natural numbers has a greatest one.
LEMMA MaxOf ==
    ASSUME NEW S, IsFiniteSet(S), S \subseteq Nat, S # {}
    PROVE  Max(S) \in S /\ \A n \in S : n <= Max(S)
<1> DEFINE Bad(n) == \E U : IsFiniteSet(U) /\ U \subseteq Nat /\ U # {} /\ Cardinality(U) = n
                            /\ ~\E x \in U : \A y \in U : y <= x
           T == {n \in Nat : Bad(n)}
<1>1. T = {}
  <2> SUFFICES ASSUME T # {} PROVE FALSE
    OBVIOUS
  <2>1. PICK n \in T : \A m \in T : n <= m
    BY LeastOf
  <2>2. PICK U : /\ IsFiniteSet(U) /\ U \subseteq Nat /\ U # {} /\ Cardinality(U) = n
                 /\ ~\E x \in U : \A y \in U : y <= x
    BY <2>1
  <2>3. PICK x \in U : TRUE
    BY <2>2
  <2>4. /\ IsFiniteSet(U \ {x}) /\ Cardinality(U \ {x}) = n - 1 /\ U \ {x} \subseteq Nat
        /\ n - 1 \in Nat
    <3>1. IsFiniteSet(U \ {x}) /\ Cardinality(U \ {x}) = n - 1
      BY <2>2, <2>3, FS_RemoveElement
    <3> QED
      BY <2>2, <3>1, FS_CardinalityType
  <2>5. U \ {x} # {}
    BY <2>2, <2>3
  <2>6. n - 1 \notin T
    BY <2>1, <2>4
  <2>7. \E z \in U \ {x} : \A y \in U \ {x} : y <= z
    BY <2>4, <2>5, <2>6
  <2>8. PICK z \in U \ {x} : \A y \in U \ {x} : y <= z
    BY <2>7
  <2>9. \A y \in U : y <= IF x <= z THEN z ELSE x
    BY <2>2, <2>3, <2>8
  <2> QED
    BY <2>2, <2>3, <2>8, <2>9
<1>2. \E x \in S : \A y \in S : y <= x
  <2>1. Cardinality(S) \in Nat
    BY FS_CardinalityType
  <2> QED
    BY <1>1, <2>1
<1>3. \E x \in S : \A y \in S : x >= y
  BY <1>2
<1> QED
  BY <1>3 DEF Max

\* A port of the stream is one of those that are modelled.
LEMMA PortsOf ==
    ASSUME BroadcastAssumption, Safe, NEW i \in Ports("out")
    PROVE  i \in Port
<1>1. /\ max_ports \in OutPorts /\ OutPorts \subseteq Nat /\ IsFiniteSet(OutPorts)
      /\ i \in 0 .. max_ports - 1
  BY Constants DEF Safe, Types, BroadcastAssumption
<1>2. Max(OutPorts) \in Nat /\ max_ports <= Max(OutPorts)
  BY <1>1, MaxOf
<1> QED
  BY <1>1, <1>2 DEF Port
-----------------------------------------------------------------------------
(***************************************************************************)
(* What is to be read, and what a listener is past                         *)
(***************************************************************************)
GivenAt(g) == g \in 1 .. Len(list["out"]) /\ list["out"][g] = GIVEN

\* A listener is past the nodes before the one its location holds.
LEMMA PastOf ==
    ASSUME BroadcastAssumption, Safe, NEW s \in Strm, NEW i \in Ports(s), listeners[s][i] # NULL
    PROVE  /\ Past(s, i) \in Nat /\ Past(s, i) <= Len(list[s]) /\ Len(list[s]) \in Nat
           /\ At(s, listeners[s][i]) = IF Past(s, i) < Len(list[s]) THEN Past(s, i) + 1 ELSE 0
<1>1. Types /\ Placed /\ Swept(s)
  BY DEF Safe, Sweeps
<1>2. listeners[s][i] \in Nat /\ Len(list[s]) \in Nat /\ freed[s] \in Nat
  BY <1>1, LocationOf, ListOf
<1>3. listeners[s][i] <= Len(list[s]) /\ freed[s] <= Len(list[s])
  BY <1>1 DEF Placed, Swept
<1> QED
  BY SMTT(30), <1>2, <1>3 DEF Past, At

\* A listener is before the given stream when it is past the nodes before it.
LEMMA InGivenOf ==
    ASSUME BroadcastAssumption, Safe, NEW t \in Ports("out"), listeners["out"][t] # NULL
    PROVE  InGiven(t) <=> GivenAt(Past("out", t) + 1)
<1>1. "out" \in Strm
  BY DEF Strm
<1> QED
  BY <1>1, PastOf DEF InGiven, GivenAt

\* There is one given stream.
LEMMA GivenOnce ==
    ASSUME BroadcastAssumption, Safe
    PROVE  /\ Given <=> \E g : GivenAt(g)
           /\ \A g, h : GivenAt(g) /\ GivenAt(h) => g = h
           /\ \A g : GivenAt(g) => g \in Nat /\ g >= 1 /\ g <= Len(list["out"])
<1>1. DOMAIN list["out"] = 1 .. Len(list["out"]) /\ Len(list["out"]) \in Nat
  BY ListOf DEF Safe, Strm
<1> QED
  BY <1>1 DEF Safe, Gift, Given, GivenAt, Contains

\* The elements to be read are those before the given stream, its own, and, once it is
\* closed, those after it.
FlatIs ==
    /\ ~Given => Flat = list["out"]
    /\ \A g : GivenAt(g) =>
          /\ Len(Flat) = g - 1 + Len(list["in"])
                         + (IF off["in"] THEN Len(list["out"]) - g ELSE 0)
          /\ \A k \in 1 .. g - 1 : Flat[k] = list["out"][k]
          /\ \A k \in 1 .. Len(list["in"]) : Flat[g - 1 + k] = list["in"][k]
          /\ off["in"] => \A k \in g + 1 .. Len(list["out"]) :
                             Flat[k - 1 + Len(list["in"])] = list["out"][k]

\* What the concatenation of two lists holds.
LEMMA ConcatOf ==
    ASSUME NEW p \in Seq(Element), NEW q \in Seq(Element)
    PROVE  /\ p \o q \in Seq(Element) /\ Len(p \o q) = Len(p) + Len(q)
           /\ \A k \in 1 .. Len(p) : (p \o q)[k] = p[k]
           /\ \A k \in 1 .. Len(q) : (p \o q)[Len(p) + k] = q[k]
<1>1. \A k \in 1 .. Len(p) + Len(q) : (p \o q)[k] = IF k <= Len(p) THEN p[k] ELSE q[k - Len(p)]
  BY ConcatProperties
<1>2. ASSUME NEW k \in 1 .. Len(q) PROVE (p \o q)[Len(p) + k] = q[k]
  <2>1. /\ Len(p) \in Nat /\ Len(q) \in Nat
        /\ Len(p) + k \in 1 .. Len(p) + Len(q) /\ ~(Len(p) + k <= Len(p)) /\ Len(p) + k - Len(p) = k
    OBVIOUS
  <2> QED
    BY <1>1, <2>1
<1>3. \A k \in 1 .. Len(p) : (p \o q)[k] = p[k]
  BY <1>1
<1> QED
  BY <1>2, <1>3, ConcatProperties

\* Flat is put together so.
LEMMA FlatOf ==
    ASSUME BroadcastAssumption, Safe
    PROVE  FlatIs
<1> DEFINE q == list["out"]
           r == list["in"]
<1>1. /\ q \in Seq(Element) /\ Len(q) \in Nat /\ r \in Seq(Element) /\ Len(r) \in Nat
      /\ DOMAIN q = 1 .. Len(q)
  BY ListOf DEF Safe, Strm
<1>2. ASSUME ~Given PROVE Flat = q
  <2>1. {i \in 1 .. Len(q) : q[i] = GIVEN} = {}
    BY <1>2 DEF Given, Contains
  <2>2. SelectInSeq(q, LAMBDA x : x = GIVEN) = 0
    BY <2>1 DEF SelectInSeq
  <2> QED
    BY <2>2 DEF Flat
<1>3. ASSUME NEW g, GivenAt(g)
      PROVE  /\ Len(Flat) = g - 1 + Len(r) + (IF off["in"] THEN Len(q) - g ELSE 0)
             /\ \A k \in 1 .. g - 1 : Flat[k] = q[k]
             /\ \A k \in 1 .. Len(r) : Flat[g - 1 + k] = r[k]
             /\ off["in"] => \A k \in g + 1 .. Len(q) : Flat[k - 1 + Len(r)] = q[k]
  <2>1. g \in Nat /\ g >= 1 /\ g <= Len(q) /\ \A i \in 1 .. Len(q) : q[i] = GIVEN => i = g
    BY <1>3, GivenOnce DEF GivenAt
  <2>2. SelectInSeq(q, LAMBDA x : x = GIVEN) = g
    <3>1. {i \in 1 .. Len(q) : q[i] = GIVEN} = {g}
      BY <1>3, <2>1 DEF GivenAt
    <3>2. Min({g}) = g
      BY <2>1 DEF Min
    <3> QED
      BY <3>1, <3>2 DEF SelectInSeq
  <2> DEFINE a == SubSeq(q, 1, g - 1)
             b == SubSeq(q, g + 1, Len(q))
             c == IF off["in"] THEN b ELSE << >>
  <2>3. Flat = a \o r \o c
    <3>1. g # 0
      BY <2>1
    <3> QED
      BY <2>2, <3>1, Zenon DEF Flat
  <2>4. a \in Seq(Element) /\ Len(a) = g - 1 /\ \A k \in 1 .. g - 1 : a[k] = q[k]
    BY <1>1, <2>1
  <2>5. b \in Seq(Element) /\ Len(b) = Len(q) - g /\ \A k \in 1 .. Len(q) - g : b[k] = q[g + k]
    <3>1. \A k \in 1 .. Len(q) - g : b[k] = q[k + (g + 1) - 1]
      BY <1>1, <2>1
    <3>2. \A k \in 1 .. Len(q) - g : k + (g + 1) - 1 = g + k
      BY <1>1, <2>1
    <3> QED
      BY <1>1, <2>1, <3>1, <3>2
  <2> HIDE DEF a, b
  <2>6. c \in Seq(Element) /\ Len(c) = IF off["in"] THEN Len(q) - g ELSE 0
    BY <2>5
  <2> HIDE DEF c
  <2>7. /\ a \o r \in Seq(Element) /\ Len(a \o r) = g - 1 + Len(r)
        /\ \A k \in 1 .. g - 1 : (a \o r)[k] = q[k]
        /\ \A k \in 1 .. Len(r) : (a \o r)[g - 1 + k] = r[k]
    <3>1. /\ a \o r \in Seq(Element) /\ Len(a \o r) = Len(a) + Len(r)
          /\ \A k \in 1 .. Len(a) : (a \o r)[k] = a[k]
          /\ \A k \in 1 .. Len(r) : (a \o r)[Len(a) + k] = r[k]
      BY <1>1, <2>4, ConcatOf
    <3> QED
      BY <2>4, <3>1
  <2>8. /\ Len((a \o r) \o c) = g - 1 + Len(r) + Len(c)
        /\ \A k \in 1 .. g - 1 + Len(r) : ((a \o r) \o c)[k] = (a \o r)[k]
        /\ \A k \in 1 .. Len(c) : ((a \o r) \o c)[g - 1 + Len(r) + k] = c[k]
    <3> DEFINE p == a \o r
    <3>0. p \in Seq(Element) /\ Len(p) = g - 1 + Len(r)
      BY <2>7
    <3> HIDE DEF p
    <3>1. /\ Len(p \o c) = Len(p) + Len(c)
          /\ \A k \in 1 .. Len(p) : (p \o c)[k] = p[k]
          /\ \A k \in 1 .. Len(c) : (p \o c)[Len(p) + k] = c[k]
      BY <2>6, <3>0, ConcatOf
    <3> QED
      BY <3>0, <3>1 DEF p
  <2>9. Len(Flat) = g - 1 + Len(r) + (IF off["in"] THEN Len(q) - g ELSE 0)
    BY <2>3, <2>6, <2>8
  <2>10. \A k \in 1 .. g - 1 : Flat[k] = q[k]
    BY <1>1, <2>1, <2>3, <2>7, <2>8
  <2>11. \A k \in 1 .. Len(r) : Flat[g - 1 + k] = r[k]
    <3> SUFFICES ASSUME NEW k \in 1 .. Len(r) PROVE Flat[g - 1 + k] = r[k]
      OBVIOUS
    <3>1. g - 1 + k \in 1 .. g - 1 + Len(r)
      BY <1>1, <2>1
    <3> QED
      BY <2>3, <2>7, <2>8, <3>1
  <2>12. ASSUME off["in"], NEW k \in g + 1 .. Len(q) PROVE Flat[k - 1 + Len(r)] = q[k]
    <3>0. k \in Int /\ g \in Int /\ Len(r) \in Int /\ k >= g + 1 /\ k <= Len(q)
      BY <1>1, <2>1, <2>12
    <3>1. k - g \in 1 .. Len(q) - g /\ g - 1 + Len(r) + (k - g) = k - 1 + Len(r) /\ g + (k - g) = k
      BY <1>1, <3>0
    <3>2. Len(c) = Len(q) - g /\ c = b
      BY <2>6, <2>12 DEF c
    <3>3. ((a \o r) \o c)[g - 1 + Len(r) + (k - g)] = b[k - g]
      BY <2>8, <3>1, <3>2
    <3>4. b[k - g] = q[g + (k - g)]
      BY <2>5, <3>1
    <3> QED
      BY <2>3, <3>1, <3>3, <3>4
  <2> QED
    BY <2>9, <2>10, <2>11, <2>12
<1> QED
  BY <1>2, <1>3 DEF FlatIs
-----------------------------------------------------------------------------
(***************************************************************************)
(* What the steps of the others leave alone                                *)
(***************************************************************************)
\* Nodes of the stream it looks at that a reader is past.
Read(t) == Past(cur[t], PortOf(t))
Cells ==
    \A t \in Reader : InUse(t) =>
        /\ Read(t) \in Nat /\ Len(list[cur[t]]) \in Nat /\ Read(t) <= Len(list[cur[t]])
        /\ Cell(t) = IF Read(t) < Len(list[cur[t]]) THEN Read(t) + 1 ELSE 0
        /\ cur[t] \in Strm
InGivens ==
    \A t \in Ports("out") : listeners["out"][t] # NULL =>
        /\ InGiven(t) <=> GivenAt(Past("out", t) + 1)
        /\ Past("out", t) \in Nat /\ Past("out", t) <= Len(list["out"])
Once ==
    /\ Given <=> \E g : GivenAt(g)
    /\ \A g, h : GivenAt(g) /\ GivenAt(h) => g = h
    /\ \A g : GivenAt(g) => g \in Nat /\ g >= 1 /\ g <= Len(list["out"])
Lists ==
    \A s \in Strm : /\ list[s] \in Seq(Element) /\ Len(list[s]) \in Nat
                    /\ DOMAIN list[s] = 1 .. Len(list[s])

\* In states where the invariant holds, now and after a step.
LEMMA FactsOf ==
    Safe => Cells /\ InGivens /\ Once /\ FlatIs /\ Lists
<1> SUFFICES ASSUME Safe PROVE Cells /\ InGivens /\ Once /\ FlatIs /\ Lists
  OBVIOUS
<1>0. BroadcastAssumption
  BY BroadcastAssumption
<1>1. Cells
  <2> SUFFICES ASSUME NEW t \in Reader, InUse(t)
               PROVE  /\ Read(t) \in Nat /\ Len(list[cur[t]]) \in Nat
                      /\ Read(t) <= Len(list[cur[t]])
                      /\ Cell(t) = IF Read(t) < Len(list[cur[t]]) THEN Read(t) + 1 ELSE 0
                      /\ cur[t] \in Strm
    BY DEF Cells
  <2>1. cur[t] \in Strm /\ PortOf(t) \in Ports(cur[t]) /\ Loc(t) \in Nat
    BY <1>0, HeldOf DEF Safe
  <2>2. listeners[cur[t]][PortOf(t)] # NULL
    BY <1>0, <2>1, Constants DEF Loc
  <2>3. /\ Past(cur[t], PortOf(t)) \in Nat /\ Past(cur[t], PortOf(t)) <= Len(list[cur[t]])
        /\ Len(list[cur[t]]) \in Nat
        /\ At(cur[t], listeners[cur[t]][PortOf(t)])
             = IF Past(cur[t], PortOf(t)) < Len(list[cur[t]]) THEN Past(cur[t], PortOf(t)) + 1 ELSE 0
    BY <1>0, <2>1, <2>2, PastOf
  <2> QED
    BY <2>1, <2>3 DEF Read, Cell, Loc
<1>2. InGivens
  BY <1>0, InGivenOf, PastOf DEF InGivens, Strm
<1>3. Once
  BY <1>0, GivenOnce DEF Once
<1>4. Lists
  BY ListOf DEF Lists, Safe
<1> QED
  BY <1>0, <1>1, <1>2, <1>3, <1>4, FlatOf

\* The same of the next state.
LEMMA FactsNext ==
    Safe' => (Cells /\ InGivens /\ Once /\ FlatIs /\ Lists)'
  BY FactsOf, PTL

\* The lists only grow, and those of closed streams do not.
Grown ==
    \A s \in Strm :
        /\ Len(list'[s]) >= Len(list[s]) /\ \A i \in 1 .. Len(list[s]) : list'[s][i] = list[s][i]
        /\ off[s] => off'[s] /\ list'[s] = list[s]

\* A given stream stays where it is.
LEMMA GivenGrows ==
    ASSUME Safe, Safe', Grown
    PROVE  /\ \A g : GivenAt(g) => GivenAt(g)'
           /\ \A g : GivenAt(g)' /\ g <= Len(list["out"]) => GivenAt(g)
           /\ Given => Given'
<1>1. "out" \in Strm
  BY DEF Strm
<1>2. Once /\ Once' /\ Lists /\ Lists'
  BY FactsOf, FactsNext
<1>3. Len(list["out"]) \in Nat /\ Len(list'["out"]) \in Nat
  BY <1>1, <1>2 DEF Lists
<1>4. ASSUME NEW g, GivenAt(g) PROVE GivenAt(g)'
  BY <1>1, <1>3, <1>4 DEF GivenAt, Grown
<1>5. ASSUME NEW g, GivenAt(g)', g <= Len(list["out"]) PROVE GivenAt(g)
  BY <1>1, <1>3, <1>5 DEF GivenAt, Grown
<1> QED
  BY <1>2, <1>4, <1>5 DEF Once

\* What is to be read only grows.
LEMMA FlatGrows ==
    ASSUME Safe, Safe', Grown
    PROVE  Len(Flat) \in Nat /\ Len(Flat') \in Nat /\ Len(Flat') >= Len(Flat)
<1> DEFINE m == Len(list["out"])
           n == Len(list'["out"])
           k == Len(list["in"])
           l == Len(list'["in"])
           x == Len(Flat)
           y == Len(Flat')
<1>1. "out" \in Strm /\ "in" \in Strm
  BY DEF Strm
<1>2. Once /\ Once' /\ FlatIs /\ FlatIs' /\ Lists /\ Lists'
  BY FactsOf, FactsNext
<1>3. /\ m \in Nat /\ n \in Nat /\ k \in Nat /\ l \in Nat /\ m <= n /\ k <= l
      /\ off["in"] => off'["in"] /\ k = l
  BY <1>1, <1>2 DEF Lists, Grown
<1>4. CASE \E g : GivenAt(g)
  <2>1. PICK g : GivenAt(g)
    BY <1>4
  <2>2. GivenAt(g)' /\ g \in Nat /\ g >= 1 /\ g <= m
    BY <1>2, <2>1, GivenGrows DEF Once
  <2>3. x = g - 1 + k + (IF off["in"] THEN m - g ELSE 0)
    BY <1>2, <2>1 DEF FlatIs
  <2>4. y = g - 1 + l + (IF off'["in"] THEN n - g ELSE 0)
    BY <1>2, <2>2 DEF FlatIs
  <2> HIDE DEF m, n, k, l, x, y
  <2>5. g <= n
    BY <1>3, <2>2
  <2>6. CASE off["in"]
    <3>1. x = g - 1 + k + (m - g) /\ y = g - 1 + l + (n - g)
      BY <1>3, <2>3, <2>4, <2>6
    <3>2. x \in Nat /\ y \in Nat /\ y >= x
      BY <1>3, <2>2, <2>5, <3>1
    <3> QED
      BY <3>2 DEF x, y
  <2>7. CASE ~off["in"]
    <3>1. x = g - 1 + k /\ x \in Nat
      BY <1>3, <2>2, <2>3, <2>7
    <3>2. y \in Nat /\ y >= g - 1 + l
      BY <1>3, <2>2, <2>4, <2>5
    <3>3. y >= x
      BY <1>3, <2>2, <3>1, <3>2
    <3> QED
      BY <3>1, <3>2, <3>3 DEF x, y
  <2> QED
    BY <2>6, <2>7
<1>5. CASE ~\E g : GivenAt(g)
  <2>1. Flat = list["out"]
    BY <1>2, <1>5 DEF Once, FlatIs
  <2>2. CASE \E g : GivenAt(g)'
    <3>1. PICK g : GivenAt(g)'
      BY <2>2
    <3>2. g \in Nat /\ g > m /\ g <= n
      BY <1>2, <1>3, <1>5, <3>1, GivenGrows DEF Once
    <3>3. y = g - 1 + l + (IF off'["in"] THEN n - g ELSE 0)
      BY <1>2, <3>1 DEF FlatIs
    <3>4. x = m
      BY <2>1
    <3> HIDE DEF m, n, k, l, x, y
    <3>5. y \in Nat /\ y >= g - 1
      BY <1>3, <3>2, <3>3
    <3>6. x \in Nat /\ y >= x
      BY <1>3, <3>2, <3>4, <3>5
    <3> QED
      BY <3>5, <3>6 DEF x, y
  <2>3. CASE ~\E g : GivenAt(g)'
    <3>1. Flat' = list'["out"]
      BY <1>2, <2>3 DEF Once, FlatIs
    <3> QED
      BY <1>3, <2>1, <3>1
  <2> QED
    BY <2>2, <2>3
<1> QED
  BY <1>4, <1>5

\* What a listener has read is what it is past.
LEMMA TakenKept ==
    ASSUME Safe, Safe', Grown, NEW t \in Ports("out"), max_ports' = max_ports, Taken(t),
           listeners'["out"][t] # NULL => listeners["out"][t] # NULL,
           Past("out", t)' = Past("out", t), PastGiven(t)' = PastGiven(t), took'[t] = took[t]
    PROVE  Taken(t)'
<1> SUFFICES ASSUME listeners'["out"][t] # NULL
             PROVE  /\ Gone(t)' => /\ off'["in"] /\ PastGiven(t)' = Len(list'["in"])
                                   /\ took'[t] = Past("out", t)' - 1 + Len(list'["in"])
                    /\ ~Gone(t)' => /\ took'[t] = Past("out", t)' + PastGiven(t)'
                                    /\ PastGiven(t)' # 0 => InGiven(t)'
  BY DEF Taken
<1>1. "in" \in Strm /\ "out" \in Strm /\ listeners["out"][t] # NULL /\ t \in Ports("out")'
  BY DEF Strm, Ports
<1>2. InGivens /\ InGivens' /\ Once /\ Once' /\ Lists /\ Lists'
  BY FactsOf, FactsNext
<1>3. /\ Past("out", t) \in Nat /\ Past("out", t) <= Len(list["out"]) /\ Len(list["out"]) \in Nat
      /\ InGiven(t) <=> GivenAt(Past("out", t) + 1)
      /\ InGiven(t)' <=> GivenAt(Past("out", t) + 1)'
  BY <1>1, <1>2 DEF InGivens, Lists
<1>4. /\ Gone(t) <=> \E g : GivenAt(g) /\ g <= Past("out", t)
      /\ Gone(t)' <=> \E g : GivenAt(g)' /\ g <= Past("out", t)
  BY <1>1, <1>2 DEF Gone, GivenAt, Lists
<1>5. Gone(t)' <=> Gone(t)
  <2>1. ASSUME NEW g, GivenAt(g), g <= Past("out", t) PROVE Gone(t)'
    BY <1>4, <2>1, GivenGrows
  <2>2. ASSUME NEW g, GivenAt(g)', g <= Past("out", t) PROVE Gone(t)
    <3>1. g \in Nat
      BY <1>2, <2>2 DEF Once
    <3>2. g <= Len(list["out"])
      BY <1>3, <2>2, <3>1
    <3> QED
      BY <1>4, <2>2, <3>2, GivenGrows
  <2> QED
    BY <1>4, <2>1, <2>2
<1>6. InGiven(t) => InGiven(t)'
  <2>1. GivenAt(Past("out", t) + 1) => GivenAt(Past("out", t) + 1)'
    <3>1. "out" \in Strm /\ Len(list'["out"]) \in Nat
      BY <1>1, <1>2 DEF Lists
    <3> QED
      BY <1>3, <3>1 DEF GivenAt, Grown
  <2> QED
    BY <1>3, <2>1
<1>7. Gone(t) => off["in"] /\ off'["in"] /\ list'["in"] = list["in"]
  BY <1>1 DEF Taken, Grown
<1> QED
  BY <1>1, <1>5, <1>6, <1>7 DEF Taken
-----------------------------------------------------------------------------
(***************************************************************************)
(* What each actor keeps of the order, and what is left to show of it      *)
(***************************************************************************)
\* A reader that does not move knows what it knew.
LEMMA EndingKept ==
    ASSUME Safe, Safe', Grown, NEW u \in Reader, FrameKept(u), closed'[u] = closed[u],
           max_ports' = max_ports, InUse(u) => Read(u)' = Read(u), Ending(u)
    PROVE  /\ Ending(u)'
           /\ InUse(u) /\ Cell(u) # 0 => Cell(u)' # 0
<1>1. Cells /\ Cells' /\ Reads(u)
  BY FactsOf, FactsNext DEF Safe
<1>2. "in" \in Strm /\ Populate \in Reader
  BY Constants, BroadcastAssumption DEF Strm
<1>3. /\ rpc'[u] = rpc[u] /\ op'[u] = op[u] /\ cur'[u] = cur[u] /\ asking'[u] = asking[u]
      /\ InUse(u)' <=> InUse(u)
  BY DEF FrameKept, InUse
<1>4. ASSUME InUse(u)
      PROVE  /\ Cell(u) # 0 => Cell(u)' # 0
             /\ off[cur[u]] /\ Cell(u) = 0 => Cell(u)' = 0
             /\ off[cur[u]] => off'[cur[u]]
  <2>1. /\ Read(u) \in Nat /\ Len(list[cur[u]]) \in Nat /\ cur[u] \in Strm
        /\ Cell(u) = IF Read(u) < Len(list[cur[u]]) THEN Read(u) + 1 ELSE 0
        /\ Len(list'[cur[u]]) \in Nat
        /\ Cell(u)' = IF Read(u) < Len(list'[cur[u]]) THEN Read(u) + 1 ELSE 0
    BY <1>1, <1>3, <1>4 DEF Cells
  <2>2. /\ Len(list'[cur[u]]) >= Len(list[cur[u]])
        /\ off[cur[u]] => off'[cur[u]] /\ list'[cur[u]] = list[cur[u]]
    BY <2>1 DEF Grown
  <2> QED
    BY <2>1, <2>2
<1>5. rpc[u] \in {"reload", "end", "some"} \cup Looking => InUse(u)
  BY DEF InUse, Looking
<1>6. rpc[u] \in Looking => u # Populate /\ cur[u] = "in"
  BY <1>1 DEF Reads, Looking, Waiting, Asking
<1>7. off["in"] => off'["in"]
  BY <1>2 DEF Grown
<1>8. /\ rpc[u] \in {"reload", "end"} => off'[cur[u]]
      /\ rpc[u] = "end" => Cell(u)' = 0
      /\ rpc[u] = "some" => Cell(u)' # 0
  BY <1>4, <1>5 DEF Ending
<1>9. rpc[u] = "past" /\ closed[u] => Cell(u)' = 0
  <2> SUFFICES ASSUME rpc[u] = "past", closed[u] PROVE Cell(u)' = 0
    OBVIOUS
  <2>1. rpc[u] \in Looking
    BY DEF Looking
  <2>2. Cell(u) = 0 /\ off["in"]
    BY DEF Ending
  <2> QED
    BY <1>4, <1>5, <1>6, <2>1, <2>2
<1>10. Ending(u)'
  BY <1>3, <1>7, <1>8, <1>9 DEF Ending
<1> QED
  BY <1>4, <1>10

\* A promise is kept: nothing that is to be read goes away.
LEMMA PromiseKept ==
    ASSUME Safe, Safe', Grown, NEW u \in Port, FrameKept(u), closed'[u] = closed[u],
           max_ports' = max_ports, InUse(u) => Read(u)' = Read(u), Ending(u),
           promised[u] => took'[u] = took[u], promised'[u] = promised[u], Promise(u)
    PROVE  Promise(u)'
<1>1. u \in Reader /\ took[u] \in Nat
  BY Constants, BroadcastAssumption DEF Safe, Types
<1>2. Len(Flat) \in Nat /\ Len(Flat') \in Nat /\ Len(Flat') >= Len(Flat)
  BY FlatGrows
<1>3. InUse(u) /\ Cell(u) # 0 => Cell(u)' # 0
  BY <1>1, EndingKept
<1>4. rpc'[u] = rpc[u] /\ op'[u] = op[u] /\ (InUse(u)' <=> InUse(u))
  BY DEF FrameKept, InUse
<1> SUFFICES ASSUME promised[u]
             PROVE  /\ InUse(u)' /\ op'[u] = "ready" /\ took'[u] < Len(Flat')
                    /\ rpc'[u] = "inside" /\ ~closed'[u] => Cell(u)' # 0
                    /\ rpc'[u] = "past" => closed'[u]
  BY DEF Promise
<1>5. /\ InUse(u) /\ op[u] = "ready" /\ took[u] < Len(Flat)
      /\ rpc[u] = "inside" /\ ~closed[u] => Cell(u) # 0
      /\ rpc[u] = "past" => closed[u]
  BY DEF Promise
<1>6. took'[u] < Len(Flat')
  BY <1>1, <1>2, <1>5
<1> QED
  BY <1>3, <1>4, <1>5, <1>6

\* What populate has copied stays a copy.
LEMMA CopiedKept ==
    ASSUME Safe, Safe', Grown, Copied, FrameKept(Populate), list'["proxy"] = list["proxy"],
           off'["proxy"] = off["proxy"],
           InUse(Populate) => Past("in", KeyId)' = Past("in", KeyId)
    PROVE  Copied'
<1>1. Lists /\ Lists' /\ InGivens
  BY FactsOf, FactsNext
<1>2. "in" \in Strm /\ "proxy" \in Strm /\ Populate \in Reader /\ KeyId \in Ports("in")
  BY Constants, BroadcastAssumption DEF Strm
<1>3. /\ Len(list["in"]) \in Nat /\ Len(list'["in"]) \in Nat /\ Len(list["proxy"]) \in Nat
      /\ Len(list'["in"]) >= Len(list["in"])
      /\ \A i \in 1 .. Len(list["in"]) : list'["in"][i] = list["in"][i]
      /\ off["in"] => off'["in"] /\ list'["in"] = list["in"]
  BY <1>1, <1>2 DEF Lists, Grown
<1>4. rpc'[Populate] = rpc[Populate] /\ ret' = ret
  BY DEF FrameKept
<1>5. rpc[Populate] \in {"put", "sweep"} \cup Waiting => InUse(Populate)
  BY DEF InUse, Waiting
<1>6. /\ Len(list'["proxy"]) <= Len(list'["in"])
      /\ \A i \in 1 .. Len(list'["proxy"]) : list'["proxy"][i] = list'["in"][i]
  BY <1>3 DEF Copied
<1>7. rpc'[Populate] \in {"put", "sweep"} \cup Waiting =>
          Past("in", KeyId)' = Len(list'["proxy"]) + (IF rpc'[Populate] = "put" THEN 1 ELSE 0)
  BY <1>4, <1>5 DEF Copied
<1>8. rpc[Populate] = "put" => ret' = list'["in"][Past("in", KeyId)']
  <2> SUFFICES ASSUME rpc[Populate] = "put" PROVE ret' = list'["in"][Past("in", KeyId)']
    OBVIOUS
  <2>1. Past("in", KeyId) = Len(list["proxy"]) + 1 /\ ret = list["in"][Past("in", KeyId)]
    BY DEF Copied
  <2>2. listeners["in"][KeyId] # NULL
    BY <1>2 DEF Safe, Gift
  <2>3. Past("in", KeyId) \in Nat /\ Past("in", KeyId) <= Len(list["in"])
    BY <1>2, <2>2, PastOf, BroadcastAssumption
  <2>4. Past("in", KeyId) \in 1 .. Len(list["in"])
    BY <1>3, <2>1, <2>3
  <2> QED
    BY <1>3, <1>4, <1>5, <2>1, <2>4
<1>9. off'["proxy"] => /\ off'["in"] /\ Len(list'["proxy"]) = Len(list'["in"])
                       /\ rpc'[Populate] \in {"cleanup", "ended"}
  BY <1>3, <1>4 DEF Copied
<1> QED
  BY <1>4, <1>6, <1>7, <1>8, <1>9 DEF Copied

\* A step of t, or of a writer, that the others do not notice.
Unnoticed(t) ==
    /\ Grown /\ max_ports' = max_ports
    /\ \A u \in Reader : u # t => /\ FrameKept(u) /\ closed'[u] = closed[u]
                                  /\ InUse(u) => Read(u)' = Read(u)
    /\ \A u \in Port : u # t => took'[u] = took[u] /\ promised'[u] = promised[u]
    /\ \A u \in Ports("out") : u # t /\ listeners'["out"][u] # NULL =>
          /\ listeners["out"][u] # NULL
          /\ Past("out", u)' = Past("out", u) /\ PastGiven(u)' = PastGiven(u)

\* It is enough to look at what t itself knows.
LEMMA OrderedKept ==
    ASSUME Safe, Safe', Ordered, NEW t, Unnoticed(t), Fresh', Copied',
           t \in Reader => Ending(t)', t \in Port => Promise(t)', t \in Ports("out") => Taken(t)'
    PROVE  Ordered'
<1>1. \A u \in Reader : Ending(u)'
  BY EndingKept DEF Unnoticed, Ordered
<1>2. \A u \in Port : Promise(u)'
  <2> SUFFICES ASSUME NEW u \in Port, u # t PROVE Promise(u)'
    OBVIOUS
  <2>1. u \in Reader
    BY Constants, BroadcastAssumption
  <2> QED
    BY <2>1, PromiseKept DEF Unnoticed, Ordered
<1>3. \A u \in Ports("out") : Taken(u)'
  <2> SUFFICES ASSUME NEW u \in Ports("out"), u # t PROVE Taken(u)'
    OBVIOUS
  <2>1. CASE listeners'["out"][u] = NULL
    BY <2>1 DEF Taken
  <2>2. CASE listeners'["out"][u] # NULL
    <3>1. u \in Port
      BY BroadcastAssumption, PortsOf DEF Safe
    <3> QED
      BY <2>2, <3>1, TakenKept DEF Unnoticed, Ordered
  <2> QED
    BY <2>1, <2>2
<1>4. Ports("out")' = Ports("out")
  BY DEF Unnoticed, Ports
<1> QED
  BY <1>1, <1>2, <1>3, <1>4 DEF Ordered
-----------------------------------------------------------------------------
(***************************************************************************)
(* The order through a listener's steps that move nothing                  *)
(***************************************************************************)
\* With the same lists and locations everything read from them is the same.
LEMMA StillOf ==
    ASSUME Safe, UNCHANGED <<max_ports, list, freed, off, listeners>>
    PROVE  /\ Grown /\ Flat' = Flat /\ (Given' <=> Given) /\ (Fresh' <=> Fresh)
           /\ \A s, i : Past(s, i)' = Past(s, i)
           /\ \A u : PastGiven(u)' = PastGiven(u)
<1>1. Grown
  <2>1. Lists
    BY FactsOf
  <2> QED
    BY <2>1 DEF Grown, Lists
<1>2. Flat' = Flat
  BY SMT DEF Flat, SelectInSeq
<1>3. Given' <=> Given
  BY DEF Given
<1>4. Fresh' <=> Fresh
  BY <1>3 DEF Fresh
<1>5. \A s, i : Past(s, i)' = Past(s, i)
  BY DEF Past
<1>6. \A u : PastGiven(u)' = PastGiven(u)
  BY <1>3, <1>5 DEF PastGiven, Inner, InnerPort
<1> QED
  BY <1>1, <1>2, <1>3, <1>4, <1>5, <1>6

\* The port of a reader that does not move is the same.
LEMMA PortKept ==
    ASSUME NEW u \in Reader, FrameKept(u)
    PROVE  PortOf(u)' = PortOf(u) /\ cur'[u] = cur[u] /\ (InUse(u)' <=> InUse(u))
  BY DEF FrameKept, PortOf, InUse, PeekId

\* It is enough to look at what the reader that took the step knows.
LEMMA QuietOrdered ==
    ASSUME Safe, Safe', Ordered, NEW t \in Reader, FrameStep(t), ReaderStep,
           UNCHANGED <<off, listeners, took>>, promised' = [promised EXCEPT ![t] = promised'[t]],
           Ending(t)', t \in Port => Promise(t)', t = Populate => Copied'
    PROVE  Ordered'
<1>1. Types /\ UNCHANGED <<max_ports, list, freed, off, listeners>>
  BY DEF Safe, ReaderStep
<1>2. /\ Grown /\ (Fresh' <=> Fresh)
      /\ \A s, i : Past(s, i)' = Past(s, i)
      /\ \A u : PastGiven(u)' = PastGiven(u)
  BY <1>1, StillOf
<1>3. \A u \in Reader : u # t => FrameKept(u) /\ closed'[u] = closed[u]
  BY <1>1, FramesOf
<1>4. ASSUME NEW u \in Reader, u # t PROVE Read(u)' = Read(u)
  BY <1>2, <1>3, <1>4, PortKept DEF Read
<1>5. \A u \in Port : u # t => took'[u] = took[u] /\ promised'[u] = promised[u]
  BY <1>1 DEF Types
<1>6. Unnoticed(t)
  BY <1>1, <1>2, <1>3, <1>4, <1>5 DEF Unnoticed
<1>7. Fresh'
  BY <1>2 DEF Ordered
<1>8. Copied'
  <2>1. Populate \in Reader
    BY Constants, BroadcastAssumption
  <2>2. CASE t # Populate
    BY <1>1, <1>2, <1>3, <2>1, <2>2, CopiedKept DEF Ordered
  <2> QED
    BY <2>2
<1>9. ASSUME t \in Ports("out") PROVE Taken(t)'
  BY <1>1, <1>2, <1>9, TakenKept DEF Ordered
<1> QED
  BY <1>6, <1>7, <1>8, <1>9, OrderedKept

\* A step that leaves the cells alone leaves a reader's in the same stream.
LEMMA CellStill ==
    ASSUME NEW t, UNCHANGED <<max_ports, list, freed, listeners>>, cur'[t] = cur[t],
           op'[t] = op[t], asking'[t] = asking[t]
    PROVE  Cell(t)' = Cell(t) /\ PortOf(t)' = PortOf(t)
<1>1. PortOf(t)' = PortOf(t)
  BY DEF PortOf, PeekId
<1> QED
  BY <1>1 DEF Cell, Loc, At

\* A call that has returned knows and promises nothing.
LEMMA ReturnOrdered ==
    ASSUME Safe, Safe', Ordered, NEW t \in Port, NEW pc, At_(t, pc), Return(t),
           listeners' = listeners, UNCHANGED <<ret, took>>
    PROVE  Ordered'
<1>1. Types /\ t \in Reader /\ t # Populate
  BY Constants, BroadcastAssumption DEF Safe
<1>2. /\ Running
      /\ UNCHANGED <<max_ports, list, freed, off, proxy, writing, cancelling>>
  BY <1>1, AtStep
<1>3. FrameStep(t) /\ promised' \in [Port -> BOOLEAN]
  BY <1>1, ReturnOf, BroadcastAssumption
<1>4. ReaderStep
  BY <1>1, <1>2, <1>3 DEF ReaderStep, Types
<1>5. /\ rpc'[t] = "idle" /\ op'[t] = NULL /\ closed'[t] = FALSE /\ promised'[t] = FALSE
      /\ promised' = [promised EXCEPT ![t] = promised'[t]] /\ cur'[t] = "out"
  BY <1>1 DEF Return, To, Types
<1>6. Ending(t)'
  BY <1>5 DEF Ending, Looking
<1>7. Promise(t)'
  BY <1>5 DEF Promise
<1> QED
  BY <1>1, <1>2, <1>3, <1>4, <1>5, <1>6, <1>7, QuietOrdered
-----------------------------------------------------------------------------
(***************************************************************************)
(* The order through calls that wait                                       *)
(***************************************************************************)
\* A step changes the frame of one reader.
Shaped(t) ==
    /\ rpc' = rpc \/ rpc' = [rpc EXCEPT ![t] = rpc'[t]]
    /\ op' = op \/ op' = [op EXCEPT ![t] = op'[t]]
    /\ cur' = cur \/ cur' = [cur EXCEPT ![t] = cur'[t]]
    /\ asking' = asking \/ asking' = [asking EXCEPT ![t] = asking'[t]]
    /\ node' = node \/ node' = [node EXCEPT ![t] = node'[t]]
    /\ closed' = closed \/ closed' = [closed EXCEPT ![t] = closed'[t]]

\* Such a step is one of FrameStep.
LEMMA ShapeOf ==
    ASSUME Safe, Safe', NEW t \in Reader, Shaped(t), t = Populate \/ ret' = ret
    PROVE  FrameStep(t)
<1>1. Types /\ Types'
  BY DEF Safe
<1>2. /\ rpc'[t] \in Steps /\ cur'[t] \in Strm /\ asking'[t] \in BOOLEAN
      /\ node'[t] \in Nat /\ closed'[t] \in BOOLEAN
      /\ op'[t] \in {"get", "peek", "skip", "depleted", "ready", "empty", NULL}
  BY <1>1 DEF Types
<1>3. rpc' = [rpc EXCEPT ![t] = rpc'[t]]
  BY <1>1, SameOf DEF Shaped
<1>4. op' = [op EXCEPT ![t] = op'[t]]
  BY <1>1, SameOf DEF Shaped
<1>5. cur' = [cur EXCEPT ![t] = cur'[t]]
  BY <1>1, SameOf DEF Shaped
<1>6. asking' = [asking EXCEPT ![t] = asking'[t]]
  BY <1>1, SameOf DEF Shaped
<1>7. node' = [node EXCEPT ![t] = node'[t]]
  BY <1>1, SameOf DEF Shaped
<1>8. closed' = [closed EXCEPT ![t] = closed'[t]]
  BY <1>1, SameOf DEF Shaped
<1> QED
  BY <1>2, <1>3, <1>4, <1>5, <1>6, <1>7, <1>8 DEF FrameStep

\* A reader's step that moves nothing: only what it knows is to be shown.
LEMMA QuietStep ==
    ASSUME Safe, Safe', Ordered, NEW t \in Reader, NEW pc, At_(t, pc), Shaped(t),
           UNCHANGED <<listeners, ret, took>>,
           promised' = promised \/ promised' = [promised EXCEPT ![t] = promised'[t]],
           Ending(t)', t \in Port => Promise(t)', t = Populate => Copied'
    PROVE  Ordered'
<1>1. Types /\ Types'
  BY DEF Safe
<1>2. /\ Running
      /\ UNCHANGED <<max_ports, list, freed, off, proxy, writing, cancelling>>
  BY <1>1, AtStep
<1>3. FrameStep(t)
  BY ShapeOf
<1>4. ReaderStep
  BY <1>1, <1>2 DEF ReaderStep, Types
<1>5. promised' = [promised EXCEPT ![t] = promised'[t]]
  BY <1>1 DEF Types
<1> QED
  BY <1>2, <1>3, <1>4, <1>5, QuietOrdered

\* A call that waits was not told that there is an element.
LEMMA NoPromise ==
    ASSUME Safe, Ordered, NEW t \in Port, rpc[t] \notin Looking \cup Asking
    PROVE  ~promised[t]
<1>1. t \in Reader /\ t # Populate /\ Reads(t) /\ Promise(t)
  BY Constants, BroadcastAssumption DEF Safe, Ordered
<1> QED
  BY <1>1 DEF Reads, Promise, InUse

\* A call begins.
LEMMA CallOrdered ==
    ASSUME Safe, Safe', Ordered, NEW t \in Port, NEW o, Call(t, o)
    PROVE  Ordered'
<1>1. Types /\ t \in Reader /\ t # Populate /\ At_(t, "idle") /\ Reads(t) /\ Ending(t)
  BY Constants, BroadcastAssumption DEF Safe, Call, Ordered
<1>2. /\ op' = [op EXCEPT ![t] = o] /\ op'[t] = o /\ op' = [op EXCEPT ![t] = op'[t]]
      /\ rpc' = [rpc EXCEPT ![t] = IF o \in {"ready", "empty"} THEN o ELSE "load"]
      /\ UNCHANGED <<listeners, cur, asking, node, closed, ret, took>>
      /\ promised' = [promised EXCEPT ![t] = o = "ready" /\ took[t] < Len(Flat)]
  BY <1>1, SetOf DEF Call, To
<1>3. /\ rpc'[t] = (IF o \in {"ready", "empty"} THEN o ELSE "load")
      /\ rpc' = [rpc EXCEPT ![t] = rpc'[t]]
      /\ promised' = [promised EXCEPT ![t] = promised'[t]]
      /\ promised'[t] => o = "ready" /\ took[t] < Len(Flat)
  BY <1>1, <1>2 DEF Types
<1>4. /\ rpc[t] = "idle" /\ UNCHANGED <<max_ports, list, freed, off>> /\ cur[t] = "out"
  BY <1>1, AtStep DEF Reads
<1>5. Shaped(t)
  BY <1>2, <1>3 DEF Shaped
<1>6. Ending(t)'
  BY <1>1, <1>2, <1>3, <1>4 DEF Ending, Looking
<1>7. Promise(t)'
  <2>1. Flat' = Flat
    BY <1>2, <1>4, StillOf
  <2> QED
    BY <1>2, <1>3, <2>1 DEF Promise, InUse
<1> QED
  BY <1>1, <1>2, <1>3, <1>5, <1>6, <1>7, QuietStep

\* Loading the cell again finds it empty only once the stream has ended.
LEMMA WaitOrdered ==
    ASSUME Safe, Safe', Ordered, NEW t \in Reader, Wait(t)
    PROVE  Ordered'
<1>1. Types /\ Reads(t) /\ Ending(t)
  BY DEF Safe, Ordered
<1>2. /\ \E pc \in {"load", "off", "reload"} : At_(t, pc) /\ rpc[t] = pc
      /\ UNCHANGED <<listeners, op, cur, asking, closed, ret, took, promised>>
      /\ UNCHANGED <<max_ports, list, freed, off>>
  BY <1>1, AtStep DEF Wait, Load, CheckOff, Reload, Keep
<1>3. Cell(t)' = Cell(t)
  BY <1>2, CellStill
<1>4. node' = node \/ node' = [node EXCEPT ![t] = node'[t]]
  BY <1>1, SetOf DEF Wait, Load, CheckOff, Reload
<1>5. /\ rpc' = [rpc EXCEPT ![t] = rpc'[t]]
      /\ \/ rpc'[t] \in {"have", "load", "off"}
         \/ rpc'[t] = "reload" /\ off[cur[t]]
         \/ rpc'[t] = "end" /\ rpc[t] = "reload" /\ Cell(t) = 0
         \/ rpc'[t] = "cleanup" /\ rpc[t] = "off" /\ ~off[cur[t]]
  <2>1. CASE Load(t)
    <3>1. rpc' = [rpc EXCEPT ![t] = IF Cell(t) = 0 THEN "off" ELSE "have"]
      BY <2>1 DEF Load, To
    <3> QED
      BY <1>1, <3>1, SetOf
  <2>2. CASE CheckOff(t)
    <3>1. /\ rpc[t] = "off"
          /\ rpc' = [rpc EXCEPT ![t] = CASE off[cur[t]]                -> "reload"
                                         [] ~off[cur[t]] /\ Cancels(t) -> "cleanup"
                                         [] OTHER                      -> "load"]
      BY <1>1, <2>2, AtStep DEF CheckOff, To
    <3> QED
      BY <1>1, <3>1, SetOf
  <2>3. CASE Reload(t)
    <3>1. rpc[t] = "reload" /\ rpc' = [rpc EXCEPT ![t] = IF Cell(t) = 0 THEN "end" ELSE "have"]
      BY <1>1, <2>3, AtStep DEF Reload, Reloaded, To
    <3> QED
      BY <1>1, <3>1, SetOf
  <2> QED
    BY <2>1, <2>2, <2>3 DEF Wait
<1>6. Shaped(t)
  BY <1>2, <1>4, <1>5 DEF Shaped
<1>7. Ending(t)'
  BY <1>1, <1>2, <1>3, <1>5 DEF Ending, Looking
<1>8. ASSUME t \in Port PROVE Promise(t)'
  <2>1. ~promised[t]
    BY <1>2, <1>8, NoPromise DEF Looking, Asking
  <2> QED
    BY <1>2, <2>1 DEF Promise
<1>9. ASSUME t = Populate PROVE Copied'
  <2>1. Past("in", KeyId)' = Past("in", KeyId)
    BY <1>2, StillOf
  <2>2. rpc[t] \in Waiting /\ rpc'[t] # "put" /\ rpc[t] # "put"
    BY <1>2, <1>5 DEF Waiting
  <2>3. ~off["proxy"]
    BY <1>9, <2>2 DEF Ordered, Copied, Waiting
  <2> QED
    BY <1>2, <1>9, <2>1, <2>2, <2>3 DEF Ordered, Copied
<1> QED
  BY <1>2, <1>6, <1>7, <1>8, <1>9, QuietStep
-----------------------------------------------------------------------------
(***************************************************************************)
(* Where a listener is in what is to be read                               *)
(***************************************************************************)
\* Its place in the given stream, or in the proxy of it.
LEMMA InnerOf ==
    ASSUME Safe, NEW t \in Ports("out"), Given \/ max_ports <= 1
    PROVE  /\ Inner \in Strm /\ Inner # "out" /\ InnerPort(t) \in Ports(Inner)
           /\ listeners[Inner][InnerPort(t)] # NULL
           /\ PastGiven(t) = Past(Inner, InnerPort(t))
           /\ PastGiven(t) \in Nat /\ PastGiven(t) <= Len(list[Inner])
<1> USE BroadcastAssumption
<1>1. Types /\ Gift /\ max_ports \in Nat
  BY Constants DEF Safe, Types
<1>2. Inner \in Strm /\ Inner # "out" /\ InnerPort(t) \in Ports(Inner)
  <2>1. CASE max_ports > 1
    BY <1>1, <2>1, Constants DEF Inner, InnerPort
  <2>2. CASE ~(max_ports > 1)
    BY <1>1, <2>2, Constants DEF Inner, InnerPort
  <2> QED
    BY <2>1, <2>2
<1>3. listeners[Inner][InnerPort(t)] # NULL
  <2>1. CASE max_ports > 1
    <3>1. proxy # "none" /\ Inner = "proxy"
      BY <1>1, <2>1 DEF Gift, Inner
    <3> QED
      BY <1>1, <1>2, <3>1 DEF Gift
  <2>2. CASE ~(max_ports > 1)
    <3>1. Inner = "in" /\ proxy = "none" /\ rpc[Populate] = "none"
      BY <1>1, <2>2 DEF Gift, Inner
    <3> QED
      BY <1>1, <1>2, <3>1 DEF Gift
  <2> QED
    BY <2>1, <2>2
<1>4. PastGiven(t) = Past(Inner, InnerPort(t))
  BY DEF PastGiven
<1> QED
  BY <1>2, <1>3, <1>4, PastOf

\* Before the given stream a listener has taken the nodes it is past, and all of what
\* it is past of the given one.
LEMMA AtGiven ==
    ASSUME Safe, Ordered, NEW t \in Ports("out"), listeners["out"][t] # NULL, InGiven(t)
    PROVE  /\ Given /\ ~Gone(t) /\ GivenAt(Past("out", t) + 1)
           /\ took[t] = Past("out", t) + PastGiven(t)
           /\ Past("out", t) \in Nat /\ PastGiven(t) \in Nat /\ Len(list["in"]) \in Nat
           /\ Len(Flat) \in Nat /\ Len(Flat) >= Past("out", t) + Len(list["in"])
           /\ ~off["in"] => Len(Flat) = Past("out", t) + Len(list["in"])
           /\ \A k \in 1 .. Len(list["in"]) : Flat[Past("out", t) + k] = list["in"][k]
<1> DEFINE p == Past("out", t)
<1>1. InGivens /\ Once /\ FlatIs /\ Lists /\ Taken(t)
  BY FactsOf DEF Ordered
<1>2. /\ GivenAt(p + 1) /\ p \in Nat /\ p + 1 <= Len(list["out"])
      /\ Len(list["out"]) \in Nat /\ Len(list["in"]) \in Nat
  <2>1. GivenAt(p + 1) /\ p \in Nat
    BY <1>1 DEF InGivens
  <2> QED
    BY <1>1, <2>1 DEF Once, Lists, Strm
<1>3. Given
  BY <1>1, <1>2 DEF Once
<1>4. ~Gone(t)
  <2> SUFFICES ASSUME NEW g, GivenAt(g), g <= p PROVE FALSE
    BY <1>1 DEF Gone, GivenAt, Lists, Strm
  <2>1. g = p + 1
    BY <1>1, <1>2 DEF Once
  <2> QED
    BY <1>2, <2>1
<1>5. PastGiven(t) \in Nat
  BY <1>3, InnerOf
<1> HIDE DEF p
<1>6. PICK g : g = p + 1
  OBVIOUS
<1>7. /\ g - 1 = p /\ GivenAt(g)
      /\ Len(Flat) = g - 1 + Len(list["in"]) + (IF off["in"] THEN Len(list["out"]) - g ELSE 0)
      /\ \A k \in 1 .. Len(list["in"]) : Flat[g - 1 + k] = list["in"][k]
  <2>1. g - 1 = p /\ GivenAt(g)
    BY <1>2, <1>6
  <2>2. /\ Len(Flat) = g - 1 + Len(list["in"]) + (IF off["in"] THEN Len(list["out"]) - g ELSE 0)
        /\ \A k \in 1 .. Len(list["in"]) : Flat[g - 1 + k] = list["in"][k]
    BY <1>1, <2>1, Zenon DEF FlatIs
  <2> QED
    BY <2>1, <2>2
<1>8. \A k \in 1 .. Len(list["in"]) : Flat[p + k] = list["in"][k]
  BY <1>6, <1>7
<1>9. /\ Len(Flat) \in Nat /\ Len(Flat) >= p + Len(list["in"])
      /\ ~off["in"] => Len(Flat) = p + Len(list["in"])
  <2> DEFINE m == Len(list["out"])
             k == Len(list["in"])
             x == Len(Flat)
             o == off["in"]
  <2>1. x = p + k + (IF o THEN m - (p + 1) ELSE 0)
    BY <1>6, <1>7
  <2>2. p \in Nat /\ m \in Nat /\ k \in Nat /\ p + 1 <= m
    BY <1>2
  <2> HIDE DEF m, k, x, o
  <2>3. x \in Nat /\ x >= p + k /\ (~o => x = p + k)
    BY <2>1, <2>2
  <2> QED
    BY <2>3 DEF k, x, o
<1> QED
  BY <1>1, <1>2, <1>3, <1>4, <1>5, <1>8, <1>9 DEF p, Taken

\* Where it is not at a given stream the next node is the next element; with none, all
\* that can be read is read.
LEMMA NotAtGiven ==
    ASSUME Safe, Ordered, NEW t \in Ports("out"), listeners["out"][t] # NULL, ~InGiven(t)
    PROVE  /\ ~Gone(t) => PastGiven(t) = 0 /\ took[t] = Past("out", t)
           /\ Past("out", t) < Len(list["out"]) =>
                 took[t] < Len(Flat) /\ Flat[took[t] + 1] = list["out"][Past("out", t) + 1]
           /\ ~(Past("out", t) < Len(list["out"])) =>
                 took[t] = Len(Flat) /\ (Given => off["in"])
<1> DEFINE p == Past("out", t)
           m == Len(list["out"])
           k == Len(list["in"])
           x == Len(Flat)
<1>1. InGivens /\ Once /\ FlatIs /\ Lists /\ Taken(t) /\ "out" \in Strm /\ "in" \in Strm
  BY FactsOf DEF Ordered, Strm
<1>2. p \in Nat /\ p <= m /\ m \in Nat /\ k \in Nat /\ ~GivenAt(p + 1)
  BY <1>1 DEF InGivens, Lists
<1>3. Gone(t) <=> \E g : GivenAt(g) /\ g <= p
  BY <1>1 DEF Gone, GivenAt, Lists
<1>4. CASE Gone(t)
  <2>1. PICK g : GivenAt(g) /\ g <= p
    BY <1>3, <1>4
  <2>2. g \in Nat /\ g >= 1 /\ off["in"] /\ took[t] = p - 1 + k
    BY <1>1, <1>4, <2>1 DEF Once, Taken
  <2>3. x = g - 1 + k + (m - g)
    BY <1>1, <2>1, <2>2 DEF FlatIs
  <2>4. \A j \in g + 1 .. m : Flat[j - 1 + k] = list["out"][j]
    BY <1>1, <2>1, <2>2 DEF FlatIs
  <2> HIDE DEF p, m, k, x
  <2>5. p < m => Flat[took[t] + 1] = list["out"][p + 1]
    <3> SUFFICES ASSUME p < m PROVE Flat[took[t] + 1] = list["out"][p + 1]
      OBVIOUS
    <3> DEFINE j == p + 1
    <3>1. j \in g + 1 .. m /\ j - 1 + k = took[t] + 1
      BY <1>2, <2>1, <2>2
    <3> HIDE DEF j
    <3>2. Flat[j - 1 + k] = list["out"][j]
      BY <2>4, <3>1
    <3> QED
      BY <3>1, <3>2 DEF j
  <2>6. (p < m => took[t] < x) /\ (~(p < m) => took[t] = x)
    BY <1>2, <2>1, <2>2, <2>3
  <2> QED
    BY <1>4, <2>2, <2>5, <2>6 DEF p, m, k, x
<1>5. CASE ~Gone(t)
  <2>1. took[t] = p + PastGiven(t) /\ PastGiven(t) = 0
    BY <1>5 DEF Ordered, Taken
  <2>2. took[t] = p
    BY <1>2, <2>1
  <2>3. ASSUME p < m PROVE took[t] < x /\ Flat[p + 1] = list["out"][p + 1]
    <3>1. CASE Given
      <4>1. PICK g : GivenAt(g)
        BY <1>1, <3>1 DEF Once
      <4>2. g \in Nat /\ g <= m /\ g > p + 1
        BY <1>1, <1>2, <1>3, <1>5, <4>1 DEF Once
      <4>3. /\ x = g - 1 + k + (IF off["in"] THEN m - g ELSE 0)
            /\ \A j \in 1 .. g - 1 : Flat[j] = list["out"][j]
        BY <1>1, <4>1 DEF FlatIs
      <4> HIDE DEF p, m, k, x
      <4>4. p + 1 \in 1 .. g - 1
        BY <1>2, <4>2
      <4>5. x >= g - 1
        BY <1>2, <4>2, <4>3
      <4>6. p < x
        <5>1. x \in Int
          BY <1>2, <4>2, <4>3
        <5> QED
          BY <1>2, <4>2, <4>5, <5>1
      <4> QED
        BY <2>2, <4>3, <4>4, <4>6
    <3>2. CASE ~Given
      BY <1>1, <2>2, <2>3, <3>2 DEF FlatIs
    <3> QED
      BY <3>1, <3>2
  <2>4. ASSUME ~(p < m) PROVE took[t] = x /\ ~Given
    <3>1. ~Given
      <4> SUFFICES ASSUME NEW g, GivenAt(g) PROVE FALSE
        BY <1>1 DEF Once
      <4>1. g \in Nat /\ g <= m
        BY <1>1 DEF Once
      <4> QED
        BY <1>2, <1>3, <1>5, <2>4, <4>1
    <3> QED
      BY <1>1, <1>2, <2>2, <2>4, <3>1 DEF FlatIs
  <2> QED
    BY <1>5, <2>1, <2>2, <2>3, <2>4
<1> QED
  BY <1>4, <1>5

\* The place a call reads is the listener's, of its own stream or of the given one; peek
\* reads that of the given one when its port is the given one's.
LEMMA ReadOf ==
    ASSUME Safe, NEW t \in Port, InUse(t)
    PROVE  /\ t \in Reader /\ t # Populate /\ t \in Ports("out") /\ listeners["out"][t] # NULL
           /\ cur[t] = "out" => Read(t) = Past("out", t) /\ PortOf(t) = t
           /\ cur[t] # "out" => /\ cur[t] = Inner /\ InGiven(t)
                                /\ cur[t] # "in" => PortOf(t) = t /\ max_ports > 1
                                /\ cur[t] = "in" => max_ports = 1 /\ t = 0
           /\ cur[t] # "out" /\ (op[t] = "peek" /\ ~asking[t] /\ cur[t] = "in" => KeyId = 0) =>
                 PortOf(t) = InnerPort(t) /\ Read(t) = PastGiven(t)
<1> USE BroadcastAssumption
<1>1. t \in Reader /\ t # Populate /\ Reads(t) /\ Types /\ Gift /\ max_ports \in Nat
  BY Constants DEF Safe, Types
<1>2. /\ cur[t] = "in" => max_ports = 1 /\ t = 0
      /\ cur[t] # "in" => PortOf(t) = t
      /\ t \in Ports("out") /\ rpc[t] \in Waiting \cup Looking \cup Asking
  BY <1>1, HeldOf
<1>3. listeners["out"][t] # NULL
  BY <1>1, <1>2 DEF Reads, Waiting, Looking, Asking
<1>4. cur[t] # "out" => cur[t] = Inner /\ InGiven(t)
  BY <1>1, <1>2 DEF Reads, Waiting, Looking, Asking, Inner
<1>5. ASSUME cur[t] # "out", op[t] = "peek" /\ ~asking[t] /\ cur[t] = "in" => KeyId = 0
      PROVE  PortOf(t) = InnerPort(t) /\ Read(t) = PastGiven(t)
  <2>1. PortOf(t) = InnerPort(t)
    <3>1. CASE cur[t] = "in"
      <4>1. ~(max_ports > 1)
        BY <1>2, <3>1
      <4> QED
        BY <1>2, <1>5, <3>1, <4>1 DEF PortOf, PeekId, InnerPort
    <3>2. CASE cur[t] # "in"
      <4>1. max_ports > 1
        BY <1>4, <1>5, <3>2 DEF Inner
      <4> QED
        BY <3>2, <4>1 DEF PortOf, InnerPort
    <3> QED
      BY <3>1, <3>2
  <2>2. Given
    BY <1>2, <1>3, <1>4, <1>5, FactsOf DEF Once, InGivens
  <2> QED
    BY <1>2, <1>4, <1>5, <2>1, <2>2, InnerOf DEF Read
<1>6. cur[t] # "out" /\ cur[t] # "in" => max_ports > 1
  BY <1>4 DEF Inner
<1>7. cur[t] = "out" => Read(t) = Past("out", t) /\ PortOf(t) = t
  BY <1>2 DEF Read
<1> QED
  BY <1>1, <1>2, <1>3, <1>4, <1>5, <1>6, <1>7
-----------------------------------------------------------------------------
(***************************************************************************)
(* The order through the steps at a given stream                           *)
(***************************************************************************)
\* A call that ends the process changes nothing it knows.
LEMMA HaltOrdered ==
    ASSUME Safe, Safe', Ordered, NEW t \in Port, NEW pc, At_(t, pc),
           UNCHANGED reading, UNCHANGED listeners
    PROVE  Ordered'
<1>1. Types /\ t \in Reader /\ t # Populate /\ Ending(t) /\ Promise(t)
  BY Constants, BroadcastAssumption DEF Safe, Ordered
<1>2. /\ UNCHANGED <<max_ports, list, freed, off>>
      /\ UNCHANGED <<rpc, op, cur, asking, node, closed, ret, took, promised>>
  BY <1>1, AtStep DEF reading, frame
<1>3. Shaped(t)
  BY <1>2 DEF Shaped
<1>4. Grown /\ \A s, i : Past(s, i)' = Past(s, i)
  BY <1>2, StillOf
<1>5. FrameKept(t) /\ closed'[t] = closed[t]
  BY <1>2 DEF FrameKept
<1>6. InUse(t) => Read(t)' = Read(t)
  BY <1>1, <1>4, <1>5, PortKept DEF Read
<1>7. Ending(t)'
  BY <1>1, <1>2, <1>4, <1>5, <1>6, EndingKept
<1>8. Promise(t)'
  BY <1>1, <1>2, <1>4, <1>5, <1>6, PromiseKept
<1> QED
  BY <1>1, <1>2, <1>3, <1>7, <1>8, QuietStep

\* Nothing can come any more.
LEMMA EndOrdered ==
    ASSUME Safe, Safe', Ordered, NEW t \in Port, End(t)
    PROVE  Ordered'
<1>1. CASE op[t] = "depleted"
  <2>1. At_(t, "end") /\ Return(t) /\ listeners' = listeners /\ UNCHANGED <<ret, took>>
    BY <1>1 DEF End, ReturnOnly
  <2> QED
    BY <2>1, ReturnOrdered
<1>2. CASE op[t] # "depleted"
  <2>1. At_(t, "end") /\ UNCHANGED reading /\ UNCHANGED listeners
    BY <1>2 DEF End
  <2> QED
    BY <2>1, HaltOrdered
<1> QED
  BY <1>1, <1>2

\* A call goes into the given stream, first to ask whether it is depleted.
LEMMA EnterOrdered ==
    ASSUME Safe, Safe', Ordered, NEW t \in Port, EnterGiven(t) \/ AskedGiven(t)
    PROVE  Ordered'
<1>1. /\ Types /\ t \in Reader /\ t # Populate /\ At_(t, "have") /\ Reads(t) /\ Ending(t)
  BY Constants, BroadcastAssumption DEF Safe, Ordered, EnterGiven, AskedGiven
<1>2. /\ rpc' = [rpc EXCEPT ![t] = "load"] /\ node' = [node EXCEPT ![t] = 0]
      /\ UNCHANGED <<listeners, op, closed, ret, took, promised>>
  BY DEF EnterGiven, AskedGiven, Again, To
<1>3. rpc'[t] = "load" /\ rpc' = [rpc EXCEPT ![t] = rpc'[t]]
      /\ node' = [node EXCEPT ![t] = node'[t]]
  BY <1>1, <1>2, SetOf
<1>4. rpc[t] = "have" /\ UNCHANGED <<max_ports, list, freed, off>>
  BY <1>1, AtStep
<1>5. /\ cur' = cur \/ cur' = [cur EXCEPT ![t] = cur'[t]]
      /\ asking' = [asking EXCEPT ![t] = asking'[t]]
      /\ op'[t] = "depleted" => asking'[t]
  <2>1. CASE EnterGiven(t)
    <3>1. /\ \E c : cur' = [cur EXCEPT ![t] = c]
          /\ asking' = [asking EXCEPT ![t] = TRUE]
      BY <2>1 DEF EnterGiven
    <3> QED
      BY <1>1, <3>1, SetOf
  <2>2. CASE AskedGiven(t)
    <3>1. cur' = cur /\ asking' = [asking EXCEPT ![t] = FALSE] /\ op[t] # "depleted"
      BY <2>2 DEF AskedGiven
    <3> QED
      BY <1>1, <1>2, <3>1, SetOf
  <2> QED
    BY <2>1, <2>2
<1>6. Shaped(t)
  BY <1>2, <1>3, <1>5 DEF Shaped
<1>7. Ending(t)'
  BY <1>1, <1>2, <1>3, <1>4, <1>5 DEF Ending, Looking
<1>8. Promise(t)'
  <2>1. ~promised[t]
    BY <1>4, NoPromise DEF Looking, Asking
  <2> QED
    BY <1>2, <2>1 DEF Promise
<1> QED
  BY <1>1, <1>2, <1>6, <1>7, <1>8, QuietStep

\* ready and empty look at the next node.
LEMMA LookOrdered ==
    ASSUME Safe, Safe', Ordered, NEW t \in Port, NEW o \in {"ready", "empty"}, Look(t, o)
    PROVE  Ordered'
<1>1. /\ Types /\ t \in Reader /\ t # Populate /\ At_(t, o) /\ Reads(t) /\ Ending(t) /\ Promise(t)
  BY Constants, BroadcastAssumption DEF Safe, Ordered, Look
<1>2. CASE ReturnOnly(t) /\ listeners' = listeners
  BY <1>1, <1>2, ReturnOrdered DEF ReturnOnly
<1>3. CASE listeners' = listeners /\ UNCHANGED reading
  BY <1>1, <1>3, HaltOrdered
<1>4. CASE /\ \E n : node' = [node EXCEPT ![t] = n]
           /\ cur' = [cur EXCEPT ![t] = "in"] /\ rpc' = [rpc EXCEPT ![t] = "closed"]
           /\ UNCHANGED <<listeners, op, asking, closed, ret, took, promised, over>>
  <2>1. /\ node' = [node EXCEPT ![t] = node'[t]] /\ cur' = [cur EXCEPT ![t] = cur'[t]]
        /\ rpc' = [rpc EXCEPT ![t] = rpc'[t]] /\ rpc'[t] = "closed"
    BY <1>1, <1>4, SetOf
  <2>2. rpc[t] = o /\ UNCHANGED <<max_ports, list, freed, off>> /\ op[t] = o
    BY <1>1, AtStep DEF Reads, Asking
  <2>3. Shaped(t)
    BY <1>4, <2>1 DEF Shaped
  <2>4. Ending(t)'
    BY <1>1, <1>4, <2>1, <2>2 DEF Ending, Looking
  <2>5. Promise(t)'
    <3>1. Flat' = Flat
      BY <1>4, <2>2, StillOf
    <3> QED
      BY <1>1, <1>4, <2>1, <2>2, <3>1 DEF Promise, InUse
  <2> QED
    BY <1>1, <1>4, <2>3, <2>4, <2>5, QuietStep
<1> QED
  BY <1>2, <1>3, <1>4 DEF Look, To

\* An element was there when ready was called, and the given stream is not closed: it has
\* a node left, for what follows it does not count yet.
LEMMA LookClosedOrdered ==
    ASSUME Safe, Safe', Ordered, NEW t \in Port, LookClosed(t)
    PROVE  Ordered'
<1>1. /\ Types /\ t \in Reader /\ t # Populate /\ At_(t, "closed") /\ Reads(t) /\ Ending(t)
      /\ Promise(t)
      /\ listeners' = listeners
  BY Constants, BroadcastAssumption DEF Safe, Ordered, LookClosed
<1>2. CASE ReturnOnly(t)
  BY <1>1, <1>2, ReturnOrdered DEF ReturnOnly
<1>3. CASE /\ closed' = [closed EXCEPT ![t] = off["in"]] /\ rpc' = [rpc EXCEPT ![t] = "inside"]
           /\ UNCHANGED <<op, cur, asking, node, ret, took, promised>>
           /\ ~(op[t] = "empty" /\ ~off["in"])
  <2>1. /\ closed' = [closed EXCEPT ![t] = closed'[t]] /\ closed'[t] = off["in"]
        /\ rpc' = [rpc EXCEPT ![t] = rpc'[t]] /\ rpc'[t] = "inside"
    BY ZenonT(30), <1>1, <1>3, SetOf
  <2>2. rpc[t] = "closed" /\ UNCHANGED <<max_ports, list, freed, off>>
    BY <1>1, AtStep
  <2>3. Shaped(t)
    BY <1>3, <2>1 DEF Shaped
  <2>4. Ending(t)'
    BY <1>1, <1>3, <2>1, <2>2 DEF Ending, Looking
  <2>5. ASSUME promised[t], ~off["in"] PROVE Cell(t) # 0
    <3>1. InUse(t) /\ op[t] = "ready" /\ took[t] < Len(Flat) /\ cur[t] = "in"
      BY <1>1, <2>2, <2>5 DEF Promise, Reads, Looking, Waiting, Asking
    <3>2. /\ t \in Ports("out") /\ listeners["out"][t] # NULL /\ InGiven(t)
          /\ Read(t) = PastGiven(t)
      BY <3>1, ReadOf
    <3>3. took[t] = Past("out", t) + Read(t) /\ Len(Flat) = Past("out", t) + Len(list["in"])
      BY <2>5, <3>2, AtGiven
    <3>4. /\ Read(t) \in Nat /\ Len(list["in"]) \in Nat /\ Past("out", t) \in Nat
          /\ Cell(t) = IF Read(t) < Len(list["in"]) THEN Read(t) + 1 ELSE 0
      BY <1>1, <3>1, <3>2, FactsOf, AtGiven DEF Cells
    <3> QED
      BY <3>1, <3>3, <3>4
  <2>6. Promise(t)'
    <3>1. Flat' = Flat /\ Cell(t)' = Cell(t)
      BY <1>1, <1>3, <2>2, StillOf, CellStill
    <3> QED
      BY <1>1, <1>3, <2>1, <2>2, <2>5, <3>1 DEF Promise, InUse
  <2> QED
    BY <1>1, <1>3, <2>3, <2>4, <2>6, QuietStep
<1> QED
  BY <1>2, <1>3 DEF LookClosed, To

\* A look into the given stream.
LEMMA LookInsideOrdered ==
    ASSUME Safe, Safe', Ordered, NEW t \in Port, LookInside(t) \/ LookAnswer(t)
    PROVE  Ordered'
<1>1. Types /\ t \in Reader /\ t # Populate /\ Reads(t) /\ Ending(t) /\ Promise(t)
  BY Constants, BroadcastAssumption DEF Safe, Ordered
<1>2. CASE LookInside(t)
  <2>1. /\ rpc' = [rpc EXCEPT ![t] = IF Cell(t) # 0 THEN "some" ELSE "past"]
        /\ UNCHANGED <<listeners, op, cur, asking, closed, node, ret, took, promised>>
        /\ At_(t, "inside")
    BY <1>2 DEF LookInside, To, Keep
  <2>2. /\ rpc' = [rpc EXCEPT ![t] = rpc'[t]]
        /\ rpc'[t] = IF Cell(t) # 0 THEN "some" ELSE "past"
    <3>1. rpc'[t] = IF Cell(t) # 0 THEN "some" ELSE "past"
      BY <1>1, <2>1 DEF Types
    <3> QED
      BY <2>1, <3>1
  <2>3. rpc[t] = "inside" /\ UNCHANGED <<max_ports, list, freed, off>>
    BY <1>1, <2>1, AtStep
  <2>4. Shaped(t)
    BY <2>1, <2>2 DEF Shaped
  <2>5. Flat' = Flat /\ Cell(t)' = Cell(t)
    BY <2>1, <2>3, StillOf, CellStill
  <2>6. Ending(t)'
    BY <1>1, <2>1, <2>2, <2>3, <2>5 DEF Ending, Looking
  <2>7. Promise(t)'
    BY <1>1, <2>1, <2>2, <2>3, <2>5 DEF Promise, InUse
  <2> QED
    BY <1>1, <2>1, <2>4, <2>6, <2>7, QuietStep
<1>3. CASE LookAnswer(t)
  <2>1. \E pc : At_(t, pc) /\ Return(t) /\ listeners' = listeners /\ UNCHANGED <<ret, took>>
    BY <1>3 DEF LookAnswer, ReturnOnly
  <2> QED
    BY <2>1, ReturnOrdered
<1> QED
  BY <1>2, <1>3
-----------------------------------------------------------------------------
(***************************************************************************)
(* The order through moves of a listener                                   *)
(***************************************************************************)
\* With the same lists what is to be read is the same.
LEMMA ListsStill ==
    ASSUME Safe, UNCHANGED <<list, off>>
    PROVE  Grown /\ Flat' = Flat /\ (Given' <=> Given) /\ \A g : GivenAt(g)' <=> GivenAt(g)
<1>1. Grown
  <2>1. Lists
    BY FactsOf
  <2> QED
    BY <2>1 DEF Grown, Lists
<1>2. Flat' = Flat
  BY SMT DEF Flat, SelectInSeq
<1>3. Given' <=> Given
  BY DEF Given
<1>4. \A g : GivenAt(g)' <=> GivenAt(g)
  BY DEF GivenAt
<1> QED
  BY <1>1, <1>2, <1>3, <1>4

\* A listener that moves is past one node more; every other one is where it was.
LEMMA MovedOf ==
    ASSUME Safe, UNCHANGED <<max_ports, freed>>, NEW s \in Strm, NEW i \in Ports(s),
           listeners[s][i] # NULL, NEW n, n = At(s, listeners[s][i]), n # 0, MoveTo(s, i, n)
    PROVE  /\ listeners'[s][i] = n /\ Past(s, i)' = Past(s, i) + 1 /\ n = Past(s, i) + 1
           /\ Past(s, i) \in Nat /\ Past(s, i) < Len(list[s])
           /\ \A r \in Strm : \A j \in Ports(r) :
                 r # s \/ j # i => /\ listeners'[r][j] = listeners[r][j]
                                   /\ Past(r, j)' = Past(r, j)
<1>1. Types
  BY DEF Safe
<1>2. n = Past(s, i) + 1 /\ Past(s, i) \in Nat /\ Past(s, i) < Len(list[s])
  BY PastOf, BroadcastAssumption
<1>3. n \in Nat
  BY <1>2
<1>4. /\ listeners'[s][i] = n
      /\ \A r \in Strm : \A j \in Ports(r) : r # s \/ j # i => listeners'[r][j] = listeners[r][j]
  BY <1>1, <1>3, MoveOf
<1>5. Past(s, i)' = n
  BY <1>4 DEF Past
<1>6. ASSUME NEW r \in Strm, NEW j \in Ports(r), r # s \/ j # i PROVE Past(r, j)' = Past(r, j)
  BY <1>4, <1>6 DEF Past
<1> QED
  BY <1>2, <1>4, <1>5, <1>6

\* The place a reader moves is its own: nobody else reads there, or counts from there.
LEMMA MoveUnnoticed ==
    ASSUME Safe, Safe', NEW t \in Reader, FrameStep(t), ReaderStep, off' = off,
           \A u \in Port : u # t => took'[u] = took[u] /\ promised'[u] = promised[u],
           NEW s \in Strm, NEW i \in Ports(s), Holds(t, s, i), listeners[s][i] # NULL,
           NEW n, n = At(s, listeners[s][i]), n # 0, MoveTo(s, i, n)
    PROVE  Unnoticed(t)
<1> USE BroadcastAssumption
<1>1. Types /\ Gift /\ Reads(t) /\ UNCHANGED <<max_ports, list, freed>> /\ InUse(t)
  BY DEF Safe, ReaderStep, Holds
<1>2. Grown /\ (Given' <=> Given)
  BY <1>1, ListsStill
<1>3. \A u \in Reader : u # t => FrameKept(u) /\ closed'[u] = closed[u]
  BY <1>1, FramesOf
<1>4. \A r \in Strm : \A j \in Ports(r) : r # s \/ j # i => /\ listeners'[r][j] = listeners[r][j]
                                                             /\ Past(r, j)' = Past(r, j)
  BY <1>1, MovedOf
<1>5. ASSUME NEW u \in Reader, u # t, InUse(u) PROVE Read(u)' = Read(u)
  <2>1. Reads(u) /\ cur[u] \in Strm /\ PortOf(u) \in Ports(cur[u])
    BY <1>1, <1>5, HeldOf DEF Safe
  <2>2. Holds(u, cur[u], PortOf(u))
    BY <1>5 DEF Holds
  <2>3. cur[u] # s \/ PortOf(u) # i
    <3> SUFFICES ASSUME cur[u] = s, PortOf(u) = i PROVE FALSE
      OBVIOUS
    <3>1. Holds(u, s, i)
      BY <2>2
    <3> QED
      BY <1>1, <1>5, <2>1, <3>1, HeldApart
  <2>4. Past(cur[u], PortOf(u))' = Past(cur[u], PortOf(u))
    <3> DEFINE c == cur[u]
               p == PortOf(u)
    <3>1. cur'[u] = cur[u] /\ PortOf(u)' = PortOf(u)
      BY <1>3, <1>5, PortKept
    <3>2. Past(cur[u], PortOf(u))' = IF listeners'[c][p] = 0 THEN freed'[c] ELSE listeners'[c][p]
      BY <3>1 DEF Past
    <3>3. listeners'[c][p] = listeners[c][p]
      BY <1>4, <2>1, <2>3
    <3> QED
      BY <1>1, <3>2, <3>3 DEF Past
  <2> QED
    BY <2>4 DEF Read
<1>6. ASSUME NEW u \in Ports("out"), u # t
      PROVE  /\ listeners'["out"][u] = listeners["out"][u]
             /\ Past("out", u)' = Past("out", u) /\ PastGiven(u)' = PastGiven(u)
  <2>1. /\ t # Populate => t \in Ports("out") /\ (cur[t] = "in" => max_ports = 1)
        /\ t = Populate => cur[t] = "in" /\ max_ports > 1
        /\ cur[t] # "in" => PortOf(t) = t
    BY <1>1, HeldOf
  <2>2. "out" # s \/ u # i
    BY <1>6, <2>1 DEF Holds
  <2>3. max_ports \in Nat /\ max_ports # 0
    BY <1>1, Constants DEF Types
  <2>4. max_ports > 1
    <3> SUFFICES ASSUME ~(max_ports > 1) PROVE FALSE
      OBVIOUS
    <3>1. u = 0 /\ t = 0
      BY <1>6, <2>1, <2>3 DEF Ports
    <3> QED
      BY <1>6, <3>1
  <2>5. Given => Past(Inner, InnerPort(u))' = Past(Inner, InnerPort(u))
    <3> SUFFICES ASSUME Given
                 PROVE  Past(Inner, InnerPort(u))' = Past(Inner, InnerPort(u))
      OBVIOUS
    <3>1. /\ Inner = "proxy" /\ InnerPort(u) = u
          /\ Inner' = "proxy" /\ InnerPort(u)' = u /\ u \in Ports("proxy") /\ "proxy" \in Strm
      BY <1>1, <1>6, <2>4, Constants DEF Inner, InnerPort
    <3>2. "proxy" # s \/ u # i
      BY <1>6, <2>1 DEF Holds
    <3>3. Past("proxy", u)' = Past("proxy", u)
      BY <1>4, <3>1, <3>2
    <3> QED
      BY <3>1, <3>3
  <2>6. PastGiven(u)' = PastGiven(u)
    BY <1>1, <1>2, <2>3, <2>4, <2>5 DEF PastGiven
  <2> QED
    BY <1>4, <1>6, <2>2, <2>6 DEF Strm
<1>7. \A u \in Reader : u # t => (InUse(u) => Read(u)' = Read(u))
  BY <1>5
<1> QED
  BY <1>1, <1>2, <1>3, <1>6, <1>7 DEF Unnoticed

\* What a listener is past of the given stream after the place it holds has moved.
LEMMA PastGivenMoved ==
    ASSUME Safe, NEW t \in Ports("out"), UNCHANGED <<max_ports, list>>, NEW s \in Strm,
           NEW i \in Ports(s),
           Past(s, i)' = Past(s, i) + 1,
           \A r \in Strm : \A j \in Ports(r) : r # s \/ j # i => Past(r, j)' = Past(r, j)
    PROVE  /\ s = "out" => PastGiven(t)' = PastGiven(t)
           /\ s = Inner /\ i = InnerPort(t) /\ Given =>
                 PastGiven(t)' = PastGiven(t) + 1 /\ PastGiven(t) = Past(s, i)
<1>1. Given' <=> Given
  BY DEF Given
<1>2. PICK a, b : a = Inner /\ b = InnerPort(t)
  OBVIOUS
<1>3. Inner' = a /\ InnerPort(t)' = b
  BY <1>2 DEF Inner, InnerPort
<1>4. /\ PastGiven(t) = IF Given \/ max_ports <= 1 THEN Past(a, b) ELSE 0
      /\ PastGiven(t)' = IF Given \/ max_ports <= 1 THEN Past(a, b)' ELSE 0
  BY <1>1, <1>2, <1>3 DEF PastGiven, Past
<1>5. ASSUME s = "out" PROVE PastGiven(t)' = PastGiven(t)
  <2>1. CASE Given \/ max_ports <= 1
    <3>1. a \in Strm /\ a # "out" /\ b \in Ports(a)
      BY <1>2, <2>1, InnerOf
    <3>2. Past(a, b)' = Past(a, b)
      BY <1>5, <3>1
    <3> QED
      BY <1>4, <3>2
  <2>2. CASE ~(Given \/ max_ports <= 1)
    BY <1>4, <2>2
  <2> QED
    BY <2>1, <2>2
<1>6. ASSUME s = a, i = b, Given PROVE PastGiven(t)' = PastGiven(t) + 1 /\ PastGiven(t) = Past(s, i)
  BY <1>4, <1>6
<1> QED
  BY <1>2, <1>5, <1>6

\* A listener that moves leaves populate its place, and in alone before it is given.
LEMMA MoveKeepsCopy ==
    ASSUME Safe, Safe', Ordered, NEW t \in Port, Unnoticed(t), UNCHANGED <<list, off>>,
           NEW s \in Strm, NEW i \in Ports(s), s # "out" => Given,
           \A r \in Strm : \A j \in Ports(r) : r # s \/ j # i => listeners'[r][j] = listeners[r][j]
    PROVE  Fresh' /\ Copied'
<1> USE BroadcastAssumption
<1>1. Populate \in Reader /\ t # Populate /\ KeyId \in Ports("in") /\ "in" \in Strm
      /\ "proxy" \in Strm
  BY Constants
<1>2. Grown /\ (Given' <=> Given)
  BY ListsStill
<1>3. Fresh'
  <2> SUFFICES ASSUME ~Given PROVE listeners'["in"][KeyId] = 0
    BY <1>2 DEF Fresh
  <2>1. listeners'["in"][KeyId] = listeners["in"][KeyId]
    BY <1>1
  <2> QED
    BY <2>1 DEF Ordered, Fresh
<1>4. FrameKept(Populate)
  BY <1>1 DEF Unnoticed
<1>5. ASSUME InUse(Populate) PROVE Past("in", KeyId)' = Past("in", KeyId)
  <2>1. cur[Populate] = "in" /\ PortOf(Populate) = KeyId
    BY <1>1, <1>5, HeldOf DEF Safe
  <2>2. cur'[Populate] = "in" /\ PortOf(Populate)' = KeyId
    BY <1>1, <1>4, <2>1, PortKept
  <2>3. Read(Populate)' = Read(Populate)
    BY <1>1, <1>5 DEF Unnoticed
  <2>4. Read(Populate) = Past("in", KeyId)
    BY <2>1 DEF Read
  <2>5. Read(Populate)' = Past("in", KeyId)'
    BY <2>2 DEF Read, Past
  <2> QED
    BY <2>3, <2>4, <2>5
<1>6. Copied'
  BY <1>2, <1>4, <1>5, CopiedKept DEF Ordered
<1> QED
  BY <1>3, <1>6

\* An element: the listener is past one node more and has taken one element more.
LEMMA FoundOrdered ==
    ASSUME Safe, Safe', Ordered, NEW t \in Port, Found(t)
    PROVE  Ordered'
<1> USE BroadcastAssumption
<1>1. /\ Types /\ Types' /\ Gift /\ t \in Reader /\ t # Populate /\ Reads(t) /\ Ending(t)
      /\ Taken(t) /\ At_(t, "have") /\ Return(t) /\ ret' = ret
  <2>1. Types /\ Types' /\ Gift /\ t \in Reader /\ t # Populate /\ Reads(t) /\ Ending(t)
    BY Constants DEF Safe, Ordered
  <2>2. At_(t, "have") /\ Return(t) /\ ret' = ret
    BY DEF Found
  <2>3. rpc[t] = "have"
    BY <2>1, <2>2, AtStep
  <2>4. t \in Ports("out")
    BY <2>3, ReadOf DEF InUse
  <2> QED
    BY <2>1, <2>2, <2>4 DEF Ordered
<1>2. CASE op[t] \notin {"get", "skip"}
  <2>1. listeners' = listeners /\ took' = took
    BY <1>2 DEF Found
  <2> QED
    BY <1>1, <2>1, ReturnOrdered
<1>3. CASE op[t] \in {"get", "skip"}
  <2>1. /\ MoveTo(cur[t], PortOf(t), node[t]) /\ took' = [took EXCEPT ![t] = @ + 1]
        /\ ~IsGiven(t) /\ ~asking[t]
    BY <1>3 DEF Found
  <2>2. /\ rpc[t] = "have" /\ Running
        /\ UNCHANGED <<max_ports, list, freed, off, proxy, writing, cancelling>>
    BY <1>1, AtStep
  <2>3. InUse(t)
    BY <2>2 DEF InUse
  <2>4. PICK s, i, n : s = cur[t] /\ i = PortOf(t) /\ n = node[t]
    OBVIOUS
  <2>5. s \in Strm /\ i \in Ports(s) /\ Loc(t) \in Nat
    BY <1>1, <2>3, <2>4, HeldOf
  <2>6. /\ Holds(t, s, i) /\ listeners[s][i] # NULL
        /\ n = At(s, listeners[s][i]) /\ n # 0 /\ MoveTo(s, i, n)
    BY <1>1, <2>1, <2>2, <2>3, <2>4, <2>5, Constants DEF Holds, Loc, Reads, Cell
  <2>7. FrameStep(t) /\ promised' \in [Port -> BOOLEAN]
    BY <1>1, ReturnOf
  <2>8. ReaderStep
    <3>1. took' \in [Port -> Nat]
      BY <1>1 DEF Types
    <3> QED
      BY <1>1, <2>2, <2>7, <3>1 DEF ReaderStep, Types
  <2>9. /\ \A u \in Port : u # t => took'[u] = took[u] /\ promised'[u] = promised[u]
        /\ took'[t] = took[t] + 1
    BY <1>1, <2>1 DEF Types, Return
  <2>10. Unnoticed(t)
    BY <1>1, <2>2, <2>5, <2>6, <2>7, <2>8, <2>9, MoveUnnoticed
  <2>11. /\ Past(s, i)' = Past(s, i) + 1 /\ n = Past(s, i) + 1
         /\ Past(s, i) \in Nat /\ Past(s, i) < Len(list[s])
         /\ \A r \in Strm : \A j \in Ports(r) :
               r # s \/ j # i => /\ listeners'[r][j] = listeners[r][j] /\ Past(r, j)' = Past(r, j)
    BY <2>2, <2>5, <2>6, MovedOf
  <2>12. /\ t \in Ports("out") /\ listeners["out"][t] # NULL
         /\ s = "out" => i = t
         /\ s # "out" => s = Inner /\ i = InnerPort(t) /\ InGiven(t)
    BY <1>3, <2>1, <2>3, <2>4, ReadOf
  <2>13. (Given' <=> Given) /\ \A g : GivenAt(g)' <=> GivenAt(g)
    BY <2>2, ListsStill
  <2>14. Taken(t)'
    <3>1. CASE s = "out"
      <4>1. ~InGiven(t)
        <5>1. list["out"][n] # GIVEN /\ n = Past("out", t) + 1
          BY <2>1, <2>4, <2>11, <2>12, <3>1 DEF IsGiven
        <5> QED
          BY <2>12, <5>1, FactsOf DEF InGivens, GivenAt
      <4>2. PastGiven(t)' = PastGiven(t)
        BY <2>2, <2>5, <2>11, <2>12, <3>1, PastGivenMoved
      <4>3. Past("out", t)' = Past("out", t) + 1 /\ Past("out", t) \in Nat
        BY <2>11, <2>12, <3>1
      <4>4. Gone(t)' <=> Gone(t)
        <5>1. Once /\ Once' /\ Lists /\ Lists' /\ ~GivenAt(Past("out", t) + 1)
          BY <2>12, <4>1, FactsOf, FactsNext DEF InGivens
        <5>2. /\ Gone(t) <=> \E g : GivenAt(g) /\ g <= Past("out", t)
              /\ Gone(t)' <=> \E g : GivenAt(g)' /\ g <= Past("out", t)'
          BY <5>1 DEF Gone, GivenAt, Lists, Strm
        <5>3. \A g : GivenAt(g) => g \in Nat /\ (g <= Past("out", t) <=> g <= Past("out", t) + 1)
          BY <4>3, <5>1 DEF Once
        <5> QED
          BY <2>13, <4>3, <5>2, <5>3
      <4>5. CASE Gone(t)
        <5>1. /\ off["in"] /\ PastGiven(t) = Len(list["in"])
              /\ took[t] = Past("out", t) - 1 + Len(list["in"])
          BY <1>1, <2>12, <4>5 DEF Taken
        <5>2. Len(list["in"]) \in Nat
          BY FactsOf DEF Lists, Strm
        <5>3. took'[t] = Past("out", t)' - 1 + Len(list'["in"])
          BY <2>2, <2>9, <4>3, <5>1, <5>2
        <5> QED
          BY <2>2, <4>2, <4>4, <4>5, <5>1, <5>3 DEF Taken
      <4>6. CASE ~Gone(t)
        <5>1. PastGiven(t) = 0 /\ took[t] = Past("out", t)
          BY <2>12, <4>1, <4>6, NotAtGiven
        <5> QED
          BY <2>9, <4>2, <4>3, <4>4, <4>6, <5>1 DEF Taken
      <4> QED
        BY <4>5, <4>6
    <3>2. CASE s # "out"
      <4>1. s = Inner /\ i = InnerPort(t) /\ InGiven(t)
        BY <2>12, <3>2
      <4>2. /\ Given /\ ~Gone(t) /\ took[t] = Past("out", t) + PastGiven(t)
            /\ Past("out", t) \in Nat /\ PastGiven(t) \in Nat
        BY <2>12, <4>1, AtGiven
      <4>3. PastGiven(t)' = PastGiven(t) + 1
        BY <2>2, <2>5, <2>11, <2>12, <4>1, <4>2, PastGivenMoved
      <4>4. Past("out", t)' = Past("out", t) /\ listeners'["out"][t] = listeners["out"][t]
        BY <2>11, <2>12, <3>2 DEF Strm
      <4>5. Gone(t)' <=> Gone(t)
        BY <2>2, <4>4 DEF Gone
      <4>6. InGiven(t)'
        BY <2>2, <4>1, <4>4 DEF InGiven, At
      <4> QED
        BY <2>9, <4>2, <4>3, <4>4, <4>5, <4>6 DEF Taken
    <3> QED
      BY <3>1, <3>2
  <2>15. Fresh' /\ Copied'
    <3>1. s # "out" => Given
      BY <2>12, AtGiven
    <3> QED
      BY <2>2, <2>5, <2>10, <2>11, <3>1, MoveKeepsCopy
  <2>16. Ending(t)' /\ Promise(t)'
    <3>1. /\ rpc'[t] = "idle" /\ op'[t] = NULL /\ closed'[t] = FALSE /\ promised'[t] = FALSE
          /\ cur'[t] = "out"
      BY <1>1 DEF Return, To, Types
    <3> QED
      BY <3>1 DEF Ending, Looking, Promise
  <2> QED
    BY <2>10, <2>14, <2>15, <2>16, OrderedKept
<1> QED
  BY <1>2, <1>3

\* A listener leaves the given stream when it has taken all of it and it is closed.
LEMMA LeaveOrdered ==
    ASSUME Safe, Safe', Ordered, NEW t \in Port, NEW pc, At_(t, pc), InUse(t), cur[t] # "out",
           op[t] # "peek" \/ asking[t], Cell(t) = 0, off[cur[t]], Shaped(t),
           MoveTo("out", t, At("out", listeners["out"][t])), UNCHANGED <<ret, took, promised>>,
           Ending(t)', Promise(t)'
    PROVE  Ordered'
<1> USE BroadcastAssumption
<1>1. /\ Types /\ Types' /\ t \in Reader /\ t # Populate /\ t \in Ports("out") /\ "out" \in Strm
      /\ listeners["out"][t] # NULL /\ Read(t) = PastGiven(t) /\ cur[t] = Inner /\ InGiven(t)
  BY ReadOf DEF Safe, Strm
<1>2. /\ Running
      /\ UNCHANGED <<max_ports, list, freed, off, proxy, writing, cancelling>>
  BY <1>1, AtStep
<1>3. FrameStep(t)
  BY <1>1, ShapeOf
<1>4. ReaderStep
  BY <1>1, <1>2 DEF ReaderStep, Types
<1>5. PICK n : n = At("out", listeners["out"][t])
  OBVIOUS
<1>6. Holds(t, "out", t) /\ n # 0 /\ MoveTo("out", t, n)
  BY <1>1, <1>5 DEF Holds, InGiven
<1>7. /\ Past("out", t)' = Past("out", t) + 1 /\ Past("out", t) \in Nat
      /\ \A r \in Strm : \A j \in Ports(r) :
            r # "out" \/ j # t => listeners'[r][j] = listeners[r][j] /\ Past(r, j)' = Past(r, j)
  BY <1>1, <1>2, <1>5, <1>6, MovedOf
<1>8. Unnoticed(t)
  BY <1>1, <1>2, <1>3, <1>4, <1>5, <1>6, MoveUnnoticed
<1>9. Fresh' /\ Copied'
  BY <1>1, <1>2, <1>7, <1>8, MoveKeepsCopy
<1>10. off["in"] /\ PastGiven(t) = Len(list["in"]) /\ Len(list["in"]) \in Nat
  <2>1. /\ Read(t) \in Nat /\ Len(list[cur[t]]) \in Nat /\ Read(t) <= Len(list[cur[t]])
        /\ Cell(t) = IF Read(t) < Len(list[cur[t]]) THEN Read(t) + 1 ELSE 0
    BY <1>1, FactsOf DEF Cells
  <2>2. Read(t) = Len(list[cur[t]])
    BY <2>1
  <2>3. off["in"] /\ Len(list[cur[t]]) = Len(list["in"])
    <3>1. CASE cur[t] = "in"
      BY <3>1
    <3>2. CASE cur[t] # "in"
      <4>1. cur[t] = "proxy"
        BY <1>1, <3>2 DEF Inner
      <4> QED
        BY <4>1 DEF Ordered, Copied
    <3> QED
      BY <3>1, <3>2
  <2> QED
    BY <1>1, <2>1, <2>2, <2>3
<1>11. /\ took[t] = Past("out", t) + PastGiven(t) /\ GivenAt(Past("out", t) + 1)
  BY <1>1, AtGiven
<1>12. PastGiven(t)' = PastGiven(t)
  BY <1>1, <1>2, <1>7, PastGivenMoved
<1>13. Gone(t)'
  <2>1. PICK g : g = Past("out", t) + 1
    OBVIOUS
  <2>2. g \in 1 .. Len(list'["out"]) /\ list'["out"][g] = GIVEN
    BY <1>2, <1>11, <2>1 DEF GivenAt
  <2>3. DOMAIN list'["out"] = 1 .. Len(list'["out"])
    BY FactsNext DEF Lists, Strm
  <2>4. g <= Past("out", t)'
    BY <1>7, <2>1
  <2> QED
    BY <2>2, <2>3, <2>4 DEF Gone
<1>14. took'[t] = Past("out", t)' - 1 + Len(list'["in"])
  BY <1>2, <1>7, <1>10, <1>11
<1>15. Taken(t)'
  BY <1>2, <1>10, <1>12, <1>13, <1>14 DEF Taken
<1> QED
  BY <1>8, <1>9, <1>15, OrderedKept

\* The given stream ended.
LEMMA EndOfGivenOrdered ==
    ASSUME Safe, Safe', Ordered, NEW t \in Port, EndOfGiven(t)
    PROVE  Ordered'
<1> USE BroadcastAssumption
<1>1. /\ Types /\ t \in Reader /\ t # Populate /\ At_(t, "end") /\ asking[t] /\ Reads(t)
      /\ Ending(t)
  BY Constants DEF Safe, Ordered, EndOfGiven
<1>2. /\ rpc[t] = "end" /\ InUse(t) /\ cur[t] # "out" /\ off[cur[t]] /\ Cell(t) = 0
      /\ UNCHANGED <<max_ports, list, freed, off>>
  <2>1. rpc[t] = "end" /\ UNCHANGED <<max_ports, list, freed, off>>
    BY <1>1, AtStep
  <2> QED
    BY <1>1, <2>1 DEF InUse, Ending, Reads
<1>3. /\ cur' = [cur EXCEPT ![t] = "out"] /\ asking' = [asking EXCEPT ![t] = FALSE]
      /\ rpc' = [rpc EXCEPT ![t] = "load"]
      /\ MoveTo("out", t, At("out", listeners["out"][t]))
      /\ UNCHANGED <<op, node, closed, ret, took, promised>>
  BY DEF EndOfGiven, To
<1>4. /\ cur' = [cur EXCEPT ![t] = cur'[t]] /\ asking' = [asking EXCEPT ![t] = asking'[t]]
      /\ rpc' = [rpc EXCEPT ![t] = rpc'[t]] /\ rpc'[t] = "load" /\ cur'[t] = "out"
  BY <1>1, <1>3, SetOf
<1>5. Shaped(t)
  BY <1>3, <1>4 DEF Shaped
<1>6. Ending(t)'
  BY <1>1, <1>2, <1>3, <1>4 DEF Ending, Looking
<1>7. Promise(t)'
  <2>1. ~promised[t]
    BY <1>2, NoPromise DEF Looking, Asking
  <2> QED
    BY <1>3, <2>1 DEF Promise
<1> QED
  BY <1>1, <1>2, <1>3, <1>5, <1>6, <1>7, LeaveOrdered

\* ready or empty goes past a given stream that was closed and has no node left.
LEMMA LookPastOrdered ==
    ASSUME Safe, Safe', Ordered, NEW t \in Port, LookPast(t)
    PROVE  Ordered'
<1> USE BroadcastAssumption
<1>1. /\ Types /\ t \in Reader /\ t # Populate /\ At_(t, "past") /\ closed[t] /\ Reads(t)
      /\ Ending(t)
      /\ Promise(t)
  BY Constants DEF Safe, Ordered, LookPast, WasClosed
<1>2. /\ rpc[t] = "past" /\ UNCHANGED <<max_ports, list, freed, off>>
  BY <1>1, AtStep
<1>3. /\ InUse(t) /\ cur[t] = "in" /\ off["in"] /\ Cell(t) = 0 /\ op[t] \in Asking
      /\ node[t] = At("out", listeners["out"][t])
  BY <1>1, <1>2 DEF InUse, Ending, Reads, Looking, Waiting, Asking
<1>4. /\ cur' = [cur EXCEPT ![t] = "out"] /\ rpc' = [rpc EXCEPT ![t] = op[t]]
      /\ MoveTo("out", t, At("out", listeners["out"][t]))
      /\ UNCHANGED <<op, asking, node, closed, ret, took, promised>>
  BY <1>3 DEF LookPast, To
<1>5. /\ cur' = [cur EXCEPT ![t] = cur'[t]]
      /\ rpc' = [rpc EXCEPT ![t] = rpc'[t]] /\ rpc'[t] = op[t] /\ cur'[t] = "out"
  BY ZenonT(30), <1>1, <1>4, SetOf
<1>6. Shaped(t)
  BY <1>4, <1>5 DEF Shaped
<1>7. Ending(t)'
  BY <1>1, <1>2, <1>3, <1>4, <1>5 DEF Ending, Looking, Asking
<1>8. Promise(t)'
  <2>1. Flat' = Flat
    BY <1>2, ListsStill
  <2>2. rpc'[t] \in Asking
    BY <1>3, <1>5
  <2> QED
    BY <1>1, <1>4, <2>1, <2>2 DEF Promise, InUse, Asking
<1> QED
  BY <1>1, <1>2, <1>3, <1>4, <1>6, <1>7, <1>8, LeaveOrdered DEF Asking
-----------------------------------------------------------------------------
(***************************************************************************)
(* The order through the writers' steps                                    *)
(***************************************************************************)
\* A linked node is the last of its list.
LEMMA LinkOf ==
    ASSUME Safe, NEW r \in Strm, NEW x \in Element, Link(r, x), off' = off, ~off[r]
    PROVE  /\ Grown /\ UNCHANGED <<max_ports, freed>>
           /\ Len(list'[r]) = Len(list[r]) + 1 /\ list'[r][Len(list[r]) + 1] = x
           /\ \A i \in 1 .. Len(list[r]) : list'[r][i] = list[r][i]
           /\ \A s \in Strm : s # r => list'[s] = list[s]
           /\ x # GIVEN \/ r # "out" => (Given' <=> Given)
<1>1. Types /\ Lists /\ "out" \in Strm
  BY FactsOf DEF Safe, Strm
<1>2. list' = [list EXCEPT ![r] = Append(@, x)] /\ UNCHANGED <<max_ports, freed>>
  BY DEF Link
<1>3. list'[r] = Append(list[r], x) /\ \A s \in Strm : s # r => list'[s] = list[s]
  BY <1>1, <1>2 DEF Types
<1>4. list[r] \in Seq(Element) /\ Len(list[r]) \in Nat
  BY <1>1 DEF Lists
<1>5. /\ Len(list'[r]) = Len(list[r]) + 1 /\ list'[r][Len(list[r]) + 1] = x
      /\ \A i \in 1 .. Len(list[r]) : list'[r][i] = list[r][i]
  BY <1>3, <1>4, AppendOf
<1>6. Grown
  <2> SUFFICES ASSUME NEW s \in Strm
               PROVE  /\ Len(list'[s]) >= Len(list[s])
                      /\ \A i \in 1 .. Len(list[s]) : list'[s][i] = list[s][i]
                      /\ off[s] => off'[s] /\ list'[s] = list[s]
    BY DEF Grown
  <2>1. CASE s = r
    BY <1>4, <1>5, <2>1
  <2>2. CASE s # r
    BY <1>1, <1>3, <2>2 DEF Lists
  <2> QED
    BY <2>1, <2>2
<1>7. ASSUME x # GIVEN \/ r # "out" PROVE Given' <=> Given
  <2>1. CASE r # "out"
    BY <1>1, <1>3, <2>1 DEF Given
  <2>2. CASE r = "out" /\ x # GIVEN
    <3>1. Given' <=> \E i \in 1 .. Len(list["out"]) + 1 : list'["out"][i] = GIVEN
      BY <1>5, <2>2 DEF Given, Contains
    <3>2. Given <=> \E i \in 1 .. Len(list["out"]) : list["out"][i] = GIVEN
      BY DEF Given, Contains
    <3>3. \A i \in 1 .. Len(list["out"]) + 1 : i \in 1 .. Len(list["out"]) \/ i = Len(list["out"]) + 1
      BY <1>4, <2>2
    <3>4. \A i \in 1 .. Len(list["out"]) : i \in 1 .. Len(list["out"]) + 1
      BY <1>4, <2>2
    <3> QED
      BY <1>5, <2>2, <3>1, <3>2, <3>3, <3>4
  <2> QED
    BY <1>7, <2>1, <2>2
<1> QED
  BY <1>2, <1>3, <1>5, <1>6, <1>7

\* A listener that is past the same nodes is past as much of the given stream.
LEMMA PastGivenStill ==
    ASSUME Safe, NEW u \in Ports("out"), max_ports' = max_ports,
           (Given' <=> Given) \/ max_ports <= 1,
           \A r \in Strm : \A j \in Ports(r) : r # "out" => Past(r, j)' = Past(r, j)
    PROVE  PastGiven(u)' = PastGiven(u)
<1>1. PICK a, b : a = Inner /\ b = InnerPort(u)
  OBVIOUS
<1>2. Inner' = a /\ InnerPort(u)' = b
  BY <1>1 DEF Inner, InnerPort
<1>3. /\ PastGiven(u) = IF Given \/ max_ports <= 1 THEN Past(a, b) ELSE 0
      /\ PastGiven(u)' = IF Given \/ max_ports <= 1 THEN Past(a, b)' ELSE 0
  BY <1>1, <1>2 DEF PastGiven, Past
<1>4. Given \/ max_ports <= 1 => Past(a, b)' = Past(a, b)
  BY <1>1, InnerOf
<1> QED
  BY <1>3, <1>4

\* A step that is no listener's and moves nobody.
LEMMA WriterOrdered ==
    ASSUME Safe, Safe', Ordered, Grown, NEW t, t \notin Port,
           max_ports' = max_ports, listeners' = listeners,
           \A r \in Strm : \A j \in Ports(r) : Past(r, j)' = Past(r, j),
           \A u \in Reader : u # t => FrameKept(u) /\ closed'[u] = closed[u],
           UNCHANGED <<took, promised>>, (Given' <=> Given) \/ max_ports <= 1,
           Copied', t \in Reader => Ending(t)'
    PROVE  Ordered'
<1> USE BroadcastAssumption
<1>1. ASSUME NEW u \in Reader, u # t, InUse(u) PROVE Read(u)' = Read(u)
  <2>1. cur[u] \in Strm /\ PortOf(u) \in Ports(cur[u])
    BY <1>1, HeldOf DEF Safe
  <2>2. PICK c, q : c = cur[u] /\ q = PortOf(u)
    OBVIOUS
  <2>3. cur'[u] = c /\ PortOf(u)' = q
    BY <1>1, <2>2, PortKept
  <2>4. Read(u) = Past(c, q) /\ Read(u)' = Past(c, q)'
    BY <2>2, <2>3 DEF Read, Past
  <2> QED
    BY <2>1, <2>2, <2>4
<1>2. ASSUME NEW u \in Ports("out")
      PROVE  Past("out", u)' = Past("out", u) /\ PastGiven(u)' = PastGiven(u)
  BY <1>2, PastGivenStill DEF Strm
<1>3. Unnoticed(t)
  BY <1>1, <1>2 DEF Unnoticed
<1>4. Fresh'
  BY GivenGrows DEF Ordered, Fresh
<1>5. t \notin Ports("out")
  BY PortsOf
<1> QED
  BY <1>3, <1>4, <1>5, OrderedKept

\* Nobody is anybody's actor.
Nobody == -2

\* It is no reader and no port.
LEMMA NobodyOf ==
    ASSUME BroadcastAssumption
    PROVE  Nobody \notin Reader /\ Nobody \notin Port /\ "out" \in Strm /\ "in" \in Strm
           /\ "proxy" \in Strm
<1>1. \A t \in Port : t >= 0
  BY Constants
<1>2. Nobody \notin Port
  BY <1>1 DEF Nobody
<1> QED
  BY <1>2 DEF Nobody, Reader, Populate, Strm

\* A writer's step, with the readers where they were.
LEMMA WroteOrdered ==
    ASSUME Safe, Safe', Ordered, Grown, max_ports' = max_ports, listeners' = listeners,
           \A r \in Strm : \A j \in Ports(r) : Past(r, j)' = Past(r, j), UNCHANGED reading,
           (Given' <=> Given) \/ max_ports <= 1, list'["proxy"] = list["proxy"],
           off'["proxy"] = off["proxy"]
    PROVE  Ordered'
<1> USE BroadcastAssumption
<1>1. UNCHANGED <<rpc, op, cur, asking, node, closed, ret, took, promised>>
  BY DEF reading, frame
<1>2. \A u : FrameKept(u) /\ closed'[u] = closed[u]
  BY <1>1 DEF FrameKept
<1>3. Copied'
  <2>1. Past("in", KeyId)' = Past("in", KeyId)
    BY Constants, NobodyOf
  <2> QED
    BY <1>2, <2>1, CopiedKept DEF Ordered
<1>4. Nobody \notin Reader /\ Nobody \notin Port
  BY NobodyOf
<1> QED
  BY <1>1, <1>2, <1>3, <1>4, WriterOrdered

\* put, and give of a stream with one port.
LEMMA PutOrdered ==
    ASSUME Safe, Safe', Ordered, (\E s \in {"out", "in"} : Put(s)) \/ GiveOne
    PROVE  Ordered'
<1> USE BroadcastAssumption
<1>1. ASSUME NEW s \in {"out", "in"}, Put(s) PROVE Ordered'
  <2>1. PICK x : x = <<s, Len(list[s]) + 1>>
    OBVIOUS
  <2>2. s \in Strm /\ Len(list[s]) \in Nat
    BY FactsOf DEF Lists, Strm
  <2>3. Link(s, x) /\ ~off[s] /\ UNCHANGED <<listeners, off, reading>> /\ x \in Element /\ x # GIVEN
    BY <1>1, <2>1, <2>2, ElementOf DEF Put, Writes
  <2>4. Grown /\ UNCHANGED <<max_ports, freed>>
        /\ (Given' <=> Given) /\ list'["proxy"] = list["proxy"]
    BY <2>2, <2>3, LinkOf, NobodyOf
  <2>5. \A r, j : Past(r, j)' = Past(r, j)
    BY <2>3, <2>4 DEF Past
  <2> QED
    BY <2>3, <2>4, <2>5, WroteOrdered
<1>2. ASSUME GiveOne PROVE Ordered'
  <2>1. GIVEN \in Element /\ "out" \in Strm
    BY NobodyOf DEF GIVEN, Element
  <2>2. Link("out", GIVEN) /\ ~off["out"] /\ UNCHANGED <<listeners, off, reading>> /\ max_ports <= 1
    BY <1>2 DEF GiveOne, Gives, Writes
  <2>3. Grown /\ UNCHANGED <<max_ports, freed>> /\ list'["proxy"] = list["proxy"]
    BY <2>1, <2>2, LinkOf, NobodyOf
  <2>4. \A r, j : Past(r, j)' = Past(r, j)
    BY <2>2, <2>3 DEF Past
  <2> QED
    BY <2>2, <2>3, <2>4, WroteOrdered
<1> QED
  BY <1>1, <1>2

\* close.
LEMMA CloseOrdered ==
    ASSUME Safe, Safe', Ordered, NEW s \in {"out", "in"}, Close(s)
    PROVE  Ordered'
<1> USE BroadcastAssumption
<1>1. /\ off' = [off EXCEPT ![s] = TRUE]
      /\ UNCHANGED <<max_ports, list, freed, listeners>> /\ UNCHANGED reading
  BY DEF Close
<1>2. off'["proxy"] = off["proxy"] /\ \A r \in Strm : off[r] => off'[r]
  BY ZenonT(30), <1>1, NobodyOf DEF Safe, Types
<1>3. Grown
  BY <1>1, <1>2, FactsOf DEF Grown, Lists
<1>4. /\ \A r, j : Past(r, j)' = Past(r, j)
      /\ Given' <=> Given
  BY <1>1 DEF Past, Given
<1> QED
  BY <1>1, <1>2, <1>3, <1>4, WroteOrdered

\* What a sweep frees everybody is past.
LEMMA SweepOrdered ==
    ASSUME Safe, Safe', Ordered, NEW s \in Strm, UNCHANGED <<max_ports, list, off, listeners>>,
           UNCHANGED reading,
           \/ freed' = freed
           \/ freed' = [freed EXCEPT ![s] = @ + 1] /\ \A i \in Ports(s) : listeners[s][i] # 0
    PROVE  Ordered'
<1>1. Grown /\ (Given' <=> Given)
  BY ListsStill
<1>2. ASSUME NEW r \in Strm, NEW j \in Ports(r) PROVE Past(r, j)' = Past(r, j)
  <2>1. listeners[r][j] # 0 \/ freed'[r] = freed[r]
    BY <1>2 DEF Safe, Types
  <2> QED
    BY <2>1 DEF Past
<1> QED
  BY <1>1, <1>2, WroteOrdered

\* sweep, and the destructor until it has joined populate.
LEMMA SweepsOrdered ==
    ASSUME Safe, Safe', Ordered,
           \/ \E s \in Strm : Sweep(s)
           \/ SweepCancel \/ SweepJoin \/ Destroy
    PROVE  Ordered'
<1> USE BroadcastAssumption
<1>1. ASSUME NEW s \in Strm, SweepFirst(s) \/ SweepStop(s) PROVE Ordered'
  <2>1. UNCHANGED <<max_ports, list, off, listeners, freed>> /\ UNCHANGED reading
    BY <1>1 DEF SweepFirst, SweepStop, Sweeping
  <2> QED
    BY <2>1, SweepOrdered
<1>2. ASSUME NEW s \in Strm, SweepFree(s) PROVE Ordered'
  <2>1. /\ UNCHANGED <<max_ports, list, off, listeners>> /\ UNCHANGED reading
        /\ freed' = [freed EXCEPT ![s] = @ + 1] /\ wpc[s] = "loop" /\ iter[s] # 0 /\ ~Reached(s)
    BY <1>2 DEF SweepFree, Passed, Sweeping, FreeFirst
  <2>2. \A i \in Ports(s) : listeners[s][i] # 0
    BY <2>1, PassedOf
  <2> QED
    BY <2>1, <2>2, SweepOrdered
<1>3. ASSUME SweepCancel \/ Destroy PROVE Ordered'
  <2>1. UNCHANGED <<max_ports, list, off, listeners, freed>> /\ UNCHANGED reading
    BY <1>3 DEF SweepCancel, Destroy, Passed, Sweeping
  <2> QED
    BY <2>1, NobodyOf, SweepOrdered
<1>4. ASSUME SweepJoin PROVE Ordered'
  <2>1. /\ UNCHANGED <<max_ports, list, off, listeners>> /\ UNCHANGED reading
        /\ freed' = [freed EXCEPT !["out"] = @ + 1] /\ wpc["out"] = "join"
    BY <1>4 DEF SweepJoin, Sweeping, FreeFirst
  <2>2. \A i \in Ports("out") : listeners["out"][i] # 0
    BY <2>1, NobodyOf DEF Safe, Sweeps, Swept
  <2> QED
    BY <2>1, <2>2, NobodyOf, SweepOrdered
<1> QED
  BY <1>1, <1>2, <1>3, <1>4 DEF Sweep

\* The destructor ends, with no listener left.
LEMMA DestroyedOrdered ==
    ASSUME Safe, Safe', Ordered, Destroyed
    PROVE  Ordered'
<1> USE BroadcastAssumption
<1>1. /\ UNCHANGED <<max_ports, list, off>> /\ wpc["out"] = "destroy" /\ UNCHANGED reading
      /\ freed' = [freed EXCEPT !["out"] = Len(list["out"])]
      /\ listeners' = [listeners EXCEPT !["out"] = [i \in Ports("out") |-> NULL]]
  BY DEF Destroyed, Sweeping
<1>2. UNCHANGED <<rpc, op, cur, asking, node, closed, ret, took, promised>>
  BY <1>1 DEF reading, frame
<1>3. /\ \A r \in Strm : r # "out" => listeners'[r] = listeners[r] /\ freed'[r] = freed[r]
      /\ \A i \in Ports("out") : listeners'["out"][i] = NULL
  <2>1. Types /\ "out" \in Strm
    BY NobodyOf DEF Safe
  <2>2. freed \in [Strm -> Nat] /\ DOMAIN listeners = Strm
    BY <2>1 DEF Types
  <2> QED
    BY <1>1, <2>1, <2>2
<1>4. \A t \in Port : ~InUse(t)
  BY <1>1, NobodyOf DEF Safe, Sweeps, Swept, InUse
<1>5. Grown /\ (Given' <=> Given)
  BY <1>1, ListsStill
<1>6. \A u : FrameKept(u) /\ closed'[u] = closed[u]
  BY <1>2 DEF FrameKept
<1>7. Past("in", KeyId)' = Past("in", KeyId)
  BY <1>3, NobodyOf DEF Past
<1>8. InUse(Populate) => Read(Populate)' = Read(Populate)
  <2> SUFFICES ASSUME InUse(Populate) PROVE Read(Populate)' = Read(Populate)
    OBVIOUS
  <2>1. Populate \in Reader
    BY Constants
  <2>2. cur[Populate] = "in" /\ PortOf(Populate) = KeyId
    BY <2>1, HeldOf DEF Safe
  <2>3. cur'[Populate] = "in" /\ PortOf(Populate)' = KeyId
    BY <1>6, <2>1, <2>2, PortKept
  <2>4. Read(Populate) = Past("in", KeyId) /\ Read(Populate)' = Past("in", KeyId)'
    BY <2>2, <2>3 DEF Read, Past
  <2> QED
    BY <1>7, <2>4
<1>9. Unnoticed(Nobody)
  <2>1. \A u \in Reader : InUse(u) => Read(u)' = Read(u)
    BY <1>4, <1>8, Constants
  <2> QED
    BY <1>1, <1>2, <1>3, <1>5, <1>6, <2>1 DEF Unnoticed
<1>10. Copied'
  <2>1. list'["proxy"] = list["proxy"] /\ off'["proxy"] = off["proxy"]
    BY <1>1
  <2> QED
    BY <1>5, <1>6, <1>7, <2>1, CopiedKept DEF Ordered
<1>11. Fresh'
  <2>1. listeners'["in"] = listeners["in"]
    BY <1>3, NobodyOf
  <2> QED
    BY <1>5, <2>1 DEF Ordered, Fresh
<1>12. Nobody \notin Reader /\ Nobody \notin Port /\ Nobody \notin Ports("out")
  BY NobodyOf, PortsOf
<1> QED
  BY <1>9, <1>10, <1>11, <1>12, OrderedKept

\* listen and cancel: one who begins has taken what was freed before.
LEMMA ListenOrdered ==
    ASSUME Safe, Safe', Ordered, NEW i \in Port, Listen(i) \/ Cancel(i)
    PROVE  Ordered'
<1> USE BroadcastAssumption
<1>1. /\ Types /\ i \in Ports("out") /\ "out" \in Strm /\ i \in Reader /\ i # Populate
      /\ rpc[i] = "idle"
  <2>1. Types /\ "out" \in Strm /\ i \in Reader /\ i # Populate
    BY Constants, NobodyOf DEF Safe
  <2> QED
    BY <2>1, AtStep DEF Listen, Cancel, Free
<1>2. /\ UNCHANGED <<max_ports, list, freed, off>> /\ UNCHANGED frame /\ UNCHANGED <<ret, promised>>
      /\ \E n \in {0, NULL} : listeners' = [listeners EXCEPT !["out"][i] = n]
      /\ \A u \in Port : u # i => took'[u] = took[u]
  <2>1. CASE Listen(i)
    <3>1. took' = [took EXCEPT ![i] = freed["out"]]
      BY <2>1 DEF Listen
    <3>2. \A u \in Port : u # i => took'[u] = took[u]
      BY <1>1, <3>1 DEF Types
    <3> QED
      BY <2>1, <3>2 DEF Listen, nodes
  <2>2. CASE Cancel(i)
    BY <1>1, <2>2, AtStep DEF Cancel
  <2> QED
    BY <2>1, <2>2
<1>3. UNCHANGED <<rpc, op, cur, asking, node, closed>>
  BY <1>2 DEF frame
<1>4. \A u : FrameKept(u) /\ closed'[u] = closed[u]
  BY <1>2, <1>3 DEF FrameKept
<1>5. \A r \in Strm : \A j \in Ports(r) : r # "out" \/ j # i =>
          listeners'[r][j] = listeners[r][j] /\ Past(r, j)' = Past(r, j)
  <2>1. PICK n \in {0, NULL} : MoveTo("out", i, n)
    BY <1>2 DEF MoveTo
  <2>2. n \in Nat \cup {NULL}
    OBVIOUS
  <2>3. \A r \in Strm : \A j \in Ports(r) : r # "out" \/ j # i => listeners'[r][j] = listeners[r][j]
    BY <1>1, <1>2, <2>1, <2>2, MoveOf
  <2> QED
    BY <1>2, <2>3 DEF Past
<1>6. Grown /\ (Given' <=> Given) /\ Flat' = Flat
  BY <1>2, ListsStill
<1>7. ASSUME NEW u \in Reader, u # i, InUse(u) PROVE Read(u)' = Read(u)
  <2>1. /\ cur[u] \in Strm /\ PortOf(u) \in Ports(cur[u])
        /\ cur[u] # "in" => PortOf(u) = u
    BY <1>7, HeldOf DEF Safe
  <2>2. PICK c, q : c = cur[u] /\ q = PortOf(u)
    OBVIOUS
  <2>3. cur'[u] = c /\ PortOf(u)' = q
    BY <1>4, <1>7, <2>2, PortKept
  <2>4. Read(u) = Past(c, q) /\ Read(u)' = Past(c, q)'
    BY <2>2, <2>3 DEF Read, Past
  <2> QED
    BY <1>5, <1>7, <2>1, <2>2, <2>4
<1>8. ASSUME NEW u \in Ports("out") PROVE PastGiven(u)' = PastGiven(u)
  BY <1>2, <1>5, <1>6, PastGivenStill
<1>9. Unnoticed(i)
  <2>1. \A u \in Ports("out") : u # i => /\ listeners'["out"][u] = listeners["out"][u]
                                         /\ Past("out", u)' = Past("out", u)
    BY <1>1, <1>5
  <2>2. \A u \in Port : u # i => took'[u] = took[u] /\ promised'[u] = promised[u]
    BY <1>2
  <2> QED
    BY <1>2, <1>4, <1>6, <1>7, <1>8, <2>1, <2>2 DEF Unnoticed
<1>10. Fresh' /\ Copied'
  BY <1>1, <1>2, <1>5, <1>9, MoveKeepsCopy
<1>11. ~InUse(i)
  BY <1>1 DEF InUse
<1>12. Ending(i)'
  BY <1>1, <1>2, <1>4, <1>6, <1>11, EndingKept DEF Ordered
<1>13. Promise(i)'
  <2>1. ~promised[i]
    BY <1>1, NoPromise DEF Looking, Asking
  <2> QED
    BY <1>2, <2>1 DEF Promise
<1>14. Taken(i)'
  <2>1. CASE Listen(i)
    <3>1. /\ ~Given /\ listeners' = [listeners EXCEPT !["out"][i] = 0]
          /\ took' = [took EXCEPT ![i] = freed["out"]]
      BY <2>1 DEF Listen, Given
    <3>2. took'[i] = freed["out"] /\ listeners'["out"][i] = 0
      <4>1. MoveTo("out", i, 0)
        BY <3>1 DEF MoveTo
      <4>2. listeners'["out"][i] = 0
        BY ZenonT(30), <1>1, <1>2, <4>1, MoveOf
      <4> QED
        BY <1>1, <3>1, <4>2 DEF Types
    <3>3. Past("out", i)' = freed["out"] /\ freed["out"] \in Nat
      BY <1>1, <1>2, <3>2 DEF Past, Types
    <3>4. ~Gone(i)'
      <4>1. Once' /\ Lists'
        BY FactsNext
      <4> QED
        BY <1>6, <3>1, <4>1 DEF Gone, Once, Lists, GivenAt, Strm
    <3>5. PastGiven(i)' = 0
      <4>1. CASE max_ports <= 1
        <5>1. ~(max_ports > 1) /\ "in" \in Strm /\ KeyId \in Ports("in")
          <6>1. max_ports \in Nat
            BY <1>1, Constants DEF Types
          <6>2. ~(max_ports > 1)
            BY <4>1, <6>1
          <6> QED
            BY <6>2, Constants, NobodyOf
        <5>2. listeners["in"][KeyId] = 0 /\ freed["in"] = 0
          <6>1. listeners["in"][KeyId] = 0
            BY <3>1 DEF Ordered, Fresh
          <6>2. listeners["in"][KeyId] # NULL
            BY <6>1, Constants
          <6> QED
            BY <5>1, <6>1, <6>2 DEF Safe, Placed
        <5>3. PastGiven(i) = Past("in", KeyId)
          BY <4>1, <5>1 DEF PastGiven, Inner, InnerPort
        <5> QED
          BY <1>1, <1>8, <5>2, <5>3 DEF Past
      <4>2. CASE ~(max_ports <= 1)
        BY <1>1, <1>8, <3>1, <4>2 DEF PastGiven
      <4> QED
        BY <4>1, <4>2
    <3> QED
      BY <3>2, <3>3, <3>4, <3>5 DEF Taken
  <2>2. CASE Cancel(i)
    <3>1. MoveTo("out", i, NULL)
      BY <2>2 DEF Cancel, MoveTo
    <3>2. listeners'["out"][i] = NULL
      BY ZenonT(30), <1>1, <1>2, <3>1, MoveOf
    <3> QED
      BY <3>2 DEF Taken
  <2> QED
    BY <2>1, <2>2
<1> QED
  BY <1>9, <1>10, <1>12, <1>13, <1>14, OrderedKept
-----------------------------------------------------------------------------
(***************************************************************************)
(* The order through populate                                              *)
(***************************************************************************)
\* give of a stream with several ports: populate begins with nothing copied.
LEMMA GiveAllOrdered ==
    ASSUME Safe, Safe', Ordered, GiveAll
    PROVE  Ordered'
<1> USE BroadcastAssumption
<1>1. /\ Types /\ Gift /\ Placed /\ Gift' /\ Placed' /\ Populate \in Reader /\ GIVEN \in Element
      /\ "out" \in Strm /\ "in" \in Strm /\ "proxy" \in Strm /\ KeyId \in Ports("in")
  BY Constants, NobodyOf DEF Safe, GIVEN, Element
<1>2. /\ max_ports > 1 /\ ~off["out"] /\ ~Given /\ Link("out", GIVEN)
      /\ listeners' = [listeners EXCEPT !["proxy"] = [i \in Ports("proxy") |-> 0]]
      /\ rpc' = [rpc EXCEPT ![Populate] = "load"] /\ op' = [op EXCEPT ![Populate] = "depleted"]
      /\ cur' = [cur EXCEPT ![Populate] = "in"]
      /\ UNCHANGED <<off, asking, node, closed, ret, took, promised>>
  BY DEF GiveAll, Gives, Writes, Given
<1>3. /\ Grown /\ UNCHANGED <<max_ports, freed>> /\ list'["proxy"] = list["proxy"]
      /\ list'["in"] = list["in"] /\ list'["out"][Len(list["out"]) + 1] = GIVEN
      /\ Len(list'["out"]) = Len(list["out"]) + 1 /\ Len(list["out"]) \in Nat
  <2>1. Len(list["out"]) \in Nat
    BY <1>1, FactsOf DEF Lists
  <2> QED
    BY <1>1, <1>2, <2>1, LinkOf
<1>4. Given'
  BY <1>3 DEF Given, Contains
<1>5. /\ rpc'[Populate] = "load" /\ cur'[Populate] = "in" /\ rpc[Populate] = "none"
      /\ proxy = "none" /\ list["proxy"] = << >>
      /\ \A u \in Reader : u # Populate => FrameKept(u) /\ closed'[u] = closed[u]
  <2>1. proxy = "none" /\ rpc[Populate] = "none" /\ list["proxy"] = << >>
    BY <1>1, <1>2 DEF Gift
  <2>2. rpc'[Populate] = "load" /\ cur'[Populate] = "in"
    BY <1>1, <1>2 DEF Types
  <2>3. \A u \in Reader : u # Populate => FrameKept(u) /\ closed'[u] = closed[u]
    BY <1>1, <1>2 DEF Types, FrameKept
  <2> QED
    BY <2>1, <2>2, <2>3
<1>6. /\ \A r \in Strm : r # "proxy" => listeners'[r] = listeners[r]
      /\ \A i \in Ports("proxy") : listeners'["proxy"][i] = 0
  <2>1. DOMAIN listeners = Strm
    BY <1>1 DEF Types
  <2> QED
    BY <1>1, <1>2, <2>1
<1>7. \A r \in Strm : r # "proxy" => \A j : Past(r, j)' = Past(r, j)
  BY <1>3, <1>6 DEF Past
<1>8. ASSUME NEW u \in Reader, u # Populate, InUse(u) PROVE Read(u)' = Read(u)
  <2>1. cur[u] \in Strm /\ cur[u] # "proxy"
    BY <1>1, <1>5, <1>8, HeldOf DEF Safe, Reads
  <2>2. PICK c, q : c = cur[u] /\ q = PortOf(u)
    OBVIOUS
  <2>3. cur'[u] = c /\ PortOf(u)' = q
    BY <1>5, <1>8, <2>2, PortKept
  <2>4. Read(u) = Past(c, q) /\ Read(u)' = Past(c, q)'
    BY <2>2, <2>3 DEF Read, Past
  <2> QED
    BY <1>7, <2>1, <2>2, <2>4
<1>9. ASSUME NEW u \in Ports("out") PROVE PastGiven(u)' = PastGiven(u)
  <2>1. max_ports \in Nat /\ ~(max_ports <= 1) /\ u \in Ports("proxy")
    <3>1. max_ports \in Nat /\ u \in Ports("proxy")
      BY <1>1, <1>9, Constants DEF Types
    <3> QED
      BY <1>2, <3>1
  <2>2. PastGiven(u) = 0
    BY <1>2, <2>1 DEF PastGiven
  <2>3. Inner' = "proxy" /\ InnerPort(u)' = u /\ u \in Ports("proxy")'
    BY <1>2, <1>3, <2>1 DEF Inner, InnerPort, Ports
  <2>4. listeners'["proxy"][u] = 0 /\ freed'["proxy"] = 0
    <3>1. listeners'["proxy"][u] = 0 /\ listeners'["proxy"][u] # NULL
      BY <1>6, <2>1, Constants
    <3> QED
      BY <1>1, <2>3, <3>1 DEF Placed
  <2>5. Past("proxy", u)' = 0
    BY <2>4 DEF Past
  <2> QED
    BY <1>4, <2>2, <2>3, <2>5 DEF PastGiven
<1>10. Unnoticed(Populate)
  <2>1. \A u \in Ports("out") : /\ listeners'["out"][u] = listeners["out"][u]
                                /\ Past("out", u)' = Past("out", u)
    BY <1>1, <1>6, <1>7
  <2>2. \A u \in Reader : u # Populate => (InUse(u) => Read(u)' = Read(u))
    BY <1>8
  <2>3. \A u \in Ports("out") : PastGiven(u)' = PastGiven(u)
    BY <1>9
  <2> QED
    BY <1>2, <1>3, <1>5, <2>1, <2>2, <2>3 DEF Unnoticed
<1>11. Fresh'
  BY <1>4 DEF Fresh
<1>12. Copied'
  <2>1. listeners["in"][KeyId] = 0 /\ freed["in"] = 0
    <3>1. listeners["in"][KeyId] = 0 /\ listeners["in"][KeyId] # NULL
      BY <1>2, Constants DEF Ordered, Fresh
    <3> QED
      BY <1>1, <3>1 DEF Placed
  <2>2. Past("in", KeyId)' = 0
    BY <1>1, <1>7, <2>1 DEF Past
  <2>3. ~off["proxy"]
    BY <1>5 DEF Ordered, Copied
  <2>4. Len(list'["proxy"]) = 0 /\ Len(list'["in"]) \in Nat
    BY <1>1, <1>3, <1>5, FactsNext DEF Lists
  <2> QED
    BY <1>2, <1>3, <1>5, <2>2, <2>3, <2>4 DEF Copied
<1>13. Ending(Populate)'
  <2>1. Ending(Populate)
    BY <1>1 DEF Ordered
  <2> QED
    BY <1>2, <1>5, <2>1 DEF Ending, Looking
<1>14. Populate \notin Port /\ Populate \notin Ports("out")
  BY Constants, PortsOf
<1> QED
  BY <1>10, <1>11, <1>12, <1>13, <1>14, OrderedKept

\* populate takes the next element of in.
LEMMA PopulateFoundOrdered ==
    ASSUME Safe, Safe', Ordered, PopulateFound
    PROVE  Ordered'
<1> USE BroadcastAssumption
<1>1. /\ Types /\ Types' /\ Populate \in Reader /\ At_(Populate, "have") /\ Ending(Populate)
      /\ Populate \notin Port /\ Populate \notin Ports("out") /\ "in" \in Strm /\ Reads(Populate)
  BY Constants, NobodyOf, PortsOf DEF Safe, Ordered, PopulateFound
<1>2. /\ rpc[Populate] = "have" /\ UNCHANGED <<cur, asking, closed, took, promised>>
      /\ Running /\ UNCHANGED <<max_ports, list, freed, off, proxy, writing, cancelling>>
  BY <1>1, AtStep DEF PopulateFound
<1>3. /\ Gift /\ InUse(Populate) /\ cur[Populate] = "in" /\ PortOf(Populate) = KeyId
      /\ KeyId \in Ports("in") /\ listeners["in"][KeyId] \in Nat /\ Holds(Populate, "in", KeyId)
      /\ listeners["in"][KeyId] # NULL /\ proxy = "live"
  BY <1>2, PopulateOf, Constants DEF Waiting
<1>4. CASE op[Populate] = "depleted"
  <2>1. /\ op' = [op EXCEPT ![Populate] = "get"] /\ rpc' = [rpc EXCEPT ![Populate] = "load"]
        /\ node' = [node EXCEPT ![Populate] = 0] /\ UNCHANGED <<listeners, ret>>
    BY <1>4 DEF PopulateFound, Again, To
  <2>2. /\ op' = [op EXCEPT ![Populate] = op'[Populate]] /\ rpc'[Populate] = "load"
        /\ rpc' = [rpc EXCEPT ![Populate] = rpc'[Populate]]
        /\ node' = [node EXCEPT ![Populate] = node'[Populate]]
    BY <1>1, <2>1, SetOf
  <2>3. Shaped(Populate)
    BY <1>2, <2>1, <2>2 DEF Shaped
  <2>4. Ending(Populate)'
    BY <1>1, <1>2, <2>2 DEF Ending, Looking
  <2>5. Copied'
    <3>1. Past("in", KeyId)' = Past("in", KeyId)
      BY <1>2, <2>1 DEF Past
    <3> QED
      BY <1>2, <2>2, <3>1 DEF Ordered, Copied, Waiting
  <2> QED
    BY <1>1, <1>2, <2>1, <2>3, <2>4, <2>5, QuietStep
<1>5. CASE op[Populate] # "depleted"
  <2>1. /\ MoveTo("in", KeyId, node[Populate]) /\ ret' = list["in"][node[Populate]]
        /\ rpc' = [rpc EXCEPT ![Populate] = "put"] /\ node' = [node EXCEPT ![Populate] = 0]
        /\ op' = op
    BY <1>5 DEF PopulateFound, To
  <2>2. /\ rpc'[Populate] = "put" /\ rpc' = [rpc EXCEPT ![Populate] = rpc'[Populate]]
        /\ node' = [node EXCEPT ![Populate] = node'[Populate]]
    BY <1>1, <2>1, SetOf
  <2>3. FrameStep(Populate)
    BY <1>1, <1>2, <2>1, <2>2, ShapeOf DEF Shaped
  <2>4. ReaderStep
    BY <1>1, <1>2 DEF ReaderStep, Types
  <2>5. PICK n : n = node[Populate]
    OBVIOUS
  <2>6. n = At("in", listeners["in"][KeyId]) /\ n # 0 /\ MoveTo("in", KeyId, n)
    BY <1>1, <1>2, <1>3, <2>1, <2>5 DEF Reads, Cell, Loc
  <2>7. Unnoticed(Populate)
    BY <1>1, <1>2, <1>3, <2>3, <2>4, <2>6, MoveUnnoticed
  <2>8. /\ Past("in", KeyId)' = Past("in", KeyId) + 1 /\ n = Past("in", KeyId) + 1
        /\ Past("in", KeyId) \in Nat
    BY <1>1, <1>2, <1>3, <2>6, MovedOf
  <2>9. Given /\ Given'
    BY <1>2, <1>3, ListsStill DEF Gift
  <2>10. Fresh'
    BY <2>9 DEF Fresh
  <2>11. Copied'
    BY <1>2, <2>1, <2>2, <2>5, <2>8 DEF Ordered, Copied, Waiting
  <2>12. Ending(Populate)'
    BY <1>1, <1>2, <2>2 DEF Ending, Looking
  <2> QED
    BY <1>1, <2>7, <2>10, <2>11, <2>12, OrderedKept
<1> QED
  BY <1>4, <1>5

\* populate puts what it has taken, the next of the copy.
LEMMA PopulatePutOrdered ==
    ASSUME Safe, Safe', Ordered, PopulatePut
    PROVE  Ordered'
<1> USE BroadcastAssumption
<1>1. /\ Types /\ Populate \in Reader /\ Ending(Populate) /\ Copied /\ Reads(Populate)
      /\ Populate \notin Port /\ "in" \in Strm /\ "proxy" \in Strm /\ KeyId \in Ports("in")
  BY Constants, NobodyOf DEF Safe, Ordered
<1>2. /\ rpc[Populate] = "put" /\ Link("proxy", ret) /\ rpc' = [rpc EXCEPT ![Populate] = "sweep"]
      /\ UNCHANGED <<listeners, off, op, cur, asking, node, closed, took, promised>>
  BY DEF PopulatePut, To
<1>3. /\ rpc'[Populate] = "sweep" /\ ret \in Element
      /\ \A u \in Reader : u # Populate => FrameKept(u) /\ closed'[u] = closed[u]
  <2>1. rpc'[Populate] = "sweep"
    BY <1>1, <1>2 DEF Types
  <2>2. ret \in Element
    BY <1>1, <1>2 DEF Reads
  <2>3. \A u \in Reader : u # Populate => FrameKept(u) /\ closed'[u] = closed[u]
    BY <1>1, <1>2 DEF Types, FrameKept
  <2> QED
    BY <2>1, <2>2, <2>3
<1>4. ~off["proxy"]
  BY <1>1, <1>2 DEF Copied
<1>5. /\ Grown /\ UNCHANGED <<max_ports, freed>> /\ (Given' <=> Given)
      /\ Len(list'["proxy"]) = Len(list["proxy"]) + 1
      /\ list'["proxy"][Len(list["proxy"]) + 1] = ret
      /\ \A i \in 1 .. Len(list["proxy"]) : list'["proxy"][i] = list["proxy"][i]
      /\ list'["in"] = list["in"]
  BY <1>1, <1>2, <1>3, <1>4, LinkOf
<1>6. \A r, j : Past(r, j)' = Past(r, j)
  BY <1>2, <1>5 DEF Past
<1>7. Copied'
  <2>1. /\ Past("in", KeyId) = Len(list["proxy"]) + 1 /\ ret = list["in"][Past("in", KeyId)]
        /\ \A i \in 1 .. Len(list["proxy"]) : list["proxy"][i] = list["in"][i]
    BY <1>1, <1>2 DEF Copied
  <2>2. Past("in", KeyId) <= Len(list["in"])
    <3>1. listeners["in"][KeyId] # NULL
      BY <1>1, <1>2 DEF Safe, Gift
    <3> QED
      BY <1>1, <3>1, PastOf
  <2>3. Len(list["proxy"]) \in Nat
    BY <1>1, FactsOf DEF Lists
  <2>4. Len(list'["proxy"]) <= Len(list'["in"])
    BY <1>5, <2>1, <2>2
  <2>5. ASSUME NEW i \in 1 .. Len(list'["proxy"]) PROVE list'["proxy"][i] = list'["in"][i]
    <3>1. i \in 1 .. Len(list["proxy"]) \/ i = Len(list["proxy"]) + 1
      BY <1>5, <2>3, <2>5
    <3> QED
      BY <1>5, <2>1, <3>1
  <2>6. Past("in", KeyId)' = Len(list'["proxy"])
    BY <1>5, <1>6, <2>1
  <2>7. ~off'["proxy"]
    BY <1>2, <1>4
  <2>8. Len(list'["proxy"]) \in Nat
    BY <1>5, <2>3
  <2> QED
    BY <1>3, <2>4, <2>5, <2>6, <2>7, <2>8 DEF Copied
<1>8. Ending(Populate)'
  BY <1>1, <1>2, <1>3 DEF Ending, Looking
<1> QED
  BY <1>1, <1>2, <1>3, <1>5, <1>6, <1>7, <1>8, WriterOrdered

\* The end of a copy, and the close of the proxy when all of in is copied.
LEMMA PopulateNextOrdered ==
    ASSUME Safe, Safe', Ordered, PopulateNext \/ PopulateClose
    PROVE  Ordered'
<1> USE BroadcastAssumption
<1>1. /\ Types /\ Populate \in Reader /\ Ending(Populate) /\ Copied /\ Reads(Populate)
      /\ Populate \notin Port /\ "in" \in Strm /\ "proxy" \in Strm /\ KeyId \in Ports("in")
      /\ Cells /\ Lists
  BY Constants, NobodyOf, FactsOf DEF Safe, Ordered
<1>2. UNCHANGED <<max_ports, list, freed, listeners, cur, asking, node, closed, ret, took, promised>>
  BY DEF PopulateNext, PopulateClose, Copying
<1>3. (Given' <=> Given) /\ \A r, j : Past(r, j)' = Past(r, j)
  BY <1>2 DEF Past, Given
<1>4. CASE PopulateNext
  <2>1. /\ rpc[Populate] = "sweep" /\ rpc' = [rpc EXCEPT ![Populate] = "load"] /\ off' = off
        /\ op' = [op EXCEPT ![Populate] = "depleted"]
    BY <1>4 DEF PopulateNext, To
  <2>2. /\ rpc'[Populate] = "load"
        /\ \A u \in Reader : u # Populate => FrameKept(u) /\ closed'[u] = closed[u]
    BY <1>1, <1>2, <2>1 DEF Types, FrameKept
  <2>3. Grown
    BY <1>2, <2>1, ListsStill
  <2>4. Copied'
    BY <1>1, <1>2, <1>3, <2>1, <2>2 DEF Copied, Waiting
  <2>5. Ending(Populate)'
    BY <1>1, <1>2, <2>1, <2>2 DEF Ending, Looking
  <2> QED
    BY <1>1, <1>2, <1>3, <2>2, <2>3, <2>4, <2>5, WriterOrdered
<1>5. CASE PopulateClose
  <2>1. /\ rpc[Populate] = "end" /\ rpc' = [rpc EXCEPT ![Populate] = "cleanup"] /\ op' = op
        /\ off' = [off EXCEPT !["proxy"] = TRUE]
    BY <1>5 DEF PopulateClose, To, CloseProxy
  <2>2. /\ rpc'[Populate] = "cleanup"
        /\ \A u \in Reader : u # Populate => FrameKept(u) /\ closed'[u] = closed[u]
    BY <1>1, <1>2, <2>1 DEF Types, FrameKept
  <2>3. off'["in"] = off["in"] /\ \A r \in Strm : off[r] => off'[r]
    BY <1>1, <2>1 DEF Types
  <2>4. Grown
    BY <1>1, <1>2, <2>3 DEF Grown, Lists
  <2>5. /\ cur[Populate] = "in" /\ PortOf(Populate) = KeyId /\ InUse(Populate)
        /\ off["in"] /\ Cell(Populate) = 0
    <3>1. cur[Populate] = "in" /\ PortOf(Populate) = KeyId /\ InUse(Populate)
      BY <2>1, PopulateOf DEF Waiting
    <3> QED
      BY <1>1, <2>1, <3>1 DEF Ending
  <2>6. /\ Read(Populate) = Past("in", KeyId) /\ Read(Populate) \in Nat /\ Len(list["in"]) \in Nat
        /\ Read(Populate) <= Len(list["in"])
        /\ Cell(Populate) = IF Read(Populate) < Len(list["in"]) THEN Read(Populate) + 1 ELSE 0
    BY <1>1, <2>5 DEF Cells, Read
  <2>7. Past("in", KeyId) = Len(list["in"])
    BY <2>5, <2>6
  <2>8. Len(list["proxy"]) = Len(list["in"])
    BY <1>1, <2>1, <2>7 DEF Copied, Waiting, Lists
  <2>9. Copied'
    BY <1>1, <1>2, <2>2, <2>3, <2>5, <2>8 DEF Copied, Waiting
  <2>10. Ending(Populate)'
    BY <1>1, <1>2, <2>1, <2>2, <2>3 DEF Ending, Looking
  <2> QED
    BY <1>1, <1>2, <1>3, <2>2, <2>4, <2>9, <2>10, WriterOrdered
<1> QED
  BY <1>4, <1>5

\* populate ends and is no listener of in any more.
LEMMA PopulateCleanupOrdered ==
    ASSUME Safe, Safe', Ordered, PopulateCleanup
    PROVE  Ordered'
<1> USE BroadcastAssumption
<1>1. /\ Types /\ Populate \in Reader /\ Ending(Populate) /\ Copied /\ Reads(Populate)
      /\ Populate \notin Port /\ "in" \in Strm /\ "out" \in Strm /\ KeyId \in Ports("in")
      /\ Populate \notin Ports("out")
  BY Constants, NobodyOf, PortsOf DEF Safe, Ordered
<1>2. /\ UNCHANGED <<max_ports, list, freed, off, op, cur, asking, node, closed, ret, took, promised>>
      /\ rpc[Populate] = "cleanup" /\ rpc' = [rpc EXCEPT ![Populate] = "ended"]
      /\ listeners' = [listeners EXCEPT !["in"][KeyId] = NULL]
  BY DEF PopulateCleanup, Copying, To
<1>3. /\ rpc'[Populate] = "ended"
      /\ \A u \in Reader : u # Populate => FrameKept(u) /\ closed'[u] = closed[u]
  BY <1>1, <1>2 DEF Types, FrameKept
<1>4. Grown /\ (Given' <=> Given)
  BY <1>2, ListsStill
<1>5. max_ports > 1 /\ proxy = "live" /\ Given
  <2>1. max_ports > 1 /\ proxy = "live"
    BY <1>2, PopulateOf
  <2> QED
    BY <2>1 DEF Safe, Gift
<1>6. \A r \in Strm : r # "in" => /\ listeners'[r] = listeners[r]
                                  /\ \A j : Past(r, j)' = Past(r, j)
  <2>1. \A r \in Strm : r # "in" => listeners'[r] = listeners[r]
    BY <1>1, <1>2 DEF Types
  <2> QED
    BY <1>2, <2>1 DEF Past
<1>7. ASSUME NEW u \in Reader, u # Populate, InUse(u) PROVE Read(u)' = Read(u)
  <2>1. cur[u] \in Strm /\ cur[u] # "in"
    <3>1. cur[u] \in Strm /\ (cur[u] = "in" => max_ports = 1)
      BY <1>7, HeldOf DEF Safe
    <3> QED
      BY <1>5, <3>1
  <2>2. PICK c, q : c = cur[u] /\ q = PortOf(u)
    OBVIOUS
  <2>3. cur'[u] = c /\ PortOf(u)' = q
    BY <1>3, <1>7, <2>2, PortKept
  <2>4. Read(u) = Past(c, q) /\ Read(u)' = Past(c, q)'
    BY <2>2, <2>3 DEF Read, Past
  <2> QED
    BY <1>6, <2>1, <2>2, <2>4
<1>8. ASSUME NEW u \in Ports("out") PROVE PastGiven(u)' = PastGiven(u)
  <2>1. /\ Inner = "proxy" /\ InnerPort(u) = u /\ Inner' = "proxy" /\ InnerPort(u)' = u
    BY <1>2, <1>5 DEF Inner, InnerPort
  <2>2. Past("proxy", u)' = Past("proxy", u)
    BY <1>6, NobodyOf
  <2> QED
    BY <1>4, <1>5, <2>1, <2>2 DEF PastGiven
<1>9. Unnoticed(Populate)
  <2>1. \A u \in Ports("out") : /\ listeners'["out"][u] = listeners["out"][u]
                                /\ Past("out", u)' = Past("out", u)
    BY <1>1, <1>6
  <2>2. \A u \in Reader : u # Populate => (InUse(u) => Read(u)' = Read(u))
    BY <1>7
  <2>3. \A u \in Ports("out") : PastGiven(u)' = PastGiven(u)
    BY <1>8
  <2> QED
    BY <1>2, <1>3, <1>4, <2>1, <2>2, <2>3 DEF Unnoticed
<1>10. Fresh'
  BY <1>4, <1>5 DEF Fresh
<1>11. Copied'
  BY <1>1, <1>2, <1>3 DEF Copied, Waiting
<1>12. Ending(Populate)'
  BY <1>1, <1>2, <1>3 DEF Ending, Looking
<1> QED
  BY <1>1, <1>9, <1>10, <1>11, <1>12, OrderedKept
-----------------------------------------------------------------------------
(***************************************************************************)
(* The order is an invariant                                               *)
(***************************************************************************)
\* At first nothing is put and nobody listens to out.
LEMMA InitOrdered ==
    ASSUME Init, Safe
    PROVE  Ordered
<1> USE BroadcastAssumption
<1>1. /\ list = [s \in Strm |-> << >>] /\ freed = [s \in Strm |-> 0] /\ off = [s \in Strm |-> FALSE]
      /\ listeners = [s \in Strm |-> [i \in Ports(s) |-> IF s = "in" THEN 0 ELSE NULL]]
      /\ rpc = [t \in Reader |-> IF t = Populate THEN "none" ELSE "idle"]
      /\ op = [t \in Reader |-> NULL] /\ cur = [t \in Reader |-> "out"]
      /\ closed = [t \in Reader |-> FALSE] /\ promised = [i \in Port |-> FALSE]
  BY DEF Init
<1>2. "out" \in Strm /\ "in" \in Strm /\ "proxy" \in Strm /\ KeyId \in Ports("in")
      /\ Populate \in Reader
  BY Constants, NobodyOf
<1>3. Fresh
  BY <1>1, <1>2 DEF Fresh
<1>4. Copied
  BY <1>1, <1>2 DEF Copied, Waiting
<1>5. \A t \in Ports("out") : Taken(t)
  BY <1>1, <1>2 DEF Taken
<1>6. \A t \in Reader : Ending(t)
  BY <1>1, <1>2 DEF Ending, Looking
<1>7. \A t \in Port : Promise(t)
  BY <1>1 DEF Promise
<1> QED
  BY <1>3, <1>4, <1>5, <1>6, <1>7 DEF Ordered

\* A step of a listener keeps the order.
LEMMA ListeningOrdered ==
    ASSUME Safe, Safe', Ordered, NEW t \in Port, Listening(t)
    PROVE  Ordered'
<1>1. t \in Reader
  BY Constants, BroadcastAssumption
<1>2. CASE Wait(t) \/ End(t) \/ EndOfGiven(t)
  BY <1>1, <1>2, WaitOrdered, EndOrdered, EndOfGivenOrdered
<1>3. CASE EnterGiven(t) \/ AskedGiven(t)
  BY <1>3, EnterOrdered
<1>4. CASE Found(t)
  BY <1>4, FoundOrdered
<1>5. CASE Look(t, "ready") \/ Look(t, "empty")
  BY <1>5, LookOrdered
<1>6. CASE LookClosed(t)
  BY <1>6, LookClosedOrdered
<1>7. CASE LookInside(t) \/ LookAnswer(t)
  BY <1>7, LookInsideOrdered
<1>8. CASE LookPast(t)
  BY <1>8, LookPastOrdered
<1> QED
  BY <1>2, <1>3, <1>4, <1>5, <1>6, <1>7, <1>8 DEF Listening

\* Every step keeps it.
LEMMA NextOrdered ==
    ASSUME Safe, Safe', Ordered, Next
    PROVE  Ordered'
<1>1. Populate \in Reader /\ {"out", "in", "proxy"} = Strm
  BY Constants, BroadcastAssumption
<1>2. CASE (\E s \in {"out", "in"} : Put(s)) \/ GiveOne
  BY <1>2, PutOrdered
<1>3. CASE \E s \in {"out", "in"} : Close(s)
  BY <1>3, CloseOrdered
<1>4. CASE (\E s \in {"out", "in"} : Sweep(s)) \/ Sweep("proxy")
  BY <1>1, <1>4, SweepsOrdered
<1>5. CASE GiveAll
  BY <1>5, GiveAllOrdered
<1>6. CASE SweepCancel \/ SweepJoin \/ Destroy
  BY <1>6, SweepsOrdered
<1>7. CASE Destroyed
  BY <1>7, DestroyedOrdered
<1>8. CASE \E t \in Port : Listen(t) \/ Cancel(t)
  BY <1>8, ListenOrdered
<1>9. CASE \E t \in Port : Listening(t)
  BY <1>9, ListeningOrdered
<1>10. CASE \E t \in Port : \E o \in Calls[max_ports] : Call(t, o)
  BY <1>10, CallOrdered
<1>11. CASE Wait(Populate) \/ PopulateFound \/ PopulatePut
  BY <1>1, <1>11, WaitOrdered, PopulateFoundOrdered, PopulatePutOrdered
<1>12. CASE PopulateNext \/ PopulateClose \/ PopulateCleanup
  BY <1>12, PopulateNextOrdered, PopulateCleanupOrdered
<1> QED
  BY <1>2, <1>3, <1>4, <1>5, <1>6, <1>7, <1>8, <1>9, <1>10, <1>11, <1>12
     DEF Next, WriteOut, Populating

\* Nothing changes.
LEMMA StutterOrdered ==
    ASSUME Safe, Safe', Ordered, UNCHANGED vars
    PROVE  Ordered'
<1>1. /\ UNCHANGED <<max_ports, list, off, listeners, freed>> /\ UNCHANGED reading
  BY DEF vars, nodes
<1> QED
  BY <1>1, NobodyOf, BroadcastAssumption, SweepOrdered

\* What every listener has read, and what every call knows, fits what was put.
THEOREM OrderInvariant ==
    Spec => [](Safe /\ Ordered)
<1>1. Init => Safe /\ Ordered
  BY InitSafe, InitOrdered, BroadcastAssumption
<1>2. Safe /\ Ordered /\ [Next]_vars => (Safe /\ Ordered)'
  <2>1. ASSUME Safe, Ordered, Next PROVE (Safe /\ Ordered)'
    <3>1. Safe'
      BY <2>1, NextSafe, BroadcastAssumption
    <3>2. Ordered'
      BY <2>1, <3>1, NextOrdered
    <3> QED
      BY <3>1, <3>2
  <2>2. ASSUME Safe, Ordered, UNCHANGED vars PROVE (Safe /\ Ordered)'
    <3>1. Safe'
      BY <2>2, StutterSafe, BroadcastAssumption
    <3>2. Ordered'
      BY <2>2, <3>1, StutterOrdered
    <3> QED
      BY <3>1, <3>2
  <2> QED
    BY <2>1, <2>2
<1> QED
  BY <1>1, <1>2, PTL DEF Spec
-----------------------------------------------------------------------------
(***************************************************************************)
(* What calls return                                                       *)
(***************************************************************************)
\* Where a listener's call is when a step ends it.
Ends(t) ==
    \/ rpc[t] = "end" /\ ~asking[t] /\ op[t] = "depleted"
    \/ rpc[t] = "have" /\ ~IsGiven(t) /\ (asking[t] => op[t] = "depleted")
    \/ rpc[t] \in Asking /\ (Cell(t) = 0 \/ list["out"][Cell(t)] # GIVEN)
    \/ rpc[t] = "closed" /\ op[t] = "empty" /\ ~off["in"]
    \/ rpc[t] = "some"
    \/ rpc[t] = "past" /\ ~closed[t]

\* A step of a reader changes where that reader is.
LEMMA ReaderMoves ==
    ASSUME NEW t \in Reader,
           IF t = Populate THEN Populating /\ ~Sweep("proxy") ELSE Listening(t)
    PROVE  rpc' = rpc \/ \E x : rpc' = [rpc EXCEPT ![t] = x]
<1>1. CASE Wait(t)
  BY <1>1 DEF Wait, Load, CheckOff, Reload, To
<1>2. CASE End(t) \/ EndOfGiven(t) \/ EnterGiven(t) \/ AskedGiven(t) \/ Found(t)
  BY <1>2 DEF End, EndOfGiven, EnterGiven, AskedGiven, Found, Again, To, ReturnOnly, Return,
              reading, frame
<1>3. CASE Look(t, "ready") \/ Look(t, "empty") \/ LookClosed(t)
  BY <1>3 DEF Look, LookClosed, To, ReturnOnly, Return, reading, frame
<1>4. CASE LookInside(t) \/ LookAnswer(t) \/ LookPast(t)
  BY <1>4 DEF LookInside, LookAnswer, LookPast, To, ReturnOnly, Return
<1>5. CASE t = Populate /\ PopulateFound
  BY <1>5 DEF PopulateFound, Again, To
<1>6. CASE t = Populate /\ (PopulatePut \/ PopulateNext \/ PopulateClose \/ PopulateCleanup)
  BY <1>6 DEF PopulatePut, PopulateNext, PopulateClose, PopulateCleanup, To
<1> QED
  BY <1>1, <1>2, <1>3, <1>4, <1>5, <1>6 DEF Listening, Populating

\* A listener's call is ended by the listener.
LEMMA OthersStay ==
    ASSUME Safe, Next, NEW t \in Port, rpc[t] # "idle", rpc'[t] # rpc[t]
    PROVE  Listening(t)
<1> USE BroadcastAssumption
<1>1. Types /\ t \in Reader /\ t # Populate /\ Populate \in Reader
  BY Constants DEF Safe
<1>2. ASSUME rpc' = rpc PROVE FALSE
  BY <1>2
<1>3. ASSUME NEW u \in Reader, u # t, NEW x, rpc' = [rpc EXCEPT ![u] = x] PROVE FALSE
  BY <1>1, <1>3 DEF Types
<1>4. ~Sweep("proxy")
  BY <1>2 DEF Sweep, SweepFirst, SweepStop, SweepFree, reading, frame
<1>5. \A s \in {"out", "in"} : ~(Put(s) \/ Close(s) \/ Sweep(s))
  BY <1>2 DEF Put, Close, Sweep, SweepFirst, SweepStop, SweepFree, reading, frame
<1>6. ~(GiveOne \/ WriteOut \/ Destroy)
  BY <1>2 DEF GiveOne, WriteOut, SweepCancel, SweepJoin, Destroyed, Destroy, reading, frame
<1>7. ~GiveAll
  BY <1>1, <1>3 DEF GiveAll
<1>8. \A u \in Port : ~(Listen(u) \/ Cancel(u))
  BY <1>2 DEF Listen, Cancel, frame
<1>9. ASSUME NEW u \in Port, NEW o, Call(u, o) PROVE FALSE
  <2>1. u \in Reader
    BY Constants
  <2>2. rpc[u] = "idle" /\ \E x : rpc' = [rpc EXCEPT ![u] = x]
    BY <1>9, <2>1, AtStep DEF Call, To
  <2>3. u # t
    BY <2>2
  <2> QED
    BY <1>3, <2>1, <2>2, <2>3
<1>10. ~Populating
  <2> SUFFICES ASSUME Populating PROVE FALSE
    OBVIOUS
  <2>1. rpc' = rpc \/ \E x : rpc' = [rpc EXCEPT ![Populate] = x]
    BY <1>1, <1>4, ReaderMoves
  <2> QED
    BY <1>1, <1>2, <1>3, <2>1
<1>11. ASSUME NEW u \in Port, Listening(u) PROVE u = t
  <2>1. u \in Reader /\ u # Populate
    BY Constants
  <2>2. rpc' = rpc \/ \E x : rpc' = [rpc EXCEPT ![u] = x]
    BY <1>11, <2>1, ReaderMoves
  <2> QED
    BY <1>2, <1>3, <2>1, <2>2
<1> QED
  BY <1>5, <1>6, <1>7, <1>8, <1>9, <1>10, <1>11 DEF Next

\* It ends there and nowhere else.
LEMMA EndsOf ==
    ASSUME Safe, [Next]_vars, NEW t \in Port, InUse(t), rpc'[t] = "idle"
    PROVE  Ends(t)
<1> USE BroadcastAssumption
<1>1. Types /\ t \in Reader /\ t # Populate /\ Reads(t) /\ rpc[t] # "idle"
  BY Constants DEF Safe, InUse
<1>2. Listening(t)
  <2>1. ~UNCHANGED vars
    BY <1>1 DEF vars, reading, frame
  <2> QED
    BY <1>1, <2>1, OthersStay
<1>3. ASSUME NEW x, x # "idle", rpc' = [rpc EXCEPT ![t] = x] PROVE FALSE
  BY <1>1, <1>3 DEF Types
<1>4. ~UNCHANGED reading
  BY <1>1 DEF reading, frame
<1>5. CASE Wait(t)
  <2>1. CASE Load(t)
    <3>1. rpc' = [rpc EXCEPT ![t] = IF Cell(t) = 0 THEN "off" ELSE "have"]
      BY <2>1 DEF Load, To
    <3> QED
      BY <1>3, <3>1
  <2>2. CASE CheckOff(t)
    <3>1. rpc' = [rpc EXCEPT ![t] = CASE off[cur[t]]                -> "reload"
                                      [] ~off[cur[t]] /\ Cancels(t) -> "cleanup"
                                      [] OTHER                      -> "load"]
      BY <2>2 DEF CheckOff, To
    <3> QED
      BY <1>3, <3>1
  <2>3. CASE Reload(t)
    <3>1. rpc' = [rpc EXCEPT ![t] = IF Reloaded(t) = 0 THEN "end" ELSE "have"]
      BY <2>3 DEF Reload, To
    <3> QED
      BY <1>3, <3>1
  <2> QED
    BY <1>5, <2>1, <2>2, <2>3 DEF Wait
<1>6. CASE End(t)
  BY <1>1, <1>4, <1>6, AtStep DEF End, Ends
<1>7. CASE EndOfGiven(t) \/ EnterGiven(t) \/ AskedGiven(t)
  <2>1. rpc' = [rpc EXCEPT ![t] = "load"]
    BY <1>7 DEF EndOfGiven, EnterGiven, AskedGiven, Again, To
  <2> QED
    BY <1>3, <2>1
<1>8. CASE Found(t)
  BY <1>1, <1>8, AtStep DEF Found, Ends
<1>9. ASSUME NEW o \in Asking, Look(t, o) PROVE Ends(t)
  <2>1. rpc[t] = o
    BY <1>1, <1>9, AtStep DEF Look
  <2>2. ~(rpc' = [rpc EXCEPT ![t] = "closed"])
    BY <1>3
  <2>3. Cell(t) = 0 \/ list["out"][Cell(t)] # GIVEN
    BY <1>4, <1>9, <2>2 DEF Look, To
  <2> QED
    BY <1>9, <2>1, <2>3 DEF Ends
<1>10. CASE LookClosed(t)
  <2>1. ~(rpc' = [rpc EXCEPT ![t] = "inside"])
    BY <1>3
  <2> QED
    BY <1>1, <1>10, <2>1, AtStep DEF LookClosed, To, Ends
<1>11. CASE LookInside(t)
  <2>1. rpc' = [rpc EXCEPT ![t] = IF Cell(t) # 0 THEN "some" ELSE "past"]
    BY <1>11 DEF LookInside, To
  <2> QED
    BY <1>3, <2>1
<1>12. CASE LookAnswer(t)
  BY <1>1, <1>12, AtStep DEF LookAnswer, WasClosed, Ends
<1>13. CASE LookPast(t)
  <2>1. rpc[t] = "past" /\ rpc' = [rpc EXCEPT ![t] = op[t]]
    BY <1>1, <1>13, AtStep DEF LookPast, To
  <2>2. op[t] # "idle"
    BY <1>1, <2>1 DEF Reads, Asking, Looking
  <2> QED
    BY <1>3, <2>1, <2>2
<1> QED
  BY <1>2, <1>5, <1>6, <1>7, <1>8, <1>9, <1>10, <1>11, <1>12, <1>13 DEF Listening, Asking

\* An empty cell of its own stream: there is nothing left.
LEMMA OutEmpty ==
    ASSUME Safe, Ordered, NEW t \in Port, InUse(t), cur[t] = "out", Cell(t) = 0
    PROVE  Vacant(t)
<1> DEFINE p == Past("out", t)
           m == Len(list["out"])
<1>1. /\ t \in Reader /\ t \in Ports("out") /\ listeners["out"][t] # NULL /\ Read(t) = p
  BY ReadOf
<1>2. p \in Nat /\ m \in Nat /\ p <= m /\ Cell(t) = (IF p < m THEN p + 1 ELSE 0)
  BY <1>1, FactsOf DEF Cells
<1> HIDE DEF p, m
<1>3. ~(p < m)
  BY <1>2
<1>4. ~InGiven(t)
  <2>1. ~(p + 1 <= m)
    BY <1>2, <1>3
  <2>2. ~GivenAt(p + 1)
    BY <2>1 DEF GivenAt, m
  <2> QED
    BY <1>1, <2>2, FactsOf DEF InGivens, p
<1> QED
  BY <1>1, <1>3, <1>4, NotAtGiven DEF Vacant, Given, p, m

\* The next element is the one a call has found, in its own stream or in the given one.
LEMMA NextElement ==
    ASSUME Safe, Ordered, NEW t \in Port, InUse(t), Cell(t) # 0,
           cur[t] = "out" => list["out"][Cell(t)] # GIVEN,
           op[t] = "peek" /\ ~asking[t] /\ cur[t] = "in" => KeyId = 0
    PROVE  took[t] < Len(Flat) /\ Flat[took[t] + 1] = list[cur[t]][Cell(t)]
<1>1. /\ t \in Reader /\ t \in Ports("out") /\ listeners["out"][t] # NULL
      /\ Cells /\ InGivens /\ Lists /\ Copied /\ cur[t] \in Strm
  BY ReadOf, FactsOf DEF Cells, Ordered
<1>2. PICK c : c = cur[t]
  OBVIOUS
<1> DEFINE p == Read(t)
           m == Len(list[c])
<1>3. p \in Nat /\ m \in Nat /\ p < m /\ Cell(t) = p + 1
  BY <1>1, <1>2 DEF Cells
<1>4. CASE c = "out"
  <2>1. p = Past("out", t)
    BY <1>2, <1>4, ReadOf
  <2>2. ~GivenAt(p + 1)
    BY <1>2, <1>3, <1>4 DEF GivenAt
  <2>3. ~InGiven(t)
    BY <1>1, <2>1, <2>2 DEF InGivens
  <2> HIDE DEF p
  <2>4. /\ Past("out", t) < Len(list["out"]) =>
             took[t] < Len(Flat) /\ Flat[took[t] + 1] = list["out"][Past("out", t) + 1]
    BY <1>1, <2>3, NotAtGiven
  <2> QED
    BY <1>2, <1>3, <1>4, <2>1, <2>4
<1>5. CASE c # "out"
  <2> DEFINE q == Past("out", t)
             k == Len(list["in"])
             x == Len(Flat)
  <2>1. c = Inner /\ InGiven(t) /\ p = PastGiven(t)
    BY <1>2, <1>5, ReadOf
  <2>2. /\ took[t] = q + p /\ q \in Nat /\ k \in Nat /\ x \in Nat /\ x >= q + k
        /\ \A j \in 1 .. k : Flat[q + j] = list["in"][j]
    BY <1>1, <2>1, AtGiven
  <2>3. p + 1 <= k /\ list["in"][p + 1] = list[c][p + 1]
    <3>1. CASE c = "in"
      <4>1. m = k
        BY <3>1
      <4> HIDE DEF p, m, k
      <4> QED
        BY <1>3, <2>2, <3>1, <4>1
    <3>2. CASE c # "in"
      <4>1. c = "proxy"
        BY <2>1, <3>2 DEF Inner
      <4>2. m <= k /\ \A j \in 1 .. m : list["proxy"][j] = list["in"][j]
        BY <1>1, <4>1 DEF Copied
      <4> HIDE DEF p, m, k
      <4>3. p + 1 \in 1 .. m /\ p + 1 <= k
        BY <1>3, <2>2, <4>2
      <4> QED
        BY <4>1, <4>2, <4>3
    <3> QED
      BY <3>1, <3>2
  <2> HIDE DEF p, m, q, k, x
  <2>4. p + 1 \in 1 .. k /\ took[t] + 1 = q + (p + 1) /\ took[t] < x
    BY <1>3, <2>2, <2>3
  <2>5. Flat[took[t] + 1] = list[c][p + 1]
    BY <2>2, <2>3, <2>4
  <2> QED
    BY <1>2, <1>3, <2>4, <2>5 DEF x
<1> QED
  BY <1>4, <1>5

\* A call returns the element that is next.
LEMMA TakesNext ==
    ASSUME Safe, Ordered, [Next]_vars, 1 \in OutPorts => KeyId = 0,
           NEW t \in Port, rpc[t] = "have", rpc'[t] = "idle", op[t] \in {"get", "peek"}
    PROVE  took[t] < Len(Flat) /\ Answer(t) = Flat[took[t] + 1]
<1>1. InUse(t)
  BY DEF InUse
<1>2. t \in Reader /\ Reads(t) /\ max_ports \in OutPorts
  BY <1>1, ReadOf DEF Safe, Types
<1>3. ~IsGiven(t)
  BY <1>1, EndsOf DEF Ends, Asking
<1>4. node[t] = Cell(t) /\ Cell(t) # 0
  BY <1>2 DEF Reads
<1>5. cur[t] = "out" => list["out"][Cell(t)] # GIVEN
  BY <1>3, <1>4 DEF IsGiven
<1>6. cur[t] = "in" => KeyId = 0
  BY <1>1, <1>2, ReadOf
<1>7. took[t] < Len(Flat) /\ Flat[took[t] + 1] = list[cur[t]][Cell(t)]
  BY <1>1, <1>4, <1>5, <1>6, NextElement
<1>8. Answer(t) = list[cur[t]][node[t]]
  BY DEF Answer
<1> QED
  BY <1>4, <1>7, <1>8

\* Every listener gets what was put since it listened, in order and without a gap, and a
\* given stream whole and in its place, where the port of the given key is the number that
\* peek reads it by: get and peek of include/stream.h.
THEOREM ElementsInOrder ==
    (1 \in OutPorts => KeyId = 0) => (Spec => InOrder)
<1> DEFINE A == \A t \in Port :
                   rpc[t] = "have" /\ rpc'[t] = "idle" /\ op[t] \in {"get", "peek"} =>
                     took[t] < Len(Flat) /\ Answer(t) = Flat[took[t] + 1]
<1> SUFFICES ASSUME 1 \in OutPorts => KeyId = 0 PROVE Spec => InOrder
  OBVIOUS
<1>1. Safe /\ Ordered /\ [Next]_vars => [A]_vars
  BY TakesNext
<1> QED
  BY <1>1, OrderInvariant, PTL DEF Spec, InOrder

\* What ready, empty and depleted answer.
LEMMA RightAnswer ==
    ASSUME Safe, Ordered, NEW t \in Port, InUse(t), Ends(t)
    PROVE  LET yes == Answer(t) = Yes IN
           /\ op[t] = "ready" => IF yes THEN took[t] < Len(Flat) ELSE ~promised[t]
           /\ op[t] = "empty" => (yes = Vacant(t))
           /\ op[t] = "depleted" => IF yes THEN off["out"] /\ Vacant(t) ELSE took[t] < Len(Flat)
<1>1. t \in Reader /\ t # Populate /\ Reads(t) /\ Ending(t) /\ Promise(t)
  BY ReadOf DEF Safe, Ordered
<1>2. Yes # No
  BY DEF Yes, No
<1>3. took[t] < Len(Flat) => Vacant(t) = FALSE
  <2>1. took[t] \in Nat
    BY DEF Safe, Types
  <2> QED
    BY <2>1 DEF Vacant
<1>4. CASE rpc[t] = "end" /\ ~asking[t] /\ op[t] = "depleted"
  <2>1. cur[t] = "out" /\ off["out"] /\ Cell(t) = 0
    BY <1>1, <1>4 DEF Ending
  <2>2. Vacant(t)
    BY <2>1, OutEmpty
  <2>3. Answer(t) = Yes
    BY <1>4 DEF Answer
  <2> QED
    BY <1>4, <2>1, <2>2, <2>3
<1>5. CASE rpc[t] = "have" /\ ~IsGiven(t) /\ (asking[t] => op[t] = "depleted")
  <2>1. node[t] = Cell(t) /\ Cell(t) # 0 /\ op[t] \notin {"ready", "empty"}
    BY <1>1, <1>5 DEF Reads, Waiting
  <2> SUFFICES ASSUME op[t] = "depleted" PROVE Answer(t) # Yes /\ took[t] < Len(Flat)
    BY <2>1
  <2>2. Answer(t) = No
    BY <1>5 DEF Answer
  <2>3. cur[t] = "out" => list["out"][Cell(t)] # GIVEN
    BY <1>5, <2>1 DEF IsGiven
  <2> QED
    BY <1>2, <2>1, <2>2, <2>3, NextElement
<1>6. CASE rpc[t] \in Asking /\ (Cell(t) = 0 \/ list["out"][Cell(t)] # GIVEN)
  <2>1. cur[t] = "out" /\ op[t] = rpc[t] /\ op[t] \in Asking
    BY <1>1, <1>6 DEF Reads
  <2>2. Answer(t) = IF (Cell(t) = 0) = (op[t] = "empty") THEN Yes ELSE No
    BY <1>6, <2>1 DEF Answer, Asking
  <2>3. CASE Cell(t) = 0
    <3>1. Vacant(t)
      BY <2>1, <2>3, OutEmpty
    <3>2. ~promised[t]
      BY <1>1, <1>3, <3>1 DEF Promise
    <3> QED
      BY <1>2, <2>1, <2>2, <2>3, <3>1, <3>2 DEF Asking
  <2>4. CASE Cell(t) # 0
    <3>1. took[t] < Len(Flat)
      BY <1>6, <2>1, <2>4, NextElement DEF Asking
    <3>2. (Answer(t) = Yes) = (op[t] # "empty")
      BY <1>2, <2>2, <2>4
    <3> QED
      BY <1>3, <2>1, <3>1, <3>2 DEF Asking
  <2> QED
    BY <2>3, <2>4
<1>7. CASE rpc[t] = "closed" /\ op[t] = "empty" /\ ~off["in"]
  <2>1. Given
    BY <1>1, <1>7, ReadOf, AtGiven DEF Reads, Looking
  <2>2. Answer(t) = No
    BY <1>7 DEF Answer
  <2> QED
    BY <1>2, <1>7, <2>1, <2>2 DEF Vacant, Given
<1>8. CASE rpc[t] = "some"
  <2>1. Cell(t) # 0 /\ cur[t] # "out" /\ op[t] \in Asking
    BY <1>1, <1>8 DEF Ending, Reads, Looking
  <2>2. took[t] < Len(Flat)
    BY <2>1, NextElement DEF Asking
  <2>3. Answer(t) = IF op[t] = "ready" THEN Yes ELSE No
    BY <1>8 DEF Answer
  <2>4. (Answer(t) = Yes) = (op[t] = "ready")
    BY <1>2, <2>3
  <2> QED
    BY <1>3, <2>1, <2>2, <2>4 DEF Asking
<1>9. CASE rpc[t] = "past" /\ ~closed[t]
  <2>1. op[t] = "ready" /\ ~promised[t]
    BY <1>1, <1>9 DEF Ending, Promise, Reads, Looking, Asking
  <2>2. Answer(t) = No
    BY <1>9 DEF Answer
  <2> QED
    BY <1>2, <2>1, <2>2
<1> QED
  BY <1>4, <1>5, <1>6, <1>7, <1>8, <1>9 DEF Ends

\* ready, empty and depleted of include/stream.h say yes only when the call that follows
\* finds what they promise, and no only when there was none.
THEOREM AnswersAreRight ==
    Spec => AnswersRight
<1> DEFINE A == \A t \in Port : InUse(t) /\ rpc'[t] = "idle" =>
                   LET yes == Answer(t) = Yes IN
                   /\ op[t] = "ready" => IF yes THEN took[t] < Len(Flat) ELSE ~promised[t]
                   /\ op[t] = "empty" => (yes = Vacant(t))
                   /\ op[t] = "depleted" => IF yes THEN off["out"] /\ Vacant(t)
                                                   ELSE took[t] < Len(Flat)
<1>1. Safe /\ Ordered /\ [Next]_vars => [A]_vars
  BY EndsOf, RightAnswer
<1> QED
  BY <1>1, OrderInvariant, PTL DEF Spec, AnswersRight
=============================================================================
