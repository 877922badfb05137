---------------------------- MODULE Datacenters ----------------------------
(***************************************************************************)
(* datacenters.cpp: where the nodes are, in two maps that must agree, and  *)
(* getServer.  A process's maps are a record of the two.                   *)
(***************************************************************************)
EXTENDS Integers, FiniteSetsExt

CONSTANTS
    Nid,            \* the ids of nodes, numbers
    NUM_DATACENTERS,
    Nowhere         \* no location

ASSUME DatacentersAssumption ==
    /\ Nid \subseteq Nat /\ NUM_DATACENTERS \in Nat \ {0}
    /\ Nowhere \notin 0 .. NUM_DATACENTERS - 1

datacenter == 0 .. NUM_DATACENTERS - 1
UNKNOWN == 0

Maps == [datacenters : [datacenter -> SUBSET Nid], nodes : [Nid -> datacenter \cup {Nowhere}]]

NoMaps == [datacenters |-> [loc \in datacenter |-> {}], nodes |-> [nid \in Nid |-> Nowhere]]

\* It leaves prev, its location so far, if it has one.
setNodeLocation_stale(m, nid, loc) ==
    [m EXCEPT !.datacenters[loc] = @ \cup {nid},
              !.nodes[nid] = IF @ = Nowhere THEN loc ELSE @]
setNodeLocation(m, nid, loc) ==
    [datacenters |-> [d \in datacenter |->
                        IF d = loc THEN m.datacenters[d] \cup {nid}
                        ELSE IF d = m.nodes[nid] THEN m.datacenters[d] \ {nid}
                        ELSE m.datacenters[d]],
     nodes |-> [m.nodes EXCEPT ![nid] = loc]]

\* nodes[nid] puts an entry when there is none, and datacenters has none for it.
getNodeLocation(m, nid) ==
    [m EXCEPT !.nodes[nid] = IF @ = Nowhere THEN UNKNOWN ELSE @]

\* The least node of the first datacenter that has one, or -1.
getServer(m) ==
    LET used == {loc \in datacenter : m.datacenters[loc] # {}}
    IN  IF used = {} THEN -1 ELSE Min(m.datacenters[Min(used)])

\* The maps agree: a node is in the datacenter that nodes says and in no other.  Only
\* a node that was asked for before it was located is UNKNOWN and in none.
MapsAgree(m) ==
    \A nid \in Nid, loc \in datacenter :
        /\ nid \in m.datacenters[loc] => m.nodes[nid] = loc
        /\ m.nodes[nid] = loc /\ loc # UNKNOWN => nid \in m.datacenters[loc]
=============================================================================
