------------------------------ MODULE LinkMap ------------------------------
(***************************************************************************)
(* The link database of class Topology (src/libs/controller/topology.cc):  *)
(* m_links, m_linkPorts, m_graph and m_routing, with the two operations    *)
(* that write them, AddLink and RemovePort.                                *)
(*                                                                         *)
(* A port stands for the pair (dpid, port number) the code passes around;  *)
(* At[p] is its switch.  The cabling of a scenario is fixed when the       *)
(* simulation is built, so the only pairs AddLink ever receives are the    *)
(* two ends of a cable, in either order: Peer maps each cabled port to the *)
(* other end.  Two switches may be joined by several cables.               *)
(***************************************************************************)
EXTENDS FiniteSets

CONSTANTS Switch,  \* datapath ids
          Port,    \* (dpid, port number) pairs
          At,      \* the switch of a port
          Peer,    \* the other end of a cabled port
          None     \* an absent map entry

ASSUME CableAssumption ==
  /\ IsFiniteSet(Switch) /\ IsFiniteSet(Port)
  /\ At \in [Port -> Switch]
  /\ DOMAIN Peer \subseteq Port
  /\ Peer \in [DOMAIN Peer -> DOMAIN Peer]
  /\ \A p \in DOMAIN Peer : Peer[Peer[p]] = p /\ At[Peer[p]] # At[p]
  /\ None \notin Port

Cabled == DOMAIN Peer

VARIABLES
  links,      \* m_links: port -> the port it was discovered to lead to
  linkPorts,  \* m_linkPorts: ports known to be inter-switch ports
  graph,      \* m_graph: adjacency used by Dijkstra, BFS and Tarjan
  routing     \* m_routing: src -> dst -> out port, for adjacent switches

linkVars == <<links, linkPorts, graph, routing>>

LinkTypeOK ==
  /\ links \in [Port -> Port \cup {None}]
  /\ linkPorts \in SUBSET Port
  /\ graph \in [Switch -> SUBSET Switch]
  /\ routing \in [Switch -> [Switch -> Port \cup {None}]]

LinkInit ==
  /\ links = [p \in Port |-> None]
  /\ linkPorts = {}
  /\ graph = [s \in Switch |-> {}]
  /\ routing = [s \in Switch |-> [d \in Switch |-> None]]

-----------------------------------------------------------------------------
(* AddLink returns false, and changes nothing, when its first end already   *)
(* leads to its second end.  Only that end is looked up.                    *)
AlreadyKnown(p, q) == links[p] = q

\* Mutant of RecordLink: AddAdjacency called with the two out ports swapped.
RecordLinkSwapped(p, q) ==
  /\ links' = [links EXCEPT ![p] = q, ![q] = p]
  /\ linkPorts' = linkPorts \cup {p, q}
  /\ graph' = [graph EXCEPT ![At[p]] = @ \cup {At[q]},
                            ![At[q]] = @ \cup {At[p]}]
  /\ routing' = [routing EXCEPT ![At[p]][At[q]] = q,
                                ![At[q]][At[p]] = p]

\* The writes of AddLink for a new link; AddAdjacency is its last two lines,
\* and it overwrites the out port of a pair that is already adjacent.
RecordLink(p, q) ==
  /\ links' = [links EXCEPT ![p] = q, ![q] = p]
  /\ linkPorts' = linkPorts \cup {p, q}
  /\ graph' = [graph EXCEPT ![At[p]] = @ \cup {At[q]},
                            ![At[q]] = @ \cup {At[p]}]
  /\ routing' = [routing EXCEPT ![At[p]][At[q]] = p,
                                ![At[q]][At[p]] = q]

\* Mutant of StillLinked: the search forgets to compare the far switch.
StillLinkedAnywhere(lk, s, d) == \E r \in Port : At[r] = s /\ lk[r] # None

\* Mutant of StillLinked: parallel links are not looked for.
StillLinkedNever(lk, s, d) == FALSE

\* RemoveAdjacency keeps the edge, and the out port whatever it is, while
\* some link in lk still leads from s to d.
StillLinked(lk, s, d) ==
  \E r \in Port : At[r] = s /\ lk[r] # None /\ At[lk[r]] = d

\* Mutant of BothEnds: the reverse mapping is left behind.
BothEndsForgotten(p) == {p}

\* The local end of a link and the end its entry names.
BothEnds(p) == {p, links[p]}

\* RemovePort for a port that has a link: both ends are erased from links
\* and linkPorts, then each direction of the adjacency on its own.
EraseLink(p) ==
  LET Gone(s, d) == /\ {s, d} = {At[p], At[links[p]]}
                    /\ ~StillLinked(links', s, d)
  IN  /\ links' = [r \in Port |-> IF r \in BothEnds(p) THEN None ELSE links[r]]
      /\ linkPorts' = linkPorts \ BothEnds(p)
      /\ graph' = [s \in Switch |-> {d \in graph[s] : ~Gone(s, d)}]
      /\ routing' = [s \in Switch |-> [d \in Switch |->
                       IF Gone(s, d) THEN None ELSE routing[s][d]]]

\* The whole of AddLink and of RemovePort, as far as the link database goes.
AddLink(p, q) ==
  \/ AlreadyKnown(p, q) /\ UNCHANGED linkVars
  \/ ~AlreadyKnown(p, q) /\ RecordLink(p, q)

RemovePort(p) ==
  \/ links[p] = None /\ UNCHANGED linkVars
  \/ links[p] # None /\ EraseLink(p)

LinkNext ==
  \/ \E p \in Cabled : AddLink(p, Peer[p])
  \/ \E p \in Port : RemovePort(p)

LinkSpec == LinkInit /\ [][LinkNext]_linkVars

-----------------------------------------------------------------------------
(* A link is recorded at both of its ends or at neither, it follows a real  *)
(* cable, and the fast lookup IsSwitchLinkPort answers exactly for the ends *)
(* of recorded links.  MAC learning, flooding and probing all trust that    *)
(* lookup to tell a host port from an inter-switch port.                    *)
LinksSymmetric ==
  /\ \A p \in Port : links[p] # None =>
       p \in Cabled /\ links[p] = Peer[p] /\ links[links[p]] = p
  /\ linkPorts = {p \in Port : links[p] # None}

(* Two switches are adjacent in the graph exactly while at least one link   *)
(* joins them: removing one of two parallel links must not cut the edge,    *)
(* removing the last one must.                                              *)
GraphMatchesLinks ==
  \A s, d \in Switch :
    d \in graph[s] <=>
      \E r \in Port : At[r] = s /\ links[r] # None /\ At[links[r]] = d

(* GetOutPort answers exactly for adjacent pairs, with a port of the source *)
(* switch that is cabled to the destination.                                *)
RoutingOverCables ==
  \A s, d \in Switch :
    /\ routing[s][d] # None <=> d \in graph[s]
    /\ routing[s][d] # None =>
         /\ routing[s][d] \in Cabled
         /\ At[routing[s][d]] = s
         /\ At[Peer[routing[s][d]]] = d

LinkInv == LinkTypeOK /\ LinksSymmetric /\ GraphMatchesLinks /\ RoutingOverCables

\* No two cables join s and d.
SoleCable(s, d) ==
  \A p, q \in Cabled :
    At[p] = s /\ At[q] = s /\ At[Peer[p]] = d /\ At[Peer[q]] = d => p = q

(* Between switches that share one cable the out port is the end of a link   *)
(* that exists now, however many links either switch has elsewhere.  With    *)
(* parallel cables it need not be: RemoveAdjacency keeps the removed port.   *)
SoleOutPortAlive ==
  \A s, d \in Switch :
    SoleCable(s, d) /\ routing[s][d] # None => links[routing[s][d]] # None
=============================================================================
