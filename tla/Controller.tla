----------------------------- MODULE Controller -----------------------------
(***************************************************************************)
(* The OpenFlow side of class ZmqOpenFlowController: discovery, MAC        *)
(* learning, unicast flows, the flood groups and the death of switches.    *)
(* One action per event the controller handles, each the whole handler.    *)
(*                                                                         *)
(* Link costs and the path cache are left to module Topology, which shows  *)
(* that a query answers as a fresh computation would: here a query returns *)
(* any route, and a recomputation any table of first hops, that some       *)
(* assignment of positive costs can give.  Switches apply flow-mods and    *)
(* group-mods in order, so the controller's record of them is the table.   *)
(***************************************************************************)
EXTENDS LinkMap, Paths

CONSTANTS Mac,       \* host MAC addresses; None is the address of any other host
          HostPort,  \* the port a host is attached to
          Mortal,    \* switches with an energy model, which may run empty
          Flaky,     \* ports that may be deleted and added back
          Early,     \* frames may come in on a link before its discovery
          Seeded     \* the runner seeds routes (multi-controller scenarios)

ASSUME ControllerAssumption ==
  /\ Switch \subseteq Nat
  /\ HostPort \in [Mac -> Port \ Cabled]
  /\ Mortal \subseteq Switch
  /\ Flaky \subseteq Port
  /\ None \notin Mac
  /\ Early \in BOOLEAN /\ Seeded \in BOOLEAN

VARIABLES
  connected,  \* DOMAIN m_switchMap
  asked,      \* switches that still owe a PORT_DESC reply
  ports,      \* m_switchPorts
  absent,     \* environment: deleted ports that have not been added back
  macToLoc,   \* m_macToLoc
  flows,      \* m_installedFlows: switch -> MAC -> out port
  tree,       \* m_spanningTree, as a set of ports
  group,      \* buckets of the flood group, {} until it is installed
  dead        \* m_deadNodes, which is also m_blockedNodes

portVars == <<asked, ports, absent>>
hostVars == <<macToLoc, flows>>
floodVars == <<tree, group>>
vars == <<linkVars, connected, portVars, hostVars, floodVars, dead>>

PortsOf(s) == {p \in Port : At[p] = s}

Init ==
  /\ LinkInit
  /\ connected = {} /\ asked = {} /\ ports = {} /\ absent = {}
  /\ macToLoc = [m \in Mac |-> None]
  /\ flows = [s \in Switch |-> [m \in Mac |-> None]]
  /\ tree = {}
  /\ group = [s \in Switch |-> {}]
  /\ dead = {}

-----------------------------------------------------------------------------
(* Helpers.  Those that rebuild derived state are conjuncts of the handlers *)
(* that call them; they read the state the handler has just written.       *)

\* Mutant of Buckets: link ports are not told from host ports.
BucketsUnfiltered(s) == {p \in ports \cup tree : At[p] = s}

\* InstallOrUpdateFloodGroup: the buckets it would install on s.
Buckets(s) ==
  {p \in ports : At[p] = s /\ p \notin linkPorts} \cup
  {p \in tree : At[p] = s /\ (links[p] # None => At[links[p]] \notin dead)}

\* Mutant of RefreshGroups: an installed group is never modified.
RefreshGroupsOnce(S) ==
  group' = [s \in Switch |-> IF s \in S /\ group[s] = {} THEN Buckets(s)' ELSE group[s]]

\* InstallOrUpdateFloodGroup on the switches of S; without buckets it
\* returns before it sends anything.
RefreshGroups(S) ==
  group' = [s \in Switch |-> IF s \in S /\ Buckets(s)' # {} THEN Buckets(s)' ELSE group[s]]

\* Mutant of RebuildSpanningTree: it runs before SetBlockedNodes.
RebuildSpanningTreeEarly ==
  /\ \E par \in BreadthFirstTrees(graph', dead) :
       tree' = {routing'[par[v]][v] : v \in DOMAIN par} \cup
               {routing'[v][par[v]] : v \in DOMAIN par}
  /\ RefreshGroups(connected)

\* RebuildSpanningTree: breadth-first over the unblocked switches, a port at
\* each end of every tree edge, then every connected switch's group.
RebuildSpanningTree ==
  /\ \E par \in BreadthFirstTrees(graph', dead') :
       tree' = {routing'[par[v]][v] : v \in DOMAIN par} \cup
               {routing'[v][par[v]] : v \in DOMAIN par}
  /\ RefreshGroups(connected)

\* RecomputeAllRoutes: for every known MAC, the first hop of a cheapest path
\* on every connected switch that has one.  The others keep their flow.
RecomputeAllRoutes(bl) ==
  LET Known == {m \in Mac : macToLoc[m] # None}
      Dst   == {At[macToLoc[m]] : m \in Known}
      Hops  == UNION {NextHops(graph, bl, d) : d \in Dst}
  IN  \E hop \in {h \in [Dst -> Hops] : \A d \in Dst : h[d] \in NextHops(graph, bl, d)} :
        flows' = [s \in Switch |-> [m \in Mac |->
          IF s \notin connected \/ m \notin Known THEN flows[s][m]
          ELSE LET d == At[macToLoc[m]]
               IN  IF s = d THEN macToLoc[m]
                   ELSE IF s \in DOMAIN hop[d] THEN routing[s][hop[d][s]]
                   ELSE flows[s][m]]]

\* Mutant of Learn: frames on link ports are learned from too.
LearnAnywhere(p, m) ==
  macToLoc' = IF m = None THEN macToLoc ELSE [macToLoc EXCEPT ![m] = p]

\* MAC learning: never on a port known to lead to another switch.
Learn(p, m) ==
  macToLoc' = IF m = None \/ p \in linkPorts THEN macToLoc
              ELSE [macToLoc EXCEPT ![m] = p]

\* The end of HandleLldpPacket: hosts located on a link port are forgotten.
FlushLinkPorts ==
  macToLoc' = [m \in Mac |-> IF macToLoc[m] \in linkPorts' THEN None ELSE macToLoc[m]]

\* Mutant of ForwardPacket: the last switch is left to its own table-miss.
ForwardPacketShort(s, m) ==
  LET loc == macToLoc'[m]
      R   == IF loc = None THEN {} ELSE Routes(graph, dead, s, At[loc])
  IN  IF R = {} THEN UNCHANGED flows
      ELSE \E r \in R :
             flows' = [u \in Switch |->
               IF \E i \in 1..Len(r) - 1 : r[i] = u
               THEN [flows[u] EXCEPT ![m] =
                       routing[u][r[1 + CHOOSE i \in 1..Len(r) - 1 : r[i] = u]]]
               ELSE flows[u]]

\* ForwardPacket: a flow on every hop of the route and on the last switch.
\* An unknown destination, or one without a route, is flooded.
ForwardPacket(s, m) ==
  LET loc == macToLoc'[m]
      R   == IF loc = None THEN {} ELSE Routes(graph, dead, s, At[loc])
      Out(r, i) == IF i = Len(r) THEN loc ELSE routing[r[i]][r[i + 1]]
  IN  IF R = {} THEN UNCHANGED flows
      ELSE \E r \in R :
             flows' = [u \in Switch |->
               IF \E i \in 1..Len(r) : r[i] = u
               THEN [flows[u] EXCEPT ![m] = Out(r, CHOOSE i \in 1..Len(r) : r[i] = u)]
               ELSE flows[u]]

-----------------------------------------------------------------------------
\* HandshakeSuccessful: a new switch, with an empty port set and a PORT_DESC
\* request on its way.
HandshakeSuccessful(s) ==
  /\ s \notin connected
  /\ connected' = connected \cup {s}
  /\ asked' = asked \cup {s}
  /\ ports' = ports \ PortsOf(s)
  /\ UNCHANGED <<linkVars, absent, hostVars, floodVars, dead>>

HandlePortDescReply(s) ==
  /\ s \in asked
  /\ asked' = asked \ {s}
  /\ ports' = ports \cup (PortsOf(s) \ absent)
  /\ UNCHANGED <<linkVars, connected, absent, hostVars, tree, dead>>
  /\ RefreshGroups({s})

\* HandleLldpPacket: a probe sent on p came in on the other end of the cable.
\* A probe may be delayed past any event but the deletion of the port it
\* comes in on: packet-ins and port statuses of one switch stay in order.
HandleLldpPacket(p) ==
  LET q == Peer[p]
  IN  /\ At[p] \in connected /\ At[q] \in connected /\ q \notin absent
      /\ ports' = ports \cup {q}
      /\ AddLink(p, q)
      /\ FlushLinkPorts
      /\ UNCHANGED <<connected, asked, absent, flows, dead>>
      /\ IF AlreadyKnown(p, q) THEN UNCHANGED floodVars ELSE RebuildSpanningTree

\* A frame of host m can come in on its own port, or on a link port it was
\* forwarded or flooded over.
ComesIn(p, m) ==
  /\ At[p] \in connected /\ p \notin absent
  /\ \/ p \notin Cabled /\ \A h \in Mac : p = HostPort[h] <=> h = m
     \/ p \in Cabled /\ (Early \/ p \in linkPorts)

\* HandlePacketIn for an ARP request: learn the sender, then answer or flood.
HandleArpRequest(p, m) ==
  /\ ComesIn(p, m)
  /\ ports' = ports \cup {p}
  /\ Learn(p, m)
  /\ UNCHANGED <<linkVars, connected, asked, absent, flows, floodVars, dead>>

\* HandlePacketIn for any other frame.  It may have been queued before the
\* flow that matches it was installed.
HandlePacketIn(p, m, dst) ==
  /\ ComesIn(p, m) /\ dst # m
  /\ ports' = ports \cup {p}
  /\ Learn(p, m)
  /\ ForwardPacket(At[p], dst)
  /\ UNCHANGED <<linkVars, connected, asked, absent, floodVars, dead>>

\* HandlePortStatus, OFPPR_DELETE.
PortDeleted(p) ==
  /\ At[p] \in connected /\ p \in Flaky \ absent
  /\ absent' = absent \cup {p}
  /\ ports' = ports \ {p}
  /\ RemovePort(p)
  /\ macToLoc' = [m \in Mac |-> IF macToLoc[m] = p THEN None ELSE macToLoc[m]]
  /\ UNCHANGED <<connected, asked, flows, tree, dead>>
  /\ RefreshGroups({At[p]})

\* HandlePortStatus, OFPPR_ADD; the probe it sends is HandleLldpPacket's.
PortAdded(p) ==
  /\ At[p] \in connected /\ p \in absent
  /\ absent' = absent \ {p}
  /\ ports' = ports \cup {p}
  /\ UNCHANGED <<linkVars, connected, asked, hostVars, tree, dead>>
  /\ RefreshGroups({At[p]})

\* ComputeSwitchObservations when the residual energy of s reaches zero:
\* UpdateBlockedNodes blocks s, rebuilds the tree and recomputes the routes.
\* The recomputation HandlePortStatsReply may add finds no route to change.
SwitchDies(s) ==
  /\ s \in connected \cap Mortal /\ s \notin dead
  /\ dead' = dead \cup {s}
  /\ UNCHANGED <<linkVars, connected, portVars, macToLoc>>
  /\ RebuildSpanningTree
  /\ RecomputeAllRoutes(dead')

\* Link costs changed: ApplyDeltaCosts with a delta that moved, or
\* HandlePortStatsReply with a congestion that moved and no death.
CostsChange ==
  /\ RecomputeAllRoutes(dead)
  /\ UNCHANGED <<linkVars, connected, portVars, macToLoc, floodVars, dead>>

\* PreInstallAllPaths: looks one hop ahead only, through GetOutPort.
PreInstallAllPaths ==
  LET Out(s, m) == IF s = At[HostPort[m]] THEN HostPort[m]
                   ELSE routing[s][At[HostPort[m]]]
  IN  /\ Seeded
      /\ macToLoc' = HostPort
      /\ flows' = [s \in Switch |-> [m \in Mac |->
                     IF s \in connected /\ Out(s, m) # None THEN Out(s, m)
                     ELSE flows[s][m]]]
      /\ UNCHANGED <<linkVars, connected, portVars, floodVars, dead>>

Next ==
  \/ \E s \in Switch : HandshakeSuccessful(s) \/ HandlePortDescReply(s) \/ SwitchDies(s)
  \/ \E p \in Cabled : HandleLldpPacket(p)
  \/ \E p \in Port, m \in Mac : HandleArpRequest(p, m)
  \/ \E p \in Port, m \in Mac \cup {None}, dst \in Mac : HandlePacketIn(p, m, dst)
  \/ \E p \in Port : PortDeleted(p) \/ PortAdded(p)
  \/ CostsChange
  \/ PreInstallAllPaths

Spec == Init /\ [][Next]_vars

-----------------------------------------------------------------------------
TypeOK ==
  /\ LinkTypeOK
  /\ connected \in SUBSET Switch /\ asked \in SUBSET connected
  /\ ports \in SUBSET Port /\ absent \in SUBSET Flaky
  /\ macToLoc \in [Mac -> Port \cup {None}]
  /\ flows \in [Switch -> [Mac -> Port \cup {None}]]
  /\ tree \in SUBSET Cabled
  /\ group \in [Switch -> SUBSET Port]
  /\ dead \in SUBSET Mortal

(* No host is located on a port known to be an inter-switch port, however   *)
(* learning and the discovery of that port are interleaved.                 *)
HostsOffLinks == \A m \in Mac : macToLoc[m] \notin linkPorts

\* The switch the flow of s for m hands a frame to, s itself if it leaves the
\* fabric or misses.
NextSwitch(s, m) ==
  IF flows[s][m] \in Cabled THEN At[Peer[flows[s][m]]] ELSE s

(* No set of switches hands the frames of a destination around for ever.    *)
(* Flows are installed path by path and recomputed switch by switch, and     *)
(* stale ones stay: whatever mix of them the tables hold is free of loops.   *)
LoopFree ==
  \A m \in Mac, C \in SUBSET Switch :
    C # {} => \E s \in C : flows[s][m] \notin Cabled \/ NextSwitch(s, m) \notin C

(* A flow hands its frames to a switch that has a flow for them too, and the *)
(* only port out of the fabric is the destination's own: with LoopFree,      *)
(* a frame that matches a flow gets to its host without the controller.      *)
FlowsLeadHome ==
  \A s \in Switch, m \in Mac :
    /\ flows[s][m] \in Cabled => flows[NextSwitch(s, m)][m] # None
    /\ flows[s][m] \notin Cabled => flows[s][m] \in {None, HostPort[m]}

(* The spanning tree neither contains nor reaches a dead switch.             *)
TreeAvoidsDead == \A p \in tree : {At[p], At[Peer[p]]} \cap dead = {}

\* The cables that are up; the ones among them still to be discovered are
\* taken for host ports.
Up == {p \in Cabled : {p, Peer[p]} \cap absent = {}}
Settled == connected = Switch /\ asked = {} /\ Up \subseteq linkPorts

(* The comment of UpdateBlockedNodes: a dead switch neither transits unicast *)
(* nor receives broadcast, here once every cable that is up is discovered.   *)
DeadInert ==
  Settled => \A s \in Switch \ dead :
    /\ \A p \in group[s] \cap Cabled : At[Peer[p]] \notin dead
    /\ \A m \in Mac : flows[s][m] \in Cabled /\ At[HostPort[m]] # NextSwitch(s, m)
         => NextSwitch(s, m) \notin dead

\* The switches a broadcast that starts at switch s gets to.
FloodedFrom(s) ==
  Reach([u \in Switch |-> {At[Peer[p]] : p \in group[u] \cap Up}], Switch, s)

(* A broadcast that comes in on p leaves on the other buckets of the switch. *)
(* No set of these link ports keeps feeding itself with copies.              *)
FloodLoopFree(P) ==
  \A C \in SUBSET P :
    C # {} => \E p \in C : \A o \in group[At[p]] \ {p} :
                o \in Up => Peer[o] \notin C

(* Once every cable that is up is discovered, no broadcast that comes in     *)
(* from outside the fabric circulates, whatever the order of discovery,      *)
(* deaths and port changes before.                                          *)
SettledFloodLoopFree ==
  Settled => \A h \in Port \ (Cabled \cup absent) :
               FloodLoopFree({p \in Up : At[p] \in FloodedFrom(At[h])})

\* The part of the living fabric that ComputeSpanningTree covers: what is
\* connected to its least switch with a link.
TreePart ==
  LET Roots == {s \in Switch \ dead : graph[s] # {}}
  IN  IF Roots = {} THEN {} ELSE Reach(graph, Switch \ dead, Min(Roots)) \ dead

\* A host is among the buckets of its switch, and the broadcasts of every
\* switch of the part that has the tree reach the hosts of that part.
Broadcast ==
  \A m \in Mac :
    LET home == At[HostPort[m]]
    IN  /\ HostPort[m] \in group[home]
        /\ home \in TreePart => \A s \in TreePart : home \in FloodedFrom(s)

(* A host that is attached gets every broadcast once all ports are back and  *)
(* all cables discovered, whatever was deleted, added and found again before *)
(* and in whatever order.                                                    *)
FloodRestored == Settled /\ absent = {} => Broadcast
=============================================================================
