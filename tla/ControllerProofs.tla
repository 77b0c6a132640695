-------------------------- MODULE ControllerProofs --------------------------
(***************************************************************************)
(* Proofs about the forwarding state of the controller: whatever links are *)
(* discovered or removed, costs changed and switches lost, and in whatever *)
(* order, the flow tables never hold a loop, no broadcast circulates, and  *)
(* broadcasts reach the part of the fabric that has the tree.              *)
(***************************************************************************)
EXTENDS Controller, LinkMapProofs, OperatorProofs

\* A nonempty set of positions of a route has a last one.
LEMMA LastPosition ==
  ASSUME NEW n \in Int, NEW T, T \subseteq 1..n, T # {}
  PROVE  \E x \in T : \A y \in T : y <= x
<1> DEFINE D == {n - x : x \in T}
           R == OpToRel(<, Nat)
<1> HIDE DEF R
<1>1. D \subseteq Nat /\ D # {}
  <2>1. \A x \in T : x \in Int /\ x <= n /\ n - x \in Nat
    OBVIOUS
  <2> QED
    BY <2>1
<1>2. \E x \in D : \A y \in D : ~(<<y, x>> \in R)
  <2> HIDE DEF D
  <2>1. IsWellFoundedOn(R, Nat)
    BY NatLessThanWellFounded DEF R
  <2> QED
    BY <1>1, <2>1, WFMin
<1>3. PICK x \in D : \A y \in D : ~(y < x)
  <2>1. \A x, y \in Nat : <<y, x>> \in R <=> y < x
    BY DEF R, OpToRel
  <2> QED
    BY <1>1, <1>2, <2>1
<1>4. PICK t \in T : x = n - t
  BY <1>3
<1>5. ASSUME NEW y \in T PROVE y <= t
  <2>1. n - y \in D /\ ~(n - y < n - t)
    BY <1>3, <1>4
  <2>2. n \in Int /\ y \in Int /\ t \in Int
    OBVIOUS
  <2> HIDE DEF D
  <2> QED
    BY <2>1, <2>2
<1> QED
  BY <1>5
-----------------------------------------------------------------------------
Home(m) == At[HostPort[m]]
FlowTables == [Switch -> [Mac -> Port \cup {None}]]

\* LoopFree and FlowsLeadHome for one destination, strengthened: the switch of
\* the host sends its frames to the host or to the controller.
FlowsOf(m) ==
  /\ flows[Home(m)][m] \in {None, HostPort[m]}
  /\ \A C \in SUBSET Switch :
       C # {} => \E s \in C : flows[s][m] \notin Cabled \/ NextSwitch(s, m) \notin C
  /\ \A s \in Switch :
       /\ flows[s][m] \in Cabled => flows[NextSwitch(s, m)][m] # None
       /\ flows[s][m] \notin Cabled => flows[s][m] \in {None, HostPort[m]}

FlowInv == flows \in FlowTables /\ \A m \in Mac : FlowsOf(m)

LEMMA FlowInvImplies == FlowInv => LoopFree /\ FlowsLeadHome
BY DEF FlowInv, FlowsOf, LoopFree, FlowsLeadHome

\* None and a host port are not ends of a cable.
LEMMA PortFacts ==
  /\ None \notin Cabled
  /\ \A m \in Mac : /\ HostPort[m] \in Port /\ HostPort[m] \notin Cabled
                     /\ HostPort[m] # None /\ Home(m) \in Switch
  /\ \A p \in Cabled : /\ p \in Port /\ Peer[p] \in Cabled /\ Peer[p] \in Port
                         /\ At[p] \in Switch /\ At[Peer[p]] \in Switch
BY CableAssumption, ControllerAssumption DEF Cabled, Home

(* The one fact the three handlers that write flows share.  New is the set   *)
(* of switches whose flow for m is rewritten; the rewritten flows lead from  *)
(* New to New and end at the host without a cycle among themselves.  A cycle *)
(* would have to avoid New, and be there before.                             *)
LEMMA Rewrite ==
  ASSUME NEW m \in Mac, NEW New \in SUBSET Switch,
         flows \in FlowTables, flows' \in FlowTables, FlowsOf(m),
         \A s \in Switch \ New : flows'[s][m] = flows[s][m],
         \A s \in New : IF s = Home(m) THEN flows'[s][m] = HostPort[m]
                        ELSE flows'[s][m] \in Cabled /\ NextSwitch(s, m)' \in New,
         \A C \in SUBSET (New \ {Home(m)}) :
           C # {} => \E s \in C : NextSwitch(s, m)' \notin C
  PROVE  FlowsOf(m)'
<1>1. flows'[Home(m)][m] \in {None, HostPort[m]}
  BY PortFacts DEF FlowsOf
<1>2. \A s \in Switch \ New : NextSwitch(s, m)' = NextSwitch(s, m)
  BY DEF NextSwitch
<1>3. ASSUME NEW C \in SUBSET Switch, C # {},
             \A s \in C : flows'[s][m] \in Cabled /\ NextSwitch(s, m)' \in C
      PROVE  FALSE
  <2>1. Home(m) \notin C
    BY <1>1, <1>3, PortFacts
  <2>2. \A s \in C \cap New : NextSwitch(s, m)' \in C \cap New
    BY <1>3, <2>1
  <2>3. C \cap New \in SUBSET (New \ {Home(m)})
    BY <2>1
  <2>4. C \cap New = {}
    BY <2>2, <2>3
  <2>5. \A s \in C : flows[s][m] \in Cabled /\ NextSwitch(s, m) \in C
    BY <1>2, <1>3, <2>4
  <2> QED
    BY <1>3, <2>5 DEF FlowsOf
<1>4. ASSUME NEW s \in Switch, flows'[s][m] \in Cabled
      PROVE  flows'[NextSwitch(s, m)'][m] # None
  <2>1. \A u \in New : flows'[u][m] # None
    BY PortFacts
  <2>2. CASE s \in New
    BY <1>4, <2>1, <2>2, PortFacts
  <2>3. CASE s \notin New
    <3>1. flows[NextSwitch(s, m)][m] # None /\ NextSwitch(s, m) \in Switch
      BY <1>4, <2>3, PortFacts DEF FlowsOf, NextSwitch
    <3> QED
      BY <1>2, <2>1, <2>3, <3>1
  <2> QED
    BY <2>2, <2>3
<1>5. ASSUME NEW s \in Switch, flows'[s][m] \notin Cabled
      PROVE  flows'[s][m] \in {None, HostPort[m]}
  BY <1>5 DEF FlowsOf
<1> QED
  BY <1>1, <1>3, <1>4, <1>5 DEF FlowsOf

\* Flows that do not change stay as good as they were.
LEMMA FlowsKept ==
  ASSUME NEW m \in Mac, flows \in FlowTables, flows' \in FlowTables, FlowsOf(m),
         \A s \in Switch : flows'[s][m] = flows[s][m]
  PROVE  FlowsOf(m)'
BY Rewrite, {} \in SUBSET Switch
-----------------------------------------------------------------------------
\* The out port of two neighbours leads from the one to the other.
LEMMA HopFacts ==
  ASSUME LinkInv, NEW s \in Switch, NEW d \in Switch, d \in graph[s]
  PROVE  /\ routing[s][d] \in Cabled /\ routing[s][d] \in Port /\ routing[s][d] # None
         /\ At[Peer[routing[s][d]]] = d
BY PortFacts DEF LinkInv, RoutingOverCables

\* Learning before discovery is over would let a host be located elsewhere.
HostsHome == macToLoc \in [Mac -> Port \cup {None}] /\
             \A m \in Mac : macToLoc[m] \in {None, HostPort[m]}

\* Both ends of a link are at connected switches.
LinkedConnected == \A p \in Port : links[p] # None => At[p] \in connected

\* So every switch with a neighbour, and the neighbour, is connected.
LEMMA NeighboursConnected ==
  ASSUME LinkInv, LinkedConnected, NEW s \in Switch, NEW d \in Switch, d \in graph[s]
  PROVE  s \in connected /\ d \in connected
<1>1. PICK r \in Port : At[r] = s /\ links[r] # None /\ At[links[r]] = d
  BY DEF LinkInv, GraphMatchesLinks
<1>2. links[r] \in Port /\ links[links[r]] = r /\ r # None
  BY <1>1, CableAssumption DEF LinkInv, LinkTypeOK, LinksSymmetric
<1> QED
  BY <1>1, <1>2 DEF LinkedConnected

\* ForwardPacket installs a whole route, so a cycle cannot contain its last
\* switch, hence not the one before, and so on.
LEMMA ForwardFlows ==
  ASSUME LinkInv, FlowInv, NEW s \in Switch, NEW m \in Mac,
         macToLoc'[m] \in {None, HostPort[m]}, ForwardPacket(s, m)
  PROVE  FlowInv'
<1> DEFINE R == Routes(graph, dead, s, Home(m))
           Out(r, i) == IF i = Len(r) THEN HostPort[m] ELSE routing[r[i]][r[i + 1]]
<1>1. CASE UNCHANGED flows
  <2>1. FlowInv => FlowInv'
    BY <1>1, FlowsKept DEF FlowInv
  <2> QED
    BY <2>1
<1>2. ASSUME NEW r \in R,
             flows' = [u \in Switch |->
               IF \E i \in 1..Len(r) : r[i] = u
               THEN [flows[u] EXCEPT ![m] = Out(r, CHOOSE i \in 1..Len(r) : r[i] = u)]
               ELSE flows[u]]
      PROVE  FlowInv'
  <2> DEFINE n == Len(r)
             New == {r[i] : i \in 1..n}
  <2>1. /\ n \in Int /\ n >= 1 /\ DOMAIN r = 1..n
        /\ \A i \in 1..n : r[i] \in Switch
        /\ r[n] = Home(m)
        /\ \A i, j \in 1..n : r[i] = r[j] => i = j
        /\ \A i \in 1..n : i # n => i + 1 \in 1..n /\ r[i + 1] \in graph[r[i]]
    <3>1. DOMAIN graph = Switch
      BY DEF LinkInv, LinkTypeOK
    <3>2. PICK k \in 1..Cardinality(Switch) : r \in [1..k -> Switch]
      BY <3>1 DEF Routes
    <3>3. n = k /\ k \in Int /\ k >= 1
      BY <3>2
    <3>4. /\ r[n] = Home(m)
          /\ \A i, j \in 1..n : r[i] = r[j] => i = j
          /\ \A i \in 1..n - 1 : r[i + 1] \in graph[r[i]]
      BY DEF Routes
    <3> QED
      BY <3>2, <3>3, <3>4
  <2> HIDE DEF n
  <2>2. \A i \in 1..n : flows'[r[i]][m] = Out(r, i)
    <3> SUFFICES ASSUME NEW i \in 1..n PROVE flows'[r[i]][m] = Out(r, i)
      OBVIOUS
    <3>1. (CHOOSE j \in 1..n : r[j] = r[i]) = i
      BY <2>1
    <3>2. flows'[r[i]] = [flows[r[i]] EXCEPT ![m] = Out(r, i)]
      <4> HIDE DEF Out
      <4> QED
        BY <1>2, <2>1, <3>1 DEF n
    <3>3. flows[r[i]] \in [Mac -> Port \cup {None}]
      BY <2>1 DEF FlowInv, FlowTables
    <3> QED
      BY <3>2, <3>3
  <2>3. \A i \in 1..n : IF i = n THEN flows'[r[i]][m] = HostPort[m]
                        ELSE /\ flows'[r[i]][m] \in Cabled
                             /\ NextSwitch(r[i], m)' = r[i + 1]
    <3> SUFFICES ASSUME NEW i \in 1..n
                 PROVE  IF i = n THEN flows'[r[i]][m] = HostPort[m]
                        ELSE /\ flows'[r[i]][m] \in Cabled
                             /\ NextSwitch(r[i], m)' = r[i + 1]
      OBVIOUS
    <3>1. CASE i = n
      BY <2>2, <3>1 DEF n
    <3>2. CASE i # n
      <4>1. /\ r[i] \in Switch /\ r[i + 1] \in Switch /\ r[i + 1] \in graph[r[i]]
            /\ flows'[r[i]][m] = routing[r[i]][r[i + 1]]
        BY <2>1, <2>2, <3>2 DEF n
      <4>2. flows'[r[i]][m] \in Cabled /\ At[Peer[flows'[r[i]][m]]] = r[i + 1]
        BY <4>1, HopFacts
      <4> QED
        BY <3>2, <4>2 DEF NextSwitch
    <3> QED
      BY <3>1, <3>2
  <2>4. \A i \in 1..n : Out(r, i) \in Port \cup {None}
    BY <2>1, HopFacts, PortFacts DEF n
  <2>5. flows' \in FlowTables
    <3>1. ASSUME NEW u \in Switch
          PROVE  flows'[u] \in [Mac -> Port \cup {None}]
      <4>1. flows[u] \in [Mac -> Port \cup {None}]
        BY DEF FlowInv, FlowTables
      <4>2. CASE \E i \in 1..n : r[i] = u
        <5>1. PICK i \in 1..n : r[i] = u /\ i = CHOOSE j \in 1..n : r[j] = u
          BY <4>2
        <5>2. flows'[u] = [flows[u] EXCEPT ![m] = Out(r, i)]
          <6> HIDE DEF Out
          <6> QED
            BY <1>2, <5>1 DEF n
        <5> QED
          BY <2>4, <4>1, <5>2
      <4>3. CASE ~\E i \in 1..n : r[i] = u
        BY <1>2, <4>1, <4>3 DEF n
      <4> QED
        BY <4>2, <4>3
    <3>2. flows' = [u \in Switch |-> flows'[u]]
      BY <1>2
    <3> QED
      BY <3>1, <3>2 DEF FlowTables
  <2>6. FlowsOf(m)'
    <3>1. New \in SUBSET Switch
      BY <2>1
    <3>2. \A u \in Switch \ New : flows'[u][m] = flows[u][m]
      BY <1>2 DEF n
    <3>3. \A u \in New : IF u = Home(m) THEN flows'[u][m] = HostPort[m]
                         ELSE flows'[u][m] \in Cabled /\ NextSwitch(u, m)' \in New
      BY <2>1, <2>3
    <3>4. ASSUME NEW C \in SUBSET (New \ {Home(m)}), C # {}
          PROVE  \E u \in C : NextSwitch(u, m)' \notin C
      <4> DEFINE T == {i \in 1..n : r[i] \in C}
      <4>1. T \subseteq 1..n /\ T # {}
        BY <3>4
      <4>2. PICK i \in T : \A j \in T : j <= i
        <5> HIDE DEF T
        <5> QED
          BY <2>1, <4>1, LastPosition
      <4>3. i # n /\ r[i] \in C /\ i + 1 \in 1..n /\ i + 1 \notin T
        BY <2>1, <4>2
      <4> QED
        BY <2>3, <4>3
    <3> HIDE DEF New
    <3> QED
      BY <2>5, <3>1, <3>2, <3>3, <3>4, Rewrite DEF FlowInv
  <2>7. ASSUME NEW k \in Mac, k # m PROVE FlowsOf(k)'
    <3>1. \A u \in Switch : flows'[u][k] = flows[u][k]
      BY <1>2, <2>7 DEF FlowInv, FlowTables
    <3> QED
      BY <2>5, <3>1, FlowsKept DEF FlowInv
  <2> QED
    BY <2>5, <2>6, <2>7 DEF FlowInv
<1> QED
  BY <1>1, <1>2 DEF ForwardPacket, Home

-----------------------------------------------------------------------------
\* What the proofs use of a table of first hops.
LEMMA NextHopFacts ==
  ASSUME NEW g, NEW bl, NEW d, NEW nxt \in NextHops(g, bl, d)
  PROVE  /\ d \notin DOMAIN nxt /\ Acyclic(nxt)
         /\ \A v \in DOMAIN nxt : nxt[v] \in g[v] /\ nxt[v] \in DOMAIN nxt \cup {d}
<1> DEFINE R == Reach(g, (DOMAIN g \ bl) \cup {d}, d)
<1> HIDE DEF R
<1>1. nxt \in [R \ {d} -> R] /\ Acyclic(nxt) /\ \A v \in R \ {d} : nxt[v] \in g[v]
  BY DEF NextHops, R
<1> QED
  BY <1>1

\* RecomputeAllRoutes rewrites, for each known host, the flows of the switches
\* that have a route to it, along a table of first hops without a cycle.
LEMMA RecomputeFlows ==
  ASSUME LinkInv, LinkedConnected, HostsHome, FlowInv, NEW bl, RecomputeAllRoutes(bl)
  PROVE  FlowInv'
<1> DEFINE Known == {m \in Mac : macToLoc[m] # None}
           Dst   == {At[macToLoc[m]] : m \in Known}
           Hop(hop, s, m) ==
             IF s \notin connected \/ m \notin Known THEN flows[s][m]
             ELSE IF s = At[macToLoc[m]] THEN macToLoc[m]
                  ELSE IF s \in DOMAIN hop[At[macToLoc[m]]]
                       THEN routing[s][hop[At[macToLoc[m]]][s]]
                       ELSE flows[s][m]
<1>1. PICK hop : /\ \A d \in Dst : hop[d] \in NextHops(graph, bl, d)
                 /\ flows' = [s \in Switch |-> [m \in Mac |-> Hop(hop, s, m)]]
  BY DEF RecomputeAllRoutes
<1>2. \A m \in Known : /\ macToLoc[m] = HostPort[m] /\ At[macToLoc[m]] = Home(m)
                       /\ Home(m) \in Dst
  BY DEF HostsHome, Home
<1>3. \A s \in Switch, m \in Mac : flows'[s][m] = Hop(hop, s, m)
  BY <1>1
<1>4. ASSUME NEW m \in Known
      PROVE  /\ Home(m) \notin DOMAIN hop[Home(m)] /\ Acyclic(hop[Home(m)])
             /\ \A v \in DOMAIN hop[Home(m)] :
                  /\ hop[Home(m)][v] \in graph[v]
                  /\ hop[Home(m)][v] \in DOMAIN hop[Home(m)] \cup {Home(m)}
  BY <1>1, <1>2, NextHopFacts
<1>5. ASSUME NEW m \in Known, NEW s \in Switch, s \in DOMAIN hop[Home(m)]
      PROVE  LET d == hop[Home(m)][s]
             IN  /\ d \in Switch /\ d \in connected
                 /\ routing[s][d] \in Cabled /\ routing[s][d] \in Port
                 /\ At[Peer[routing[s][d]]] = d
  <2>1. hop[Home(m)][s] \in graph[s]
    BY <1>4, <1>5
  <2>2. graph[s] \subseteq Switch
    BY DEF LinkInv, LinkTypeOK
  <2> QED
    BY <2>1, <2>2, HopFacts, NeighboursConnected
<1>6. flows' \in FlowTables
  <2>1. ASSUME NEW s \in Switch, NEW m \in Mac
        PROVE  Hop(hop, s, m) \in Port \cup {None}
    <3>1. flows[s][m] \in Port \cup {None}
      BY DEF FlowInv, FlowTables
    <3>2. CASE s \notin connected \/ m \notin Known
      BY <3>1, <3>2
    <3>3. CASE m \in Known
      BY <3>1, <3>3, <1>2, <1>5, PortFacts
    <3> QED
      BY <3>2, <3>3
  <2> HIDE DEF Hop
  <2> QED
    BY <1>1, <2>1 DEF FlowTables
<1>7. ASSUME NEW m \in Mac, m \notin Known PROVE FlowsOf(m)'
  <2>1. \A s \in Switch : flows'[s][m] = flows[s][m]
    BY <1>3, <1>7
  <2> QED
    BY <1>6, <2>1, FlowsKept DEF FlowInv
<1>8. ASSUME NEW m \in Known PROVE FlowsOf(m)'
  <2> DEFINE New == {s \in Switch : s \in connected /\
                       (s = Home(m) \/ s \in DOMAIN hop[Home(m)])}
  <2>1. \A s \in Switch \ New : flows'[s][m] = flows[s][m]
    BY <1>2, <1>3
  <2>2. ASSUME NEW s \in New, s # Home(m)
        PROVE  /\ flows'[s][m] \in Cabled
               /\ NextSwitch(s, m)' = hop[Home(m)][s] /\ NextSwitch(s, m)' \in New
    <3>1. flows'[s][m] = routing[s][hop[Home(m)][s]]
      BY <1>2, <1>3, <2>2
    <3>2. NextSwitch(s, m)' = hop[Home(m)][s]
      BY <1>5, <2>2, <3>1 DEF NextSwitch
    <3> QED
      BY <1>4, <1>5, <2>2, <3>1, <3>2
  <2>3. \A s \in New : s = Home(m) => flows'[s][m] = HostPort[m]
    BY <1>2, <1>3
  <2>4. ASSUME NEW C \in SUBSET (New \ {Home(m)}), C # {}
        PROVE  \E s \in C : NextSwitch(s, m)' \notin C
    <3>1. C \in SUBSET DOMAIN hop[Home(m)]
      OBVIOUS
    <3>2. PICK s \in C : hop[Home(m)][s] \notin C
      BY <1>4, <2>4, <3>1 DEF Acyclic
    <3> QED
      BY <2>2, <3>2
  <2>5. New \in SUBSET Switch
    OBVIOUS
  <2> HIDE DEF New
  <2> QED
    BY <1>6, <2>1, <2>2, <2>3, <2>4, <2>5, Rewrite DEF FlowInv
<1> QED
  BY <1>6, <1>7, <1>8 DEF FlowInv

\* PreInstallAllPaths rewrites the flows of the host's switch and of those next
\* to it.
LEMMA PreInstallFlows ==
  ASSUME LinkInv, LinkedConnected, FlowInv, PreInstallAllPaths
  PROVE  FlowInv'
<1> DEFINE Out(s, m) == IF s = Home(m) THEN HostPort[m] ELSE routing[s][Home(m)]
<1>1. \A s \in Switch, m \in Mac : flows'[s][m] =
        IF s \in connected /\ Out(s, m) # None THEN Out(s, m) ELSE flows[s][m]
  BY DEF PreInstallAllPaths, Home
<1>2. ASSUME NEW s \in Switch, NEW m \in Mac, s # Home(m), Out(s, m) # None
      PROVE  /\ Out(s, m) \in Cabled /\ Out(s, m) \in Port
             /\ At[Peer[Out(s, m)]] = Home(m) /\ Home(m) \in connected
  <2>1. Home(m) \in graph[s]
    BY <1>2, PortFacts DEF LinkInv, RoutingOverCables
  <2> QED
    BY <1>2, <2>1, PortFacts, HopFacts, NeighboursConnected
<1>3. flows' \in FlowTables
  <2>1. \A s \in Switch, m \in Mac : flows'[s][m] \in Port \cup {None}
    BY <1>1, <1>2, PortFacts DEF FlowInv, FlowTables
  <2>2. flows' = [s \in Switch |-> [m \in Mac |-> flows'[s][m]]]
    BY DEF PreInstallAllPaths
  <2> QED
    BY <2>1, <2>2 DEF FlowTables
<1>4. ASSUME NEW m \in Mac PROVE FlowsOf(m)'
  <2> DEFINE New == {s \in Switch : s \in connected /\ Out(s, m) # None}
  <2>1. \A s \in Switch \ New : flows'[s][m] = flows[s][m]
    BY <1>1
  <2>2. ASSUME NEW s \in New, s # Home(m)
        PROVE  flows'[s][m] \in Cabled /\ NextSwitch(s, m)' = Home(m) /\ Home(m) \in New
    BY <1>1, <1>2, <2>2, PortFacts DEF NextSwitch
  <2>3. \A s \in New : s = Home(m) => flows'[s][m] = HostPort[m]
    BY <1>1
  <2>4. \A C \in SUBSET (New \ {Home(m)}) :
          C # {} => \E s \in C : NextSwitch(s, m)' \notin C
    BY <2>2
  <2>5. New \in SUBSET Switch
    OBVIOUS
  <2> HIDE DEF New
  <2> QED
    BY <1>3, <2>1, <2>2, <2>3, <2>4, <2>5, Rewrite DEF FlowInv
<1> QED
  BY <1>3, <1>4 DEF FlowInv

-----------------------------------------------------------------------------
\* To the link database every step of the controller is a discovery, the
\* removal of a port, or nothing.
LEMMA StepOfLinkMap == [Next]_vars => [LinkNext]_linkVars
BY ControllerAssumption
   DEF Next, vars, LinkNext, linkVars, HandshakeSuccessful, HandlePortDescReply,
       HandleLldpPacket, HandleArpRequest, HandlePacketIn, PortDeleted, PortAdded,
       SwitchDies, CostsChange, PreInstallAllPaths

(* The controller as a whole implements the link database on its own.        *)
THEOREM ControllerImplementsLinkMap == Spec => LinkSpec
<1>1. Init => LinkInit
  BY DEF Init
<1> QED
  BY <1>1, StepOfLinkMap, PTL DEF Spec, LinkSpec

LEMMA LinkedConnectedStep ==
  ASSUME LinkInv, LinkedConnected, [Next]_vars
  PROVE  LinkedConnected'
<1>1. connected \subseteq connected'
  BY DEF Next, vars, HandshakeSuccessful, HandlePortDescReply,
     HandleLldpPacket, HandleArpRequest, HandlePacketIn, PortDeleted, PortAdded,
     SwitchDies, CostsChange, PreInstallAllPaths
<1>2. ASSUME NEW p \in Cabled, HandleLldpPacket(p)
      PROVE  \A r \in Port : links'[r] # None => links[r] # None \/ At[r] \in connected
  <2>1. At[p] \in connected /\ At[Peer[p]] \in connected
        /\ (UNCHANGED links \/ links' = [links EXCEPT ![p] = Peer[p], ![Peer[p]] = p])
    BY <1>2 DEF HandleLldpPacket, AddLink, RecordLink, linkVars
  <2>2. links \in [Port -> Port \cup {None}]
    BY DEF LinkInv, LinkTypeOK
  <2> QED
    BY <2>1, <2>2
<1>3. ASSUME NEW p \in Port, RemovePort(p)
      PROVE  \A r \in Port : links'[r] # None => links[r] # None
  BY <1>3 DEF RemovePort, EraseLink, linkVars
<1>4. \A r \in Port : links'[r] # None => links[r] # None \/ At[r] \in connected
  <2>1. UNCHANGED links \/ (\E p \in Cabled : HandleLldpPacket(p))
                        \/ (\E p \in Port : RemovePort(p))
    BY ControllerAssumption
       DEF Next, vars, linkVars, HandshakeSuccessful, HandlePortDescReply,
       HandleArpRequest, HandlePacketIn, PortDeleted, PortAdded,
       SwitchDies, CostsChange, PreInstallAllPaths
  <2> QED
    BY <1>2, <1>3, <2>1
<1> QED
  BY <1>1, <1>4 DEF LinkedConnected

\* A frame is learned from on a port that is not a link: if none comes in on an
\* undiscovered link, that is the port of its sender.
LEMMA LearnHome ==
  ASSUME Early = FALSE, HostsHome, NEW p \in Port, NEW m \in Mac \cup {None},
         ComesIn(p, m), Learn(p, m)
  PROVE  HostsHome'
<1>1. macToLoc \in [Mac -> Port \cup {None}]
  BY DEF HostsHome
<1>2. CASE UNCHANGED macToLoc
  BY <1>2 DEF HostsHome
<1>3. CASE m \in Mac /\ p \notin linkPorts /\ macToLoc' = [macToLoc EXCEPT ![m] = p]
  <2>1. p = HostPort[m]
    BY <1>3 DEF ComesIn
  <2> QED
    BY <1>1, <1>3, <2>1 DEF HostsHome
<1> QED
  BY <1>2, <1>3 DEF Learn

LEMMA HostsHomeStep ==
  ASSUME Early = FALSE, LinkInv, HostsHome, [Next]_vars
  PROVE  HostsHome'
<1>1. macToLoc \in [Mac -> Port \cup {None}]
      /\ \A m \in Mac : macToLoc[m] \in {None, HostPort[m]}
  BY DEF HostsHome
<1>2. ASSUME macToLoc' = [m \in Mac |-> macToLoc'[m]],
             \A m \in Mac : macToLoc'[m] \in {None, macToLoc[m], HostPort[m]}
      PROVE  HostsHome'
  <2>1. \A m \in Mac : macToLoc'[m] \in {None, HostPort[m]}
                       /\ macToLoc'[m] \in Port \cup {None}
    BY <1>1, <1>2, PortFacts
  <2> QED
    BY <1>2, <2>1 DEF HostsHome
<1>3. ASSUME NEW p \in Port, NEW m \in Mac \cup {None}, NEW dst \in Mac,
             HandlePacketIn(p, m, dst)
      PROVE  HostsHome'
  BY <1>3, LearnHome DEF HandlePacketIn
<1>4. ASSUME NEW p \in Port, NEW m \in Mac, HandleArpRequest(p, m) PROVE HostsHome'
  BY <1>4, LearnHome DEF HandleArpRequest
<1>5. ASSUME NEW p \in Cabled, HandleLldpPacket(p) PROVE HostsHome'
  BY <1>2, <1>5 DEF HandleLldpPacket, FlushLinkPorts
<1>6. ASSUME NEW p \in Port, PortDeleted(p) PROVE HostsHome'
  BY <1>2, <1>6 DEF PortDeleted
<1>7. ASSUME PreInstallAllPaths PROVE HostsHome'
  <2>1. macToLoc' = HostPort /\ HostPort \in [Mac -> Port]
    BY <1>7, ControllerAssumption DEF PreInstallAllPaths
  <2> QED
    BY <1>2, <2>1
<1>8. ASSUME UNCHANGED macToLoc PROVE HostsHome'
  BY <1>8 DEF HostsHome
<1> QED
  BY <1>3, <1>4, <1>5, <1>6, <1>7, <1>8
     DEF Next, vars, hostVars, HandshakeSuccessful, HandlePortDescReply, PortAdded,
         SwitchDies, CostsChange

LEMMA FlowInvStep ==
  ASSUME Early = FALSE, LinkInv, LinkedConnected, HostsHome, HostsHome', FlowInv, [Next]_vars
  PROVE  FlowInv'
<1>1. ASSUME UNCHANGED flows PROVE FlowInv'
  BY <1>1, FlowsKept DEF FlowInv
<1>2. ASSUME NEW p \in Port, NEW m \in Mac \cup {None}, NEW dst \in Mac,
             HandlePacketIn(p, m, dst)
      PROVE  FlowInv'
  <2>1. At[p] \in Switch /\ ForwardPacket(At[p], dst)
    BY <1>2, CableAssumption DEF HandlePacketIn
  <2> QED
    BY <2>1, ForwardFlows DEF HostsHome
<1>3. ASSUME NEW s \in Switch, SwitchDies(s) PROVE FlowInv'
  BY <1>3, RecomputeFlows DEF SwitchDies
<1>4. CASE CostsChange
  BY <1>4, RecomputeFlows DEF CostsChange
<1>5. CASE PreInstallAllPaths
  BY <1>5, PreInstallFlows
<1> QED
  BY <1>1, <1>2, <1>3, <1>4, <1>5
     DEF Next, vars, hostVars, HandshakeSuccessful, HandlePortDescReply,
         HandleLldpPacket, HandleArpRequest, PortDeleted, PortAdded

\* The inductive invariant.
ForwardingInv == LinkInv /\ LinkedConnected /\ HostsHome /\ FlowInv

LEMMA ForwardingInitInv == Init => ForwardingInv
<1> SUFFICES ASSUME Init PROVE ForwardingInv
  OBVIOUS
<1>1. LinkInv
  BY LinkInitInv DEF Init
<1>2. LinkedConnected /\ HostsHome
  BY DEF Init, LinkInit, LinkedConnected, HostsHome
<1>3. FlowInv
  <2>1. flows \in FlowTables /\ \A s \in Switch, m \in Mac : flows[s][m] = None
    BY DEF Init, FlowTables
  <2> QED
    BY <2>1, PortFacts DEF FlowInv, FlowsOf
<1> QED
  BY <1>1, <1>2, <1>3 DEF ForwardingInv

LEMMA ForwardingAlways ==
  ASSUME Early = FALSE
  PROVE  Spec => []ForwardingInv
<1>1. ForwardingInv /\ [Next]_vars => ForwardingInv'
  <2> SUFFICES ASSUME ForwardingInv, [Next]_vars PROVE ForwardingInv'
    OBVIOUS
  <2>1. LinkInv'
    BY LinkStepInv, StepOfLinkMap DEF ForwardingInv
  <2>2. LinkedConnected'
    BY LinkedConnectedStep DEF ForwardingInv
  <2>3. HostsHome'
    BY HostsHomeStep DEF ForwardingInv
  <2>4. FlowInv'
    BY <2>3, FlowInvStep DEF ForwardingInv
  <2> QED
    BY <2>1, <2>2, <2>3, <2>4 DEF ForwardingInv
<1> QED
  BY ForwardingInitInv, <1>1, PTL DEF Spec

(* Whatever happens to links, costs and switches, the flow tables never      *)
(* send the frames of a host round a cycle, as long as no frame comes in on  *)
(* a link before its discovery.                                             *)
THEOREM FlowsNeverLoop ==
  ASSUME Early = FALSE
  PROVE  Spec => []LoopFree
<1>1. ForwardingInv => LoopFree
  BY FlowInvImplies DEF ForwardingInv
<1> QED
  BY ForwardingAlways, <1>1, PTL

(* And every flow that leaves a switch finds the next one in place, up to    *)
(* the port of the host.                                                    *)
THEOREM FlowsAlwaysLeadHome ==
  ASSUME Early = FALSE
  PROVE  Spec => []FlowsLeadHome
<1>1. ForwardingInv => FlowsLeadHome
  BY FlowInvImplies DEF ForwardingInv
<1> QED
  BY ForwardingAlways, <1>1, PTL

(* A frame learned from on a link port before its discovery is no exception  *)
(* to this one: the discovery flushes what was learned there.                *)
THEOREM HostsNeverOnLinks == Spec => []HostsOffLinks
<1>1. Init => HostsOffLinks
  BY DEF Init, LinkInit, HostsOffLinks
<1>2. LinkInv /\ HostsOffLinks /\ [Next]_vars => HostsOffLinks'
  <2> SUFFICES ASSUME LinkInv, HostsOffLinks, [Next]_vars PROVE HostsOffLinks'
    OBVIOUS
  <2>1. linkPorts \subseteq Cabled /\ linkPorts \subseteq Port
        /\ linkPorts' \subseteq Cabled /\ linkPorts' \subseteq Port
    <3>1. LinkInv'
      BY LinkStepInv, StepOfLinkMap
    <3> QED
      BY <3>1, PortFacts DEF LinkInv, LinksSymmetric
  <2>2. ASSUME NEW p \in Port, NEW m \in Mac \cup {None}, Learn(p, m),
               UNCHANGED linkVars
        PROVE  HostsOffLinks'
    <3>1. CASE UNCHANGED macToLoc
      BY <2>2, <3>1 DEF HostsOffLinks, linkVars
    <3>2. CASE m \in Mac /\ p \notin linkPorts /\ macToLoc' = [macToLoc EXCEPT ![m] = p]
      <4>1. \A k \in Mac : macToLoc'[k] \notin linkPorts
        BY <3>2 DEF HostsOffLinks
      <4> QED
        BY <2>2, <4>1 DEF HostsOffLinks, linkVars
    <3> QED
      BY <2>2, <3>1, <3>2 DEF Learn
  <2>3. ASSUME NEW p \in Cabled, HandleLldpPacket(p) PROVE HostsOffLinks'
    BY <2>1, <2>3, CableAssumption DEF HandleLldpPacket, FlushLinkPorts, HostsOffLinks
  <2>4. ASSUME NEW p \in Port, PortDeleted(p) PROVE HostsOffLinks'
    <3>1. linkPorts' \subseteq linkPorts
      BY <2>4 DEF PortDeleted, RemovePort, EraseLink, linkVars
    <3>2. \A m \in Mac : macToLoc'[m] \in {None, macToLoc[m]}
      BY <2>4 DEF PortDeleted
    <3> QED
      BY <2>1, <3>1, <3>2, CableAssumption DEF HostsOffLinks
  <2>5. ASSUME PreInstallAllPaths PROVE HostsOffLinks'
    BY <2>1, <2>5, PortFacts DEF PreInstallAllPaths, HostsOffLinks
  <2>6. ASSUME UNCHANGED <<linkVars, macToLoc>> PROVE HostsOffLinks'
    BY <2>6 DEF HostsOffLinks, linkVars
  <2>7. ASSUME NEW p \in Port, NEW m \in Mac, HandleArpRequest(p, m) PROVE HostsOffLinks'
    BY <2>2, <2>7 DEF HandleArpRequest
  <2>8. ASSUME NEW p \in Port, NEW m \in Mac \cup {None}, NEW dst \in Mac,
               HandlePacketIn(p, m, dst)
        PROVE  HostsOffLinks'
    BY <2>2, <2>8 DEF HandlePacketIn
  <2> QED
    BY <2>3, <2>4, <2>5, <2>6, <2>7, <2>8
       DEF Next, vars, hostVars, HandshakeSuccessful, HandlePortDescReply, PortAdded,
           SwitchDies, CostsChange
<1>3. Spec => []LinkInv
  BY ControllerImplementsLinkMap, LinkDatabaseConsistent, PTL
<1> QED
  BY <1>1, <1>2, <1>3, PTL DEF Spec
-----------------------------------------------------------------------------
\* What a breadth-first tree's edge is made of: two neighbours that are not
\* blocked, and the port at each end that leads to the other.
LEMMA TreeEdge ==
  ASSUME LinkInv', NEW par \in BreadthFirstTrees(graph', dead'), NEW v \in DOMAIN par
  PROVE  /\ par[v] \in Switch \ dead' /\ v \in Switch \ dead'
         /\ v \in graph'[par[v]] /\ par[v] \in graph'[v]
         /\ routing'[par[v]][v] \in Cabled /\ routing'[v][par[v]] \in Cabled
         /\ At[routing'[par[v]][v]] = par[v] /\ At[Peer[routing'[par[v]][v]]] = v
         /\ At[routing'[v][par[v]]] = v /\ At[Peer[routing'[v][par[v]]]] = par[v]
<1>1. DOMAIN graph' = Switch /\ \A s \in Switch : graph'[s] \subseteq Switch
  BY DEF LinkInv, LinkTypeOK
<1>2. par[v] \in Switch \ dead' /\ v \in Switch \ dead' /\ v \in graph'[par[v]]
  <2>1. par # <<>>
    OBVIOUS
  <2> QED
    BY <1>1, <2>1 DEF BreadthFirstTrees
<1>3. par[v] \in graph'[v]
  <2>1. PICK r \in Port : At[r] = par[v] /\ links'[r] # None /\ At[links'[r]] = v
    BY <1>2 DEF LinkInv, GraphMatchesLinks
  <2>2. links'[r] \in Port /\ links'[links'[r]] = r /\ r # None
    BY <2>1, CableAssumption DEF LinkInv, LinkTypeOK, LinksSymmetric
  <2> QED
    BY <1>2, <2>1, <2>2 DEF LinkInv, GraphMatchesLinks
<1>4. \A s, d \in Switch : d \in graph'[s] =>
        /\ routing'[s][d] \in Cabled
        /\ At[routing'[s][d]] = s /\ At[Peer[routing'[s][d]]] = d
  BY DEF LinkInv, RoutingOverCables
<1> QED
  BY <1>2, <1>3, <1>4

\* So no port of the tree is at, or leads to, a blocked switch.
LEMMA TreeBuilt ==
  ASSUME LinkInv', RebuildSpanningTree, NEW p \in tree'
  PROVE  p \in Cabled /\ At[p] \notin dead' /\ At[Peer[p]] \notin dead'
<1>1. PICK par \in BreadthFirstTrees(graph', dead') :
        tree' = {routing'[par[v]][v] : v \in DOMAIN par} \cup
                {routing'[v][par[v]] : v \in DOMAIN par}
  BY DEF RebuildSpanningTree
<1>2. PICK v \in DOMAIN par : p = routing'[par[v]][v] \/ p = routing'[v][par[v]]
  BY <1>1
<1> QED
  BY <1>2, TreeEdge

\* What is left of TypeOK, with the fact about the tree that its type needs.
RestInv ==
  /\ connected \in SUBSET Switch /\ asked \in SUBSET connected
  /\ ports \in SUBSET Port /\ absent \in SUBSET Flaky
  /\ tree \in SUBSET Cabled
  /\ group \in [Switch -> SUBSET Port]
  /\ dead \in SUBSET Mortal
  /\ TreeAvoidsDead

\* Buckets are ports the controller knows or ports of the tree.
LEMMA GroupsTyped ==
  ASSUME group \in [Switch -> SUBSET Port], ports' \in SUBSET Port, tree' \in SUBSET Cabled,
         NEW S, RefreshGroups(S)
  PROVE  group' \in [Switch -> SUBSET Port]
<1>1. \A s \in Switch : Buckets(s)' \in SUBSET Port
  BY PortFacts DEF Buckets
<1> HIDE DEF Buckets
<1>2. group' = [s \in Switch |-> IF s \in S /\ Buckets(s)' # {} THEN Buckets(s)' ELSE group[s]]
  BY DEF RefreshGroups
<1>3. \A s \in Switch : group'[s] \in SUBSET Port
  BY <1>1, <1>2
<1> QED
  BY <1>2, <1>3

LEMMA RestStep ==
  ASSUME LinkInv', RestInv, [Next]_vars
  PROVE  RestInv'
<1>1. ASSUME tree' \in SUBSET Cabled, ports' \in SUBSET Port,
             UNCHANGED group \/ \E S : RefreshGroups(S)
      PROVE  group' \in [Switch -> SUBSET Port]
  BY <1>1, GroupsTyped DEF RestInv
<1>2. ASSUME UNCHANGED <<tree, dead>> PROVE TreeAvoidsDead' /\ tree' \in SUBSET Cabled
  BY <1>2 DEF RestInv, TreeAvoidsDead
<1>3. ASSUME RebuildSpanningTree
      PROVE  TreeAvoidsDead' /\ tree' \in SUBSET Cabled /\ \E S : RefreshGroups(S)
  BY <1>3, TreeBuilt DEF TreeAvoidsDead, RebuildSpanningTree
<1>5. ASSUME NEW s \in Switch, HandshakeSuccessful(s) PROVE RestInv'
  BY <1>2, <1>5 DEF RestInv, HandshakeSuccessful, floodVars
<1>6. ASSUME NEW s \in Switch, HandlePortDescReply(s) PROVE RestInv'
  <2>1. ports' \in SUBSET Port
    BY <1>6 DEF RestInv, HandlePortDescReply, PortsOf
  <2>2. TreeAvoidsDead' /\ tree' \in SUBSET Cabled /\ \E S : RefreshGroups(S)
    BY <1>2, <1>6 DEF HandlePortDescReply
  <2>3. group' \in [Switch -> SUBSET Port]
    BY <1>1, <2>1, <2>2
  <2> QED
    BY <1>6, <2>1, <2>2, <2>3 DEF RestInv, HandlePortDescReply
<1>7. ASSUME NEW s \in Switch, SwitchDies(s) PROVE RestInv'
  <2>1. ports' \in SUBSET Port
    BY <1>7 DEF RestInv, SwitchDies, portVars
  <2>2. TreeAvoidsDead' /\ tree' \in SUBSET Cabled /\ \E S : RefreshGroups(S)
    BY <1>3, <1>7 DEF SwitchDies
  <2>3. group' \in [Switch -> SUBSET Port]
    BY <1>1, <2>1, <2>2
  <2>4. dead' \in SUBSET Mortal
    BY <1>7 DEF RestInv, SwitchDies
  <2> QED
    BY <1>7, <2>1, <2>2, <2>3, <2>4 DEF RestInv, SwitchDies, portVars
<1>8. ASSUME NEW p \in Cabled, HandleLldpPacket(p) PROVE RestInv'
  <2>1. ports' \in SUBSET Port
    BY <1>8, PortFacts DEF RestInv, HandleLldpPacket
  <2>2. CASE UNCHANGED floodVars
    <3>1. group' \in [Switch -> SUBSET Port]
      BY <2>2 DEF RestInv, floodVars
    <3>2. TreeAvoidsDead' /\ tree' \in SUBSET Cabled
      BY <1>2, <1>8, <2>2 DEF HandleLldpPacket, floodVars
    <3> QED
      BY <1>8, <2>1, <3>1, <3>2 DEF RestInv, HandleLldpPacket
  <2>3. CASE RebuildSpanningTree
    <3>1. TreeAvoidsDead' /\ tree' \in SUBSET Cabled /\ \E S : RefreshGroups(S)
      BY <1>3, <2>3
    <3>2. group' \in [Switch -> SUBSET Port]
      BY <1>1, <2>1, <3>1
    <3> QED
      BY <1>8, <2>1, <3>1, <3>2 DEF RestInv, HandleLldpPacket
  <2> QED
    BY <1>8, <2>2, <2>3 DEF HandleLldpPacket
<1>9. ASSUME NEW p \in Port, PortDeleted(p) \/ PortAdded(p) PROVE RestInv'
  <2>1. ports' \in SUBSET Port /\ absent' \in SUBSET Flaky
    BY <1>9 DEF RestInv, PortDeleted, PortAdded
  <2>2. TreeAvoidsDead' /\ tree' \in SUBSET Cabled /\ \E S : RefreshGroups(S)
    BY <1>2, <1>9 DEF PortDeleted, PortAdded
  <2>3. group' \in [Switch -> SUBSET Port]
    BY <1>1, <2>1, <2>2
  <2> QED
    BY <1>9, <2>1, <2>2, <2>3 DEF RestInv, PortDeleted, PortAdded
<1>10. ASSUME NEW p \in Port, NEW m \in Mac, HandleArpRequest(p, m) PROVE RestInv'
  BY <1>2, <1>10 DEF RestInv, HandleArpRequest, floodVars
<1>11. ASSUME NEW p \in Port, NEW m \in Mac \cup {None}, NEW dst \in Mac,
              HandlePacketIn(p, m, dst)
       PROVE  RestInv'
  BY <1>2, <1>11 DEF RestInv, HandlePacketIn, floodVars
<1>12. CASE CostsChange \/ PreInstallAllPaths \/ UNCHANGED vars
  BY <1>2, <1>12 DEF RestInv, CostsChange, PreInstallAllPaths, vars, portVars, floodVars
<1> QED
  BY <1>5, <1>6, <1>7, <1>8, <1>9, <1>10, <1>11, <1>12 DEF Next

LEMMA RestAlways == Spec => []RestInv
<1>1. Init => RestInv
  BY DEF Init, RestInv, TreeAvoidsDead
<1>2. LinkInv' /\ RestInv /\ [Next]_vars => RestInv'
  BY RestStep
<1>3. Spec => []LinkInv
  BY ControllerImplementsLinkMap, LinkDatabaseConsistent, PTL
<1> QED
  BY <1>1, <1>2, <1>3, PTL DEF Spec

(* The tree is rebuilt whenever a switch dies, after the blocked set, and    *)
(* from links whose out ports lie on their cables: it never has a port at a  *)
(* dead switch, nor one that leads to it, for any fabric.                    *)
THEOREM TreeAlwaysAvoidsDead == Spec => []TreeAvoidsDead
<1>1. RestInv => TreeAvoidsDead
  BY DEF RestInv
<1> QED
  BY RestAlways, <1>1, PTL

(* Every table holds what it should: switches, ports of the fabric, ends of  *)
(* cables in the tree.                                                      *)
THEOREM ControllerTypes ==
  ASSUME Early = FALSE
  PROVE  Spec => []TypeOK
<1>1. ForwardingInv /\ RestInv => TypeOK
  BY DEF ForwardingInv, LinkInv, HostsHome, FlowInv, FlowTables, RestInv, TypeOK
<1> QED
  BY ForwardingAlways, RestAlways, <1>1, PTL

-----------------------------------------------------------------------------
\* Ports the controller should know, once it has its PORT_DESC reply.
PortsKnown == \A p \in Port : At[p] \in connected \ asked /\ p \notin absent => p \in ports

Fresh(s) == \A p \in group[s] : p \in linkPorts => p \in tree
Bare(s) == \A p \in Port : At[p] = s => p \notin tree /\ (p \notin Cabled => p \in absent)

\* The flood groups, as far as they are known to be up to date: a switch whose
\* last refresh came back empty keeps buckets that may be stale, but then no
\* tree port leads to it and no host is attached to it.
GroupsFresh ==
  \A s \in Switch : /\ s \notin connected => group[s] = {}
                    /\ s \in asked \/ Fresh(s) \/ Bare(s)

TreeInGroups == \A p \in tree : p \in group[At[p]]
HostsInGroups ==
  \A h \in Port : h \notin Cabled /\ h \notin absent /\ At[h] \in connected \ asked
                    => h \in group[At[h]]

\* The inductive invariant for the groups.
GroupInv == PortsKnown /\ GroupsFresh /\ TreeInGroups /\ HostsInGroups

\* What a refresh leaves on a switch.
LEMMA Refreshed ==
  ASSUME LinkInv', tree' \in SUBSET Cabled, TreeAvoidsDead', PortsKnown',
         NEW S, RefreshGroups(S), NEW s \in Switch, s \in S, s \in connected'
  PROVE  /\ s \in asked' \/ Fresh(s)' \/ Bare(s)'
         /\ \A p \in tree' : At[p] = s => p \in group'[s]
         /\ s \notin asked' => \A h \in Port : h \notin Cabled /\ h \notin absent' /\ At[h] = s
                                                 => h \in group'[s]
<1>1. group'[s] = IF Buckets(s)' # {} THEN Buckets(s)' ELSE group[s]
  BY DEF RefreshGroups
<1>2. \A p \in tree' : At[p] = s => p \in Buckets(s)'
  <2> SUFFICES ASSUME NEW p \in tree', At[p] = s PROVE p \in Buckets(s)'
    OBVIOUS
  <2>1. p \in Port /\ (links'[p] # None => links'[p] = Peer[p])
    BY PortFacts DEF LinkInv, LinksSymmetric
  <2>2. At[Peer[p]] \notin dead'
    BY DEF TreeAvoidsDead
  <2> QED
    BY <2>1, <2>2 DEF Buckets
<1>3. linkPorts' \subseteq Cabled
  BY DEF LinkInv, LinksSymmetric
<1>4. ASSUME s \notin asked', NEW h \in Port, h \notin Cabled, h \notin absent', At[h] = s
      PROVE  h \in Buckets(s)'
  BY <1>3, <1>4 DEF PortsKnown, Buckets
<1>5. CASE Buckets(s)' # {}
  <2>1. \A p \in group'[s] : p \in linkPorts' => p \in tree'
    BY <1>1, <1>5 DEF Buckets
  <2> QED
    BY <1>1, <1>2, <1>4, <1>5, <2>1 DEF Fresh
<1>6. CASE Buckets(s)' = {}
  BY <1>2, <1>4, <1>6 DEF Bare
<1> QED
  BY <1>5, <1>6

\* What an event leaves on a switch whose group it does not refresh.
LEMMA NotRefreshed ==
  ASSUME GroupInv, UNCHANGED tree, linkPorts' \subseteq linkPorts,
         NEW s \in Switch, group'[s] = group[s],
         s \in connected => s \in connected',
         s \in asked => s \in asked',
         s \in connected' \ asked' => s \in connected \ asked,
         \A p \in Port : At[p] = s => (p \in absent <=> p \in absent')
  PROVE  /\ s \notin connected' => group'[s] = {}
         /\ s \in asked' \/ Fresh(s)' \/ Bare(s)'
         /\ \A p \in tree' : At[p] = s => p \in group'[s]
         /\ s \in connected' \ asked' =>
              \A h \in Port : h \notin Cabled /\ h \notin absent' /\ At[h] = s => h \in group'[s]
<1>1. s \in asked' \/ Fresh(s)' \/ Bare(s)'
  <2>1. CASE Fresh(s)
    BY <2>1 DEF Fresh
  <2>2. CASE Bare(s)
    BY <2>2 DEF Bare
  <2> QED
    BY <2>1, <2>2 DEF GroupInv, GroupsFresh
<1> QED
  BY <1>1 DEF GroupInv, GroupsFresh, TreeInGroups, HostsInGroups

\* The invariant, put together from what each switch is left with.
LEMMA GroupsTogether ==
  ASSUME tree' \in SUBSET Cabled, PortsKnown',
         \A s \in Switch :
           /\ s \notin connected' => group'[s] = {}
           /\ s \in asked' \/ Fresh(s)' \/ Bare(s)'
           /\ \A p \in tree' : At[p] = s => p \in group'[s]
           /\ s \in connected' \ asked' =>
                \A h \in Port : h \notin Cabled /\ h \notin absent' /\ At[h] = s => h \in group'[s]
  PROVE  GroupInv'
<1>1. GroupsFresh'
  BY DEF GroupsFresh
<1>2. TreeInGroups'
  BY PortFacts DEF TreeInGroups
<1>3. HostsInGroups'
  BY CableAssumption DEF HostsInGroups
<1> QED
  BY <1>1, <1>2, <1>3 DEF GroupInv

(* The controller gets to know every port that is there.                    *)
LEMMA PortsKnownStep ==
  ASSUME PortsKnown, [Next]_vars
  PROVE  PortsKnown'
<1>1. ASSUME NEW s \in Switch, HandshakeSuccessful(s) PROVE PortsKnown'
  BY <1>1 DEF PortsKnown, HandshakeSuccessful, PortsOf
<1>2. ASSUME NEW s \in Switch, HandlePortDescReply(s) PROVE PortsKnown'
  BY <1>2 DEF PortsKnown, HandlePortDescReply, PortsOf
<1>3. ASSUME NEW s \in Switch, SwitchDies(s) PROVE PortsKnown'
  BY <1>3 DEF PortsKnown, SwitchDies, portVars
<1>4. ASSUME NEW p \in Cabled, HandleLldpPacket(p) PROVE PortsKnown'
  BY <1>4 DEF PortsKnown, HandleLldpPacket
<1>5. ASSUME NEW p \in Port, NEW m \in Mac, HandleArpRequest(p, m) PROVE PortsKnown'
  BY <1>5 DEF PortsKnown, HandleArpRequest
<1>6. ASSUME NEW p \in Port, NEW m \in Mac \cup {None}, NEW dst \in Mac,
             HandlePacketIn(p, m, dst)
      PROVE  PortsKnown'
  BY <1>6 DEF PortsKnown, HandlePacketIn
<1>7. ASSUME NEW p \in Port, PortDeleted(p) PROVE PortsKnown'
  BY <1>7 DEF PortsKnown, PortDeleted
<1>8. ASSUME NEW p \in Port, PortAdded(p) PROVE PortsKnown'
  BY <1>8 DEF PortsKnown, PortAdded
<1>9. CASE CostsChange \/ PreInstallAllPaths \/ UNCHANGED vars
  BY <1>9 DEF PortsKnown, CostsChange, PreInstallAllPaths, vars, portVars
<1> QED
  BY <1>1, <1>2, <1>3, <1>4, <1>5, <1>6, <1>7, <1>8, <1>9 DEF Next

(* What every event leaves of the groups: on the switches it refreshes the   *)
(* fresh buckets, on the others what there was, if no tree was built.        *)
LEMMA GroupStep ==
  ASSUME GroupInv, LinkInv, LinkInv', LinkedConnected', RestInv, RestInv', [Next]_vars
  PROVE  GroupInv'
<1>1. PortsKnown'
  BY PortsKnownStep DEF GroupInv
<1>2. tree' \in SUBSET Cabled /\ TreeAvoidsDead' /\ connected' \in SUBSET Switch
      /\ asked' \in SUBSET connected'
  BY DEF RestInv
<1> DEFINE Left(s) ==
             /\ s \notin connected' => group'[s] = {}
             /\ s \in asked' \/ Fresh(s)' \/ Bare(s)'
             /\ \A p \in tree' : At[p] = s => p \in group'[s]
             /\ s \in connected' \ asked' =>
                  \A h \in Port : h \notin Cabled /\ h \notin absent' /\ At[h] = s
                                   => h \in group'[s]
<1>3. ASSUME NEW S, RefreshGroups(S), NEW s \in Switch, s \in S, s \in connected'
      PROVE  Left(s)
  BY <1>1, <1>2, <1>3, Refreshed
<1>4. ASSUME \A s \in Switch : Left(s) PROVE GroupInv'
  BY <1>1, <1>2, <1>4, GroupsTogether
<1>5. ASSUME UNCHANGED tree, linkPorts' \subseteq linkPorts,
             NEW s \in Switch, group'[s] = group[s],
             s \in connected => s \in connected',
             s \in asked => s \in asked',
             s \in connected' \ asked' => s \in connected \ asked,
             \A p \in Port : At[p] = s => (p \in absent <=> p \in absent')
      PROVE  Left(s)
  BY <1>5, NotRefreshed
<1>6. ASSUME RebuildSpanningTree, UNCHANGED connected PROVE GroupInv'
  <2>1. RefreshGroups(connected)
    BY <1>6 DEF RebuildSpanningTree
  <2>2. ASSUME NEW s \in Switch, s \in connected PROVE Left(s)
    BY <1>3, <1>6, <2>1, <2>2
  <2>3. ASSUME NEW s \in Switch, s \notin connected PROVE Left(s)
    <3>1. group'[s] = group[s] /\ group[s] = {}
      BY <2>1, <2>3 DEF RefreshGroups, GroupInv, GroupsFresh
    <3>2. \A p \in tree' : At[p] # s
      <4> SUFFICES ASSUME NEW p \in tree', At[p] = s PROVE FALSE
        OBVIOUS
      <4>1. PICK par \in BreadthFirstTrees(graph', dead') :
              tree' = {routing'[par[v]][v] : v \in DOMAIN par} \cup
                      {routing'[v][par[v]] : v \in DOMAIN par}
        BY <1>6 DEF RebuildSpanningTree
      <4>2. PICK v \in DOMAIN par : p = routing'[par[v]][v] \/ p = routing'[v][par[v]]
        BY <4>1
      <4>3. /\ par[v] \in Switch /\ v \in Switch /\ v \in graph'[par[v]]
            /\ s = par[v] \/ s = v
        BY <4>2, TreeEdge
      <4>4. PICK a \in Switch, b \in Switch : b \in graph'[a] /\ (s = a \/ s = b)
        BY <4>3
      <4>5. a \in connected' /\ b \in connected'
        <5>1. PICK r \in Port : At[r] = a /\ links'[r] # None /\ At[links'[r]] = b
          BY <4>4 DEF LinkInv, GraphMatchesLinks
        <5>2. links'[r] \in Port /\ links'[links'[r]] = r /\ r # None
          BY <5>1, CableAssumption DEF LinkInv, LinkTypeOK, LinksSymmetric
        <5> QED
          BY <5>1, <5>2 DEF LinkedConnected
      <4> QED
        BY <1>6, <2>3, <4>4, <4>5
    <3> QED
      BY <1>6, <2>3, <3>1, <3>2 DEF Fresh
  <2> HIDE DEF Left
  <2> QED
    BY <1>4, <2>2, <2>3
<1>7. ASSUME NEW s \in Switch, HandshakeSuccessful(s) PROVE GroupInv'
  <2>1. /\ connected' = connected \cup {s} /\ asked' = asked \cup {s}
        /\ UNCHANGED <<linkPorts, absent, group, tree>>
    BY <1>7 DEF HandshakeSuccessful, linkVars, floodVars
  <2>2. \A u \in Switch : Left(u)
    BY <1>5, <2>1, Zenon
  <2> QED
    BY <1>4, <2>2
<1>8. ASSUME NEW s \in Switch, HandlePortDescReply(s) PROVE GroupInv'
  <2>1. /\ asked' = asked \ {s} /\ s \in asked /\ RefreshGroups({s})
        /\ UNCHANGED <<linkPorts, absent, connected, tree>>
    BY <1>8 DEF HandlePortDescReply, linkVars
  <2>2. Left(s)
    BY <1>2, <1>3, <2>1 DEF RestInv
  <2>3. ASSUME NEW u \in Switch, u # s PROVE Left(u)
    <3>1. group'[u] = group[u]
      BY <2>1, <2>3 DEF RefreshGroups
    <3> HIDE DEF Left
    <3> QED
      BY <1>5, <2>1, <2>3, <3>1
  <2> HIDE DEF Left
  <2> QED
    BY <1>4, <2>2, <2>3
<1>9. ASSUME NEW s \in Switch, SwitchDies(s) PROVE GroupInv'
  BY <1>6, <1>9 DEF SwitchDies
<1>10. ASSUME UNCHANGED <<connected, asked, absent, tree, group>>, linkPorts' \subseteq linkPorts
       PROVE  GroupInv'
  <2>1. \A u \in Switch : Left(u)
    <3> HIDE DEF Left
    <3> QED BY <1>5, <1>10
  <2> HIDE DEF Left
  <2> QED
    BY <1>4, <2>1
<1>11. ASSUME NEW p \in Cabled, HandleLldpPacket(p) PROVE GroupInv'
  <2>1. CASE AlreadyKnown(p, Peer[p])
    <3>1. UNCHANGED <<connected, asked, absent, tree, group>>
      BY <1>11, <2>1 DEF HandleLldpPacket, floodVars
    <3>2. UNCHANGED linkPorts
      BY <1>11, <2>1 DEF HandleLldpPacket, AddLink, linkVars
    <3> QED
      BY <1>10, <3>1, <3>2
  <2>2. CASE ~AlreadyKnown(p, Peer[p])
    BY <1>6, <1>11, <2>2 DEF HandleLldpPacket
  <2> QED
    BY <2>1, <2>2
<1>12. ASSUME NEW p \in Port, PortDeleted(p) \/ PortAdded(p) PROVE GroupInv'
  <2> DEFINE s == At[p]
  <2>1. /\ s \in Switch /\ s \in connected /\ RefreshGroups({s})
        /\ UNCHANGED <<connected, asked, tree>>
        /\ \A q \in Port : At[q] # s => (q \in absent <=> q \in absent')
    BY <1>12, CableAssumption DEF PortDeleted, PortAdded
  <2>2. linkPorts' \subseteq linkPorts
    BY <1>12 DEF PortDeleted, PortAdded, RemovePort, EraseLink, linkVars
  <2> HIDE DEF s
  <2>3. Left(s)
    BY <1>3, <2>1
  <2>4. ASSUME NEW u \in Switch, u # s PROVE Left(u)
    <3>1. group'[u] = group[u]
      BY <2>1, <2>4 DEF RefreshGroups
    <3> HIDE DEF Left
    <3> QED
      BY <1>5, <2>1, <2>2, <2>4, <3>1
  <2> HIDE DEF Left
  <2> QED
    BY <1>4, <2>3, <2>4
<1>13. ASSUME \/ \E p \in Port, m \in Mac : HandleArpRequest(p, m)
              \/ \E p \in Port, m \in Mac \cup {None}, dst \in Mac : HandlePacketIn(p, m, dst)
              \/ CostsChange
              \/ PreInstallAllPaths
              \/ UNCHANGED vars
       PROVE  GroupInv'
  <2>1. UNCHANGED <<connected, asked, absent, tree, group, linkPorts>>
    BY <1>13 DEF HandleArpRequest, HandlePacketIn, CostsChange, PreInstallAllPaths,
       vars, portVars, floodVars, linkVars
  <2> QED
    BY <1>10, <2>1
<1> QED
  BY <1>7, <1>8, <1>9, <1>11, <1>12, <1>13 DEF Next

-----------------------------------------------------------------------------
\* A tree port that leads to a switch nearer to the root.
LeadsUp(depth, p) == depth[At[Peer[p]]] < depth[At[p]]

\* The tree is a tree: both ends of each edge are there, the ends are not
\* equally deep, and a switch has one port at most that leads up.
TreeShape ==
  \E depth \in [Switch -> Nat] :
    /\ \A p \in tree : Peer[p] \in tree /\ depth[At[p]] # depth[At[Peer[p]]]
    /\ \A p, q \in tree :
         At[p] = At[q] /\ LeadsUp(depth, p) /\ LeadsUp(depth, q) => p = q

HasUpPort(depth, v) ==
  \E p \in tree : At[p] = v /\ At[Peer[p]] \in TreePart /\ LeadsUp(depth, p)

\* As long as no cable is missing, it connects all of its part: a tree port
\* leads up from every switch but the root.
TreeSpans ==
  Cabled \subseteq linkPorts =>
    \E depth \in [Switch -> Nat] : \A v, w \in TreePart :
      HasUpPort(depth, v) \/ HasUpPort(depth, w) \/ v = w

(* Any set of switches has a least one for the tree to start at.             *)
LEMMA LeastRoot ==
  ASSUME NEW B \in SUBSET Switch, B # {}
  PROVE  Min(B) \in B
<1>1. B \in SUBSET Nat
  BY ControllerAssumption
<1>2. \E x \in B : \A y \in B : y >= x
  <2>1. PICK x \in B : \A y \in B : x <= y
    BY <1>1, LeastNat
  <2> QED
    BY <1>1, <2>1
<1> QED
  BY <1>2 DEF Min

(* RebuildSpanningTree builds a tree, of all of its part.                    *)
LEMMA TreeRebuilt ==
  ASSUME LinkInv', RoutingPaired', RebuildSpanningTree
  PROVE  TreeShape' /\ TreeSpans'
<1>1. PICK par \in BreadthFirstTrees(graph', dead') :
        tree' = {routing'[par[v]][v] : v \in DOMAIN par} \cup
                {routing'[v][par[v]] : v \in DOMAIN par}
  BY DEF RebuildSpanningTree
<1>2. DOMAIN graph' = Switch /\ (\A s \in Switch : graph'[s] \subseteq Switch) /\ IsFiniteSet(Switch)
  BY CableAssumption DEF LinkInv, LinkTypeOK
<1> DEFINE Down(v) == routing'[par[v]][v]
           Above(v) == routing'[v][par[v]]
<1>3. \A v \in DOMAIN par :
        /\ par[v] \in Switch /\ v \in Switch
        /\ Down(v) \in Cabled /\ Above(v) \in Cabled
        /\ At[Down(v)] = par[v] /\ At[Above(v)] = v
        /\ Peer[Down(v)] = Above(v) /\ Peer[Above(v)] = Down(v)
  <2> SUFFICES ASSUME NEW v \in DOMAIN par
               PROVE  /\ par[v] \in Switch /\ v \in Switch
                      /\ Down(v) \in Cabled /\ Above(v) \in Cabled
                      /\ At[Down(v)] = par[v] /\ At[Above(v)] = v
                      /\ Peer[Down(v)] = Above(v) /\ Peer[Above(v)] = Down(v)
    OBVIOUS
  <2>1. /\ par[v] \in Switch /\ v \in Switch
        /\ Down(v) \in Cabled /\ Above(v) \in Cabled
        /\ At[Down(v)] = par[v] /\ At[Above(v)] = v
    BY TreeEdge
  <2>2. Above(v) = Peer[Down(v)] /\ Down(v) = Peer[Above(v)]
    BY <2>1, PortFacts DEF RoutingPaired
  <2> QED
    BY <2>1, <2>2
<1>4. PICK depth \in [Switch -> Nat] : \A v \in DOMAIN par : depth[par[v]] < depth[v]
  <2>1. PICK d \in [DOMAIN graph' -> Nat] :
          \A v \in DOMAIN par : v \in DOMAIN graph' => d[par[v]] < d[v]
    BY <1>2, TreeDepth
  <2> QED
    BY <1>2, <1>3, <2>1
<1> HIDE DEF Down, Above
<1>5. \A p \in tree' : \E v \in DOMAIN par : p = Down(v) \/ p = Above(v)
  BY <1>1 DEF Down, Above
<1>6. \A v \in DOMAIN par : Down(v) \in tree' /\ Above(v) \in tree'
  BY <1>1 DEF Down, Above
<1>7. \A v \in DOMAIN par : /\ LeadsUp(depth, Above(v)) /\ ~LeadsUp(depth, Down(v))
                            /\ depth[v] # depth[par[v]]
  <2> TAKE v \in DOMAIN par
  <2>1. depth[v] \in Nat /\ depth[par[v]] \in Nat /\ depth[par[v]] < depth[v]
    BY <1>3, <1>4
  <2> QED
    BY <1>3, <2>1 DEF LeadsUp
<1>8. TreeShape'
  <2>1. \A p \in tree' : Peer[p] \in tree' /\ depth[At[p]] # depth[At[Peer[p]]]
    BY <1>3, <1>5, <1>6, <1>7
  <2>2. ASSUME NEW p \in tree', NEW q \in tree',
               At[p] = At[q], LeadsUp(depth, p), LeadsUp(depth, q)
        PROVE  p = q
    <3>1. PICK v \in DOMAIN par : p = Above(v)
      BY <1>5, <1>7, <2>2
    <3>2. PICK w \in DOMAIN par : q = Above(w)
      BY <1>5, <1>7, <2>2
    <3>3. v = w
      BY <1>3, <2>2, <3>1, <3>2
    <3> QED
      BY <3>1, <3>2, <3>3
  <2> QED
    BY <2>1, <2>2 DEF TreeShape, LeadsUp
<1>9. TreeSpans'
  <2> DEFINE Roots == {s \in Switch : s \notin dead' /\ graph'[s] # {}}
             r == Min(Roots)
             Found == Ball([s \in Switch |-> graph'[s] \ dead'], Switch, r)[Cardinality(Switch)]
  <2>1. TreePart' = IF Roots = {} THEN {} ELSE Reach(graph', Switch \ dead', r) \ dead'
    <3>1. {s \in Switch \ dead' : graph'[s] # {}} = Roots
      OBVIOUS
    <3> QED
      BY <3>1 DEF TreePart
  <2>2. CASE Roots = {}
    <3>1. TreePart' = {}
      BY <2>1, <2>2
    <3> QED
      BY <1>4, <3>1 DEF TreeSpans
  <2>3. CASE Roots # {}
    <3>1. r \in Roots
      BY <2>3, LeastRoot
    <3>2. par \in [Found \ {r} -> Found]
      BY <1>2, <2>3 DEF BreadthFirstTrees
    <3>3. Found = TreePart'
      <4>1. r \in DOMAIN graph' \ dead'
        BY <1>2, <3>1
      <4> HIDE DEF Roots, r
      <4>2. Ball([s \in DOMAIN graph' |-> graph'[s] \ dead'], DOMAIN graph', r)[Cardinality(DOMAIN graph')]
              = Reach(graph', DOMAIN graph' \ dead', r) \ dead'
        BY <1>2, <4>1, TreeFinds
      <4> QED
        BY <1>2, <2>1, <2>3, <4>2
    <3> HIDE DEF Roots, r, Found
    <3>4. \A v \in TreePart' :
            v = r \/ \E p \in tree' : /\ At[p] = v /\ At[Peer[p]] \in TreePart'
                                      /\ LeadsUp(depth, p)
      <4> SUFFICES ASSUME NEW v \in TreePart', v # r
                   PROVE  \E p \in tree' : /\ At[p] = v /\ At[Peer[p]] \in TreePart'
                                           /\ LeadsUp(depth, p)
        OBVIOUS
      <4>1. v \in DOMAIN par /\ par[v] \in TreePart'
        BY <3>2, <3>3
      <4> QED
        BY <1>3, <1>6, <1>7, <4>1
    <3> QED
      BY <1>4, <3>4 DEF TreeSpans, HasUpPort, LeadsUp
  <2> QED
    BY <2>2, <2>3
<1> QED
  BY <1>8, <1>9

\* The tree and the part it covers change in a rebuild only; what else changes
\* the links leaves some cable undiscovered.
LEMMA TreeStep ==
  ASSUME LinkInv, LinkInv', RoutingPaired', TreeShape, TreeSpans, [Next]_vars
  PROVE  TreeShape' /\ TreeSpans'
<1>1. CASE RebuildSpanningTree
  BY <1>1, TreeRebuilt
<1>2. ASSUME UNCHANGED <<tree, dead, graph, linkPorts>> PROVE TreeShape' /\ TreeSpans'
  <2>1. TreeShape'
    BY <1>2 DEF TreeShape
  <2>2. TreePart' = TreePart
    BY <1>2 DEF TreePart
  <2>3. ASSUME NEW depth, NEW v, HasUpPort(depth, v) PROVE HasUpPort(depth, v)'
    BY <1>2, <2>2, <2>3 DEF HasUpPort, LeadsUp
  <2>4. TreeSpans'
    BY <1>2, <2>2, <2>3 DEF TreeSpans
  <2> QED
    BY <2>1, <2>4
<1>3. ASSUME NEW p \in Port, PortDeleted(p) PROVE TreeShape' /\ TreeSpans'
  <2>1. CASE UNCHANGED linkVars
    BY <1>2, <1>3, <2>1 DEF PortDeleted, linkVars
  <2>2. CASE links[p] # None /\ EraseLink(p)
    <3>1. UNCHANGED tree
      BY <1>3 DEF PortDeleted
    <3>2. TreeShape'
      BY <3>1 DEF TreeShape
    <3>3. p \in Cabled /\ p \notin linkPorts'
      BY <2>2 DEF EraseLink, BothEnds, LinkInv, LinksSymmetric
    <3> QED
      BY <3>2, <3>3 DEF TreeSpans
  <2> QED
    BY <1>3, <2>1, <2>2 DEF PortDeleted, RemovePort
<1>4. ASSUME NEW p \in Cabled, HandleLldpPacket(p) PROVE TreeShape' /\ TreeSpans'
  <2>1. CASE AlreadyKnown(p, Peer[p])
    BY <1>2, <1>4, <2>1 DEF HandleLldpPacket, AddLink, linkVars, floodVars
  <2> QED
    BY <1>1, <1>4, <2>1 DEF HandleLldpPacket
<1>5. ASSUME NEW s \in Switch, SwitchDies(s) PROVE TreeShape' /\ TreeSpans'
  BY <1>1, <1>5 DEF SwitchDies
<1>6. UNCHANGED <<tree, dead, graph, linkPorts>> \/ (\E p \in Port : PortDeleted(p))
      \/ (\E p \in Cabled : HandleLldpPacket(p)) \/ (\E s \in Switch : SwitchDies(s))
  BY DEF Next, vars, linkVars, portVars, hostVars, floodVars, HandshakeSuccessful,
     HandlePortDescReply, HandleArpRequest, HandlePacketIn, PortAdded, CostsChange,
     PreInstallAllPaths
<1> QED
  BY <1>2, <1>3, <1>4, <1>5, <1>6

-----------------------------------------------------------------------------
\* A switch floods to its own ports.
GroupsOwn == \A s \in Switch : \A p \in group[s] : At[p] = s

(* A group is only ever set to buckets of its switch.                        *)
LEMMA GroupsOwnStep ==
  ASSUME GroupsOwn, [Next]_vars
  PROVE  GroupsOwn'
<1>1. UNCHANGED group \/ \E S : RefreshGroups(S)
  BY DEF Next, vars, floodVars, HandshakeSuccessful, HandlePortDescReply, SwitchDies,
     HandleLldpPacket, RebuildSpanningTree, HandleArpRequest, HandlePacketIn, PortDeleted,
     PortAdded, CostsChange, PreInstallAllPaths
<1>2. ASSUME NEW S, RefreshGroups(S) PROVE GroupsOwn'
  <2>1. \A s \in Switch : \A p \in Buckets(s)' : At[p] = s
    BY DEF Buckets
  <2>2. \A s \in Switch : group'[s] = IF s \in S /\ Buckets(s)' # {} THEN Buckets(s)' ELSE group[s]
    BY <1>2 DEF RefreshGroups
  <2> QED
    BY <2>1, <2>2 DEF GroupsOwn
<1> QED
  BY <1>1, <1>2 DEF GroupsOwn

\* The inductive invariant for the flood.
FloodInv ==
  /\ GroupsOwn
  /\ LinkInv /\ LinkedConnected /\ RestInv /\ RoutingPaired /\ GroupInv /\ TreeShape /\ TreeSpans

(* At first there is neither link nor tree.                                  *)
LEMMA FloodInvInit == Init => FloodInv
<1> SUFFICES ASSUME Init PROVE FloodInv
  OBVIOUS
<1>1. LinkInv
  BY LinkInitInv DEF Init
<1>2. LinkedConnected /\ RoutingPaired /\ RestInv
  BY DEF Init, LinkInit, LinkedConnected, RoutingPaired, RestInv, TreeAvoidsDead
<1>3. GroupInv /\ GroupsOwn
  BY DEF Init, GroupsOwn, GroupInv, PortsKnown, GroupsFresh, TreeInGroups, HostsInGroups, Fresh
<1>4. \A depth : depth = [s \in Switch |-> 0] => depth \in [Switch -> Nat]
  OBVIOUS
<1>5. TreeShape
  BY <1>4 DEF Init, TreeShape
<1>6. TreePart = {}
  <2>1. {s \in Switch \ dead : graph[s] # {}} = {}
    BY DEF Init, LinkInit
  <2> QED
    BY <2>1 DEF TreePart
<1>7. TreeSpans
  BY <1>4, <1>6 DEF TreeSpans
<1> QED
  BY <1>1, <1>2, <1>3, <1>5, <1>7 DEF FloodInv

(* The invariant holds throughout, with or without early frames.             *)
LEMMA FloodAlways == Spec => []FloodInv
<1>1. FloodInv /\ [Next]_vars => FloodInv'
  <2> SUFFICES ASSUME FloodInv, [Next]_vars PROVE FloodInv'
    OBVIOUS
  <2>1. LinkInv'
    BY LinkStepInv, StepOfLinkMap DEF FloodInv
  <2>2. LinkedConnected'
    BY LinkedConnectedStep DEF FloodInv
  <2>3. RestInv'
    BY <2>1, RestStep DEF FloodInv
  <2>4. RoutingPaired'
    BY <2>1, PairedStep, StepOfLinkMap DEF FloodInv
  <2>5. GroupInv'
    BY <2>1, <2>2, <2>3, GroupStep DEF FloodInv
  <2>6. TreeShape' /\ TreeSpans'
    BY <2>1, <2>4, TreeStep DEF FloodInv
  <2>7. GroupsOwn'
    BY GroupsOwnStep DEF FloodInv
  <2> QED
    BY <2>1, <2>2, <2>3, <2>4, <2>5, <2>6, <2>7 DEF FloodInv
<1> QED
  BY FloodInvInit, <1>1, PTL DEF Spec

-----------------------------------------------------------------------------
\* Copies cannot go round in a tree.  If some port of C leads up, look at the
\* deepest switch with one: the next port must lead down and its frames come
\* in, on a port that leads up, at a deeper switch.  If none does, all ports
\* lead down, and the next port of the least deep switch comes in at one
\* less deep.
LEMMA NoLoopInTree ==
  ASSUME NEW D \in SUBSET tree, D # {}, TreeShape, tree \in SUBSET Cabled,
         \A p \in D : \E o \in tree : At[o] = At[p] /\ o # p /\ Peer[o] \in D
  PROVE  FALSE
<1>1. PICK depth \in [Switch -> Nat] :
        /\ \A p \in tree : Peer[p] \in tree /\ depth[At[p]] # depth[At[Peer[p]]]
        /\ \A p, q \in tree :
             At[p] = At[q] /\ LeadsUp(depth, p) /\ LeadsUp(depth, q) => p = q
  BY DEF TreeShape
<1>2. \A p \in tree : /\ p \in Cabled /\ Peer[Peer[p]] = p
                       /\ depth[At[p]] \in Nat /\ depth[At[Peer[p]]] \in Nat
  BY PortFacts, CableAssumption DEF Cabled
<1>3. \A p \in tree : LeadsUp(depth, p) <=> ~LeadsUp(depth, Peer[p])
  BY <1>1, <1>2 DEF LeadsUp
<1> DEFINE U == {p \in D : LeadsUp(depth, p)}
           deep == [p \in D |-> depth[At[p]]]
<1>4. IsFiniteSet(D) /\ IsFiniteSet(U) /\ U \subseteq D /\ \A p \in D : deep[p] \in Int
  BY <1>2, PortFacts, CableAssumption, FS_Subset
<1>5. \A p \in D : deep[p] = depth[At[p]]
  OBVIOUS
<1> HIDE DEF deep, U
<1>6. CASE U # {}
  <2>1. PICK p \in U : \A q \in U : deep[q] <= deep[p]
    BY <1>4, <1>6, Extremes
  <2>2. PICK o \in tree : At[o] = At[p] /\ o # p /\ Peer[o] \in D
    BY <1>4
  <2>3. ~LeadsUp(depth, o) /\ p \in tree
    BY <1>1, <1>4, <2>2 DEF U
  <2>4. LeadsUp(depth, Peer[o]) /\ Peer[o] \in U
    BY <1>2, <1>3, <2>2, <2>3 DEF U
  <2>5. deep[Peer[o]] > deep[p] /\ deep[Peer[o]] \in Int /\ deep[p] \in Int
    BY <1>2, <1>4, <1>5, <2>2, <2>3, <2>4 DEF LeadsUp
  <2> QED
    BY <2>1, <2>4, <2>5
<1>7. CASE U = {}
  <2>1. PICK p \in D : \A q \in D : deep[p] <= deep[q]
    BY <1>4, Extremes
  <2>2. PICK o \in tree : At[o] = At[p] /\ o # p /\ Peer[o] \in D
    OBVIOUS
  <2>3. LeadsUp(depth, o)
    BY <1>3, <1>7, <2>2 DEF U
  <2>4. deep[Peer[o]] < deep[p] /\ deep[Peer[o]] \in Int /\ deep[p] \in Int
    BY <1>2, <1>4, <1>5, <2>2, <2>3 DEF LeadsUp
  <2> QED
    BY <2>1, <2>2, <2>4
<1> QED
  BY <1>6, <1>7

\* A broadcast from an attached host only meets switches whose groups are fresh.
LEMMA FloodedFresh ==
  ASSUME FloodInv, Settled, NEW h \in Port, h \notin Cabled, h \notin absent
  PROVE  \A u \in FloodedFrom(At[h]) : u \in Switch /\ Fresh(u)
<1> DEFINE g == [u \in Switch |-> {At[Peer[p]] : p \in group[u] \cap Up}]
           X == {u \in Switch : Fresh(u)}
<1>1. \A u \in Switch : Fresh(u) \/ Bare(u)
  BY DEF FloodInv, GroupInv, GroupsFresh, Settled
<1>2. At[h] \in X
  <2>1. At[h] \in Switch
    BY CableAssumption
  <2>2. ~Bare(At[h])
    BY DEF Bare
  <2> QED
    BY <1>1, <2>1, <2>2
<1>3. ASSUME NEW u \in X, NEW p \in group[u] \cap Up PROVE At[Peer[p]] \in X
  <2>1. p \in linkPorts
    BY <1>3 DEF Settled
  <2>2. p \in tree
    BY <2>1 DEF Fresh
  <2>3. Peer[p] \in tree /\ At[Peer[p]] \in Switch /\ Peer[p] \in Port
    BY <2>2, PortFacts DEF FloodInv, TreeShape, RestInv
  <2>4. ~Bare(At[Peer[p]])
    BY <2>3 DEF Bare
  <2> QED
    BY <1>1, <2>3, <2>4
<1>4. DOMAIN g = Switch /\ IsFiniteSet(Switch) /\ \A u \in X \cap Switch : g[u] \subseteq X
  BY <1>3, CableAssumption
<1>5. FloodedFrom(At[h]) = Reach(g, Switch, At[h])
  BY DEF FloodedFrom
<1> HIDE DEF g, X
<1>6. Reach(g, Switch, At[h]) \subseteq X
  BY <1>2, <1>4, ReachWithin
<1> QED
  BY <1>5, <1>6 DEF X

(* Broadcasts from attached hosts meet fresh groups, so what could circulate *)
(* would go round in the tree.                                               *)
LEMMA NoFloodLoop == FloodInv => SettledFloodLoopFree
<1> SUFFICES ASSUME FloodInv, Settled, NEW h \in Port, h \notin Cabled, h \notin absent,
                    NEW C, C \subseteq {p \in Up : At[p] \in FloodedFrom(At[h])}, C # {},
                    \A p \in C : \E o \in group[At[p]] \ {p} : o \in Up /\ Peer[o] \in C
             PROVE  FALSE
  BY DEF SettledFloodLoopFree, FloodLoopFree
<1> DEFINE D == C \cap tree
<1>1. /\ tree \in SUBSET Cabled /\ TreeShape /\ \A p \in tree : Peer[p] \in tree
      /\ group \in [Switch -> SUBSET Port]
  BY DEF FloodInv, RestInv, TreeShape
<1>2. \A p \in C : p \in Up /\ At[p] \in Switch /\ Fresh(At[p])
  BY FloodedFresh
<1>3. ASSUME NEW p \in C
      PROVE  \E o \in tree : At[o] = At[p] /\ o # p /\ Peer[o] \in D
  <2>1. PICK o \in group[At[p]] \ {p} : o \in Up /\ Peer[o] \in C
    OBVIOUS
  <2>2. o \in tree
    BY <1>2, <2>1 DEF Fresh, Settled
  <2>3. At[o] = At[p]
    BY <1>2, <2>1 DEF FloodInv, GroupsOwn
  <2> QED
    BY <1>1, <2>1, <2>2, <2>3
<1>4. D # {}
  BY <1>3
<1> QED
  BY <1>1, <1>3, <1>4, NoLoopInTree

\* No broadcast circulates: the buckets it meets are tree ports.
THEOREM FloodsNeverCirculate == Spec => []SettledFloodLoopFree
BY FloodAlways, NoFloodLoop, PTL

-----------------------------------------------------------------------------
(* With all cables discovered the tree spans its part: were a switch of it   *)
(* not reached, the least deep one that is and the least deep one that is    *)
(* not would both be roots.                                                  *)
LEMMA BroadcastArrives == FloodInv => FloodRestored
<1> SUFFICES ASSUME FloodInv, Settled, absent = {} PROVE Broadcast
  BY DEF FloodRestored
<1>1. Up = Cabled /\ Cabled \subseteq linkPorts
  BY DEF Settled, Up
<1>2. ASSUME NEW m \in Mac PROVE HostPort[m] \in group[At[HostPort[m]]]
  <2>1. HostPort[m] \in Port /\ HostPort[m] \notin Cabled /\ At[HostPort[m]] \in Switch
    BY PortFacts, CableAssumption
  <2> QED
    BY <2>1 DEF FloodInv, GroupInv, HostsInGroups, Settled
<1>3. PICK depth \in [Switch -> Nat] : \A v, w \in TreePart :
        HasUpPort(depth, v) \/ HasUpPort(depth, w) \/ v = w
  BY <1>1 DEF FloodInv, TreeSpans
<1> DEFINE g == [u \in Switch |-> {At[Peer[p]] : p \in group[u] \cap Up}]
<1>4. \A p \in tree : p \in group[At[p]] /\ p \in Up /\ Peer[p] \in tree
                      /\ At[p] \in Switch /\ At[Peer[p]] \in Switch /\ Peer[Peer[p]] = p
  BY <1>1, PortFacts, CableAssumption DEF FloodInv, TreeShape, RestInv, GroupInv, TreeInGroups, Cabled
<1>5. \A p \in tree : At[Peer[p]] \in g[At[p]] /\ At[p] \in g[At[Peer[p]]]
  BY <1>4
<1>6. DOMAIN g = Switch /\ IsFiniteSet(Switch) /\ TreePart \subseteq Switch
      /\ \A u \in Switch : g[u] \subseteq Switch
  <2>1. \A u \in Switch : g[u] \subseteq Switch
    BY <1>1, PortFacts
  <2>2. TreePart \subseteq Switch
    <3> DEFINE Roots == {s \in Switch \ dead : graph[s] # {}}
    <3>1. CASE Roots = {}
      BY <3>1 DEF TreePart
    <3>2. CASE Roots # {}
      <4>1. TreePart = Reach(graph, Switch \ dead, Min(Roots)) \ dead
        BY <3>2 DEF TreePart
      <4>2. Min(Roots) \in Roots
        BY <3>2, LeastRoot
      <4>3. Min(Roots) \in Switch
        BY <4>2
      <4>4. DOMAIN graph = Switch /\ \A u \in Switch : graph[u] \subseteq Switch
        BY DEF FloodInv, LinkInv, LinkTypeOK
      <4> HIDE DEF Roots
      <4>5. Reach(graph, Switch \ dead, Min(Roots)) \subseteq Switch
        BY <4>3, <4>4, CableAssumption, ReachWithin
      <4> QED
        BY <4>1, <4>5
    <3> QED
      BY <3>1, <3>2
  <2> QED
    BY <2>1, <2>2, CableAssumption
<1> HIDE DEF g
<1>7. ASSUME NEW s \in TreePart, NEW F, F = Reach(g, Switch, s)
      PROVE  TreePart \subseteq F
  <2>1. s \in F /\ \A u \in F \cap Switch : g[u] \subseteq F
    <3>1. s \in DOMAIN g
      BY <1>6
    <3>2. s \in Reach(g, Switch, s)
      BY <1>6, ReachesItself
    <3>3. \A u \in Reach(g, Switch, s) \cap Switch : g[u] \subseteq Reach(g, Switch, s)
      BY <1>6, <3>1, ReachClosed
    <3> QED
      BY <1>7, <3>2, <3>3
  <2> DEFINE In == TreePart \cap F
             Out == TreePart \ F
  <2>2. \A V \in SUBSET TreePart : V # {} => \E v \in V : \A w \in V : depth[v] <= depth[w]
    <3> TAKE V \in SUBSET TreePart
    <3> HAVE V # {}
    <3>1. IsFiniteSet(V) /\ \A v \in V : depth[v] \in Int
      BY <1>6, FS_Subset
    <3> QED
      BY <3>1, Extremes
  <2>3. \A v, w \in TreePart : depth[v] \in Nat
    BY <1>6
  <2>4. SUFFICES ASSUME Out # {} PROVE FALSE
    OBVIOUS
  <2>5. PICK v \in In : \A w \in In : depth[v] <= depth[w]
    BY <2>1, <2>2
  <2>6. PICK w \in Out : \A x \in Out : depth[w] <= depth[x]
    BY <2>2, <2>4
  <2>7. ~HasUpPort(depth, v)
    <3> SUFFICES ASSUME NEW p \in tree, At[p] = v, At[Peer[p]] \in TreePart, LeadsUp(depth, p)
                 PROVE  FALSE
      BY DEF HasUpPort
    <3>1. At[Peer[p]] \in In
      BY <1>4, <1>5, <2>1
    <3> QED
      BY <2>3, <2>5, <3>1 DEF LeadsUp
  <2>8. ~HasUpPort(depth, w)
    <3> SUFFICES ASSUME NEW p \in tree, At[p] = w, At[Peer[p]] \in TreePart, LeadsUp(depth, p)
                 PROVE  FALSE
      BY DEF HasUpPort
    <3>1. At[Peer[p]] \in Out
      BY <1>4, <1>5, <2>1
    <3> QED
      BY <2>3, <2>6, <3>1 DEF LeadsUp
  <2> QED
    BY <1>3, <2>5, <2>6, <2>7, <2>8
<1>8. \A s, d \in TreePart : d \in FloodedFrom(s)
  <2>1. \A s : FloodedFrom(s) = Reach(g, Switch, s)
    BY DEF FloodedFrom, g
  <2> QED
    BY <1>7, <2>1
<1> QED
  BY <1>2, <1>8 DEF Broadcast

\* Every broadcast of the tree's part gets to every host of it.
THEOREM BroadcastAlwaysRestored == Spec => []FloodRestored
BY FloodAlways, BroadcastArrives, PTL
=============================================================================
