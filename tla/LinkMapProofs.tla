--------------------------- MODULE LinkMapProofs ---------------------------
(***************************************************************************)
(* Proofs about the link database.  The two operations are treated one at  *)
(* a time by lemmas that do not mention LinkNext, so that the modules that  *)
(* embed AddLink and RemovePort in larger actions can cite them.            *)
(***************************************************************************)
EXTENDS LinkMap, TLAPS

(* Nothing is linked at first.                                              *)
LEMMA LinkInitInv == LinkInit => LinkInv
BY CableAssumption DEF LinkInit, LinkInv, LinkTypeOK, LinksSymmetric,
   GraphMatchesLinks, RoutingOverCables, StillLinked

(* AddLink on the two ends of a cable keeps the database consistent.        *)
LEMMA AddLinkInv ==
  ASSUME NEW p \in Cabled, LinkInv, AddLink(p, Peer[p])
  PROVE  LinkInv'
<1>1. CASE UNCHANGED linkVars
  BY <1>1 DEF LinkInv, linkVars, LinkTypeOK, LinksSymmetric,
     GraphMatchesLinks, RoutingOverCables, StillLinked
<1>2. CASE RecordLink(p, Peer[p])
  <2> DEFINE q == Peer[p]
             a == At[p]
             b == At[q]
  <2>1. /\ p \in Port /\ q \in Port /\ q \in Cabled /\ Peer[q] = p
        /\ a \in Switch /\ b \in Switch /\ a # b /\ p # q
    BY CableAssumption DEF Cabled
  <2>2. LinkTypeOK'
    BY <1>2, <2>1 DEF RecordLink, LinkInv, LinkTypeOK
  <2>3. \A r \in Port : links'[r] = IF r = p THEN q ELSE IF r = q THEN p ELSE links[r]
    BY <1>2, <2>1 DEF RecordLink, LinkInv, LinkTypeOK
  <2>4. LinksSymmetric'
    <3>1. linkPorts' = linkPorts \cup {p, q}
      BY <1>2 DEF RecordLink
    <3>2. ASSUME NEW r \in Port, links'[r] # None
          PROVE  r \in Cabled /\ links'[r] = Peer[r] /\ links'[links'[r]] = r
      BY <2>1, <2>3, <3>2, CableAssumption DEF LinkInv, LinksSymmetric, Cabled
    <3> QED
      BY <2>1, <2>3, <3>1, <3>2, CableAssumption DEF LinkInv, LinksSymmetric
  <2>5. ASSUME NEW s \in Switch, NEW d \in Switch
        PROVE  d \in graph'[s] <=> d \in graph[s] \/ <<s, d>> \in {<<a, b>>, <<b, a>>}
    BY <1>2, <2>1 DEF RecordLink, LinkInv, LinkTypeOK
  <2>6. ASSUME NEW s \in Switch, NEW d \in Switch
        PROVE  StillLinked(links', s, d) <=>
                 StillLinked(links, s, d) \/ <<s, d>> \in {<<a, b>>, <<b, a>>}
    <3>1. links[p] \in {None, q} /\ links[q] \in {None, p}
      BY <2>1 DEF LinkInv, LinksSymmetric
    <3> QED
      BY <2>1, <2>3, <3>1, CableAssumption DEF StillLinked
  <2>7. GraphMatchesLinks'
    BY <2>5, <2>6 DEF LinkInv, GraphMatchesLinks, StillLinked
  <2>8. ASSUME NEW s \in Switch, NEW d \in Switch
        PROVE  routing'[s][d] = IF s = a /\ d = b THEN p
                                ELSE IF s = b /\ d = a THEN q ELSE routing[s][d]
    BY <1>2, <2>1 DEF RecordLink, LinkInv, LinkTypeOK
  <2>9. RoutingOverCables'
    BY <2>1, <2>5, <2>8, CableAssumption DEF LinkInv, RoutingOverCables, Cabled
  <2> QED
    BY <2>2, <2>4, <2>7, <2>9 DEF LinkInv
<1> QED
  BY <1>1, <1>2 DEF AddLink

(* RemovePort, on any port, keeps the database consistent.                  *)
LEMMA RemovePortInv ==
  ASSUME NEW p \in Port, LinkInv, RemovePort(p)
  PROVE  LinkInv'
<1>1. CASE UNCHANGED linkVars
  BY <1>1 DEF LinkInv, linkVars, LinkTypeOK, LinksSymmetric,
     GraphMatchesLinks, RoutingOverCables, StillLinked
<1>2. CASE links[p] # None /\ EraseLink(p)
  <2> DEFINE q == links[p]
             a == At[p]
             b == At[q]
             Gone(s, d) == {s, d} = {a, b} /\ ~StillLinked(links', s, d)
  <2>1. /\ p \in Cabled /\ q = Peer[p] /\ q \in Port /\ q \in Cabled
        /\ links[q] = p /\ Peer[q] = p
        /\ a \in Switch /\ b \in Switch /\ a # b /\ p # q
    BY <1>2, CableAssumption DEF LinkInv, LinksSymmetric, Cabled
  <2>2. /\ links' = [r \in Port |-> IF r \in {p, q} THEN None ELSE links[r]]
        /\ linkPorts' = linkPorts \ {p, q}
        /\ graph' = [s \in Switch |-> {d \in graph[s] : ~Gone(s, d)}]
        /\ routing' = [s \in Switch |-> [d \in Switch |->
                         IF Gone(s, d) THEN None ELSE routing[s][d]]]
    BY <1>2, <2>1 DEF EraseLink, BothEnds, LinkInv, LinkTypeOK
  <2> HIDE DEF Gone
  <2>3. \A r \in Port : links'[r] = IF r \in {p, q} THEN None ELSE links[r]
    BY <2>1, <2>2
  <2>4. LinkTypeOK'
    <3>1. links' \in [Port -> Port \cup {None}] /\ linkPorts' \in SUBSET Port
      BY <2>2 DEF LinkInv, LinkTypeOK
    <3>2. graph' \in [Switch -> SUBSET Switch]
      BY <2>2 DEF LinkInv, LinkTypeOK
    <3>3. routing' \in [Switch -> [Switch -> Port \cup {None}]]
      BY <2>2 DEF LinkInv, LinkTypeOK
    <3> QED
      BY <3>1, <3>2, <3>3 DEF LinkTypeOK
  <2>5. LinksSymmetric'
    <3>1. ASSUME NEW r \in Port, links'[r] # None
          PROVE  r \in Cabled /\ links'[r] = Peer[r] /\ links'[links'[r]] = r
      <4>1. /\ r \notin {p, q} /\ links'[r] = links[r] /\ links[r] = Peer[r]
            /\ r \in Cabled /\ links[links[r]] = r /\ links[r] \in Port
        BY <2>3, <3>1, CableAssumption DEF LinkInv, LinksSymmetric, Cabled
      <4>2. links[r] \notin {p, q}
        BY <2>1, <4>1, CableAssumption DEF Cabled
      <4> QED
        BY <2>3, <4>1, <4>2
    <3>2. linkPorts' = {r \in Port : links'[r] # None}
      <4>1. linkPorts = {r \in Port : links[r] # None}
        BY DEF LinkInv, LinksSymmetric
      <4> QED
        BY <2>2, <2>3, <4>1
    <3> QED
      BY <3>1, <3>2 DEF LinksSymmetric
  <2>6. ASSUME NEW s \in Switch, NEW d \in Switch, {s, d} # {a, b}
        PROVE  StillLinked(links', s, d) <=> StillLinked(links, s, d)
    BY <2>1, <2>3, <2>6 DEF StillLinked
  <2>7. ASSUME NEW s \in Switch, NEW d \in Switch, StillLinked(links', s, d)
        PROVE  StillLinked(links, s, d)
    BY <2>3, <2>7 DEF StillLinked
  <2>8. GraphMatchesLinks'
    <3>1. ASSUME NEW s \in Switch, NEW d \in Switch
          PROVE  d \in graph'[s] <=> StillLinked(links', s, d)
      <4>1. d \in graph'[s] <=> d \in graph[s] /\ ~Gone(s, d)
        BY <2>2 DEF LinkInv, LinkTypeOK
      <4>2. d \in graph[s] <=> StillLinked(links, s, d)
        BY DEF LinkInv, GraphMatchesLinks, StillLinked
      <4> QED
        BY <2>6, <2>7, <4>1, <4>2 DEF Gone
    <3> QED
      BY <3>1 DEF GraphMatchesLinks, StillLinked
  <2>9. RoutingOverCables'
    <3>1. ASSUME NEW s \in Switch, NEW d \in Switch
          PROVE  /\ d \in graph'[s] <=> d \in graph[s] /\ ~Gone(s, d)
                 /\ routing'[s][d] = IF Gone(s, d) THEN None ELSE routing[s][d]
      BY <2>2 DEF LinkInv, LinkTypeOK
    <3> QED
      BY <3>1 DEF LinkInv, RoutingOverCables
  <2> QED
    BY <2>4, <2>5, <2>8, <2>9 DEF LinkInv
<1> QED
  BY <1>1, <1>2 DEF RemovePort

LEMMA LinkStepInv == LinkInv /\ [LinkNext]_linkVars => LinkInv'
<1> SUFFICES ASSUME LinkInv, [LinkNext]_linkVars PROVE LinkInv'
  OBVIOUS
<1>1. CASE \E p \in Cabled : AddLink(p, Peer[p])
  BY <1>1, AddLinkInv
<1>2. CASE \E p \in Port : RemovePort(p)
  BY <1>2, RemovePortInv
<1>3. CASE UNCHANGED linkVars
  BY <1>3 DEF LinkInv, linkVars, LinkTypeOK, LinksSymmetric,
     GraphMatchesLinks, RoutingOverCables, StillLinked
<1> QED
  BY <1>1, <1>2, <1>3 DEF LinkNext

(* The link database stays well typed and consistent whatever LLDP          *)
(* discoveries and port removals happen, in whatever order.                 *)
THEOREM LinkDatabaseConsistent == LinkSpec => []LinkInv
BY LinkInitInv, LinkStepInv, PTL DEF LinkSpec

(* Links are recorded at both ends or neither, along real cables, and        *)
(* IsSwitchLinkPort answers for exactly their ends.                         *)
THEOREM LinksAlwaysSymmetric == LinkSpec => []LinksSymmetric
<1>1. LinkInv => LinksSymmetric
  BY DEF LinkInv
<1> QED
  BY LinkDatabaseConsistent, <1>1, PTL

(* The adjacency the path algorithms walk is that of the recorded links,    *)
(* whatever number of parallel links comes and goes.                        *)
THEOREM GraphAlwaysMatchesLinks == LinkSpec => []GraphMatchesLinks
<1>1. LinkInv => GraphMatchesLinks
  BY DEF LinkInv
<1> QED
  BY LinkDatabaseConsistent, <1>1, PTL

(* GetOutPort answers for exactly the adjacent pairs, and its answer is the *)
(* end of a cable from the one to the other.                                *)
THEOREM RoutingAlwaysOverCables == LinkSpec => []RoutingOverCables
<1>1. LinkInv => RoutingOverCables
  BY DEF LinkInv
<1> QED
  BY LinkDatabaseConsistent, <1>1, PTL

(* Between two switches with a single cable GetOutPort never returns a port *)
(* whose link is gone: RoutingOverCables names the only cable there is, and *)
(* GraphMatchesLinks says that cable is linked.                             *)
THEOREM OutPortsAlive == LinkSpec => []SoleOutPortAlive
<1>1. LinkInv => SoleOutPortAlive
  <2> SUFFICES ASSUME LinkInv, NEW s \in Switch, NEW d \in Switch,
                      SoleCable(s, d), routing[s][d] # None
               PROVE  links[routing[s][d]] # None
    BY DEF SoleOutPortAlive
  <2>1. /\ routing[s][d] \in Cabled
        /\ At[routing[s][d]] = s
        /\ At[Peer[routing[s][d]]] = d
        /\ StillLinked(links, s, d)
    BY DEF LinkInv, RoutingOverCables, GraphMatchesLinks, StillLinked
  <2>2. PICK r \in Port : At[r] = s /\ links[r] # None /\ At[links[r]] = d
    BY <2>1 DEF StillLinked
  <2>3. r \in Cabled /\ links[r] = Peer[r]
    BY <2>2 DEF LinkInv, LinksSymmetric
  <2> QED
    BY <2>1, <2>2, <2>3 DEF SoleCable
<1> QED
  BY LinkDatabaseConsistent, <1>1, PTL

-----------------------------------------------------------------------------
(* With parallel cables the out ports of a pair need not be ends of links    *)
(* that exist, but they are always the two ends of one cable.               *)
RoutingPaired ==
  \A s, d \in Switch : routing[s][d] # None => routing[d][s] = Peer[routing[s][d]]

(* A link is recorded with both of its ends.                                *)
LEMMA AddLinkPaired ==
  ASSUME NEW p \in Cabled, LinkInv, RoutingPaired, AddLink(p, Peer[p])
  PROVE  RoutingPaired'
<1>1. CASE UNCHANGED linkVars
  BY <1>1 DEF RoutingPaired, linkVars
<1>2. CASE RecordLink(p, Peer[p])
  <2> DEFINE q == Peer[p]
             a == At[p]
             b == At[q]
  <2>1. /\ p \in Port /\ q \in Port /\ q \in Cabled /\ Peer[q] = p
        /\ a \in Switch /\ b \in Switch /\ a # b /\ p # q
    BY CableAssumption DEF Cabled
  <2>2. ASSUME NEW s \in Switch, NEW d \in Switch
        PROVE  routing'[s][d] = IF s = a /\ d = b THEN p
                                ELSE IF s = b /\ d = a THEN q ELSE routing[s][d]
    BY <1>2, <2>1 DEF RecordLink, LinkInv, LinkTypeOK
  <2> QED
    BY <2>1, <2>2 DEF RoutingPaired
<1> QED
  BY <1>1, <1>2 DEF AddLink

(* Adjacency is erased both ways or, with a parallel link left, neither way. *)
LEMMA RemovePortPaired ==
  ASSUME NEW p \in Port, LinkInv, LinkInv', RoutingPaired, RemovePort(p)
  PROVE  RoutingPaired'
<1>1. CASE UNCHANGED linkVars
  BY <1>1 DEF RoutingPaired, linkVars
<1>2. CASE EraseLink(p)
  <2> DEFINE Gone(s, d) == {s, d} = {At[p], At[links[p]]} /\ ~StillLinked(links', s, d)
  <2>1. ASSUME NEW s \in Switch, NEW d \in Switch, StillLinked(links', s, d)
        PROVE  StillLinked(links', d, s)
    <3>1. PICK r \in Port : At[r] = s /\ links'[r] # None /\ At[links'[r]] = d
      BY <2>1 DEF StillLinked
    <3>2. r \in Cabled /\ links'[r] = Peer[r] /\ links'[links'[r]] = r
      BY <3>1 DEF LinkInv, LinksSymmetric
    <3>3. links'[r] \in Port /\ r # None
      BY <3>2, CableAssumption DEF Cabled
    <3> QED
      BY <3>1, <3>2, <3>3 DEF StillLinked
  <2>2. \A s, d \in Switch : Gone(s, d) => Gone(d, s)
    BY <2>1
  <2>3. \A s, d \in Switch : routing'[s][d] = IF Gone(s, d) THEN None ELSE routing[s][d]
    BY <1>2 DEF EraseLink
  <2> HIDE DEF Gone
  <2> QED
    BY <2>2, <2>3 DEF RoutingPaired
<1> QED
  BY <1>1, <1>2 DEF RemovePort

(* So every step of the link database keeps the pairs.                      *)
LEMMA PairedStep ==
  ASSUME LinkInv, LinkInv', RoutingPaired, [LinkNext]_linkVars
  PROVE  RoutingPaired'
<1>1. ASSUME UNCHANGED linkVars PROVE RoutingPaired'
  BY <1>1 DEF RoutingPaired, linkVars
<1> QED
  BY <1>1, AddLinkPaired, RemovePortPaired DEF LinkNext

(* Frames of two neighbours go over the same cable in both directions, also  *)
(* after links between them came and went in any order.                      *)
THEOREM OutPortsAlwaysPaired == LinkSpec => []RoutingPaired
<1>1. LinkInit => RoutingPaired
  BY DEF LinkInit, RoutingPaired
<1>2. LinkInv /\ LinkInv' /\ RoutingPaired /\ [LinkNext]_linkVars => RoutingPaired'
  BY PairedStep
<1> QED
  BY LinkDatabaseConsistent, <1>1, <1>2, PTL DEF LinkSpec
=============================================================================
