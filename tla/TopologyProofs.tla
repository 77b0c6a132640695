-------------------------- MODULE TopologyProofs ---------------------------
(***************************************************************************)
(* Proofs about class Topology and the ML lever on its link costs.         *)
(*                                                                         *)
(* Costs stay positive and the path cache never goes stale; for this an    *)
(* answer only has to be a function of the adjacency, the blocked set and  *)
(* the costs.  That first hops converge needs what a cheapest route is.    *)
(* The lever keeps the deltas it puts in force balanced and bounded.       *)
(***************************************************************************)
EXTENDS Lever, LinkMapProofs, OperatorProofs

\* CostsPositive, strengthened: every stored cost and base cost is positive,
\* and every adjacent pair has both.
CostInv ==
  /\ cost \in [Pair -> Int \cup {None}]
  /\ base \in [Pair -> Int \cup {None}]
  /\ congestion \in [Pair -> Nat]
  /\ mlDelta \in [Pair -> Int]
  /\ scale \in Nat
  /\ \A e \in Pair : cost[e] # None => cost[e] > 0
  /\ \A e \in Pair : base[e] # None => base[e] > 0
  /\ \A e \in Pair : cost[e] = None <=> base[e] = None
  /\ \A s, d \in Switch : d \in graph[s] => {s, d} \in Pair /\ cost[{s, d}] # None

\* Every action of Topology does one of these three things to the links.
LEMMA LinkStep ==
  ASSUME [Next]_vars
  PROVE  \/ \E p \in Cabled : AddLink(p, Peer[p])
         \/ \E p \in Port : RemovePort(p)
         \/ UNCHANGED linkVars
BY DEF Next, vars, AddTopologyLink, RemoveTopologyPort, SetLinkCost,
   ResetLinkCosts, SetLinkBaseCost, SetLinkCongestion, SetLinkMlDelta,
   Recompute, SetMlAbsCostScale, SetBlockedNodes, ShortestPath

(* The class with its costs and its cache implements the link database alone. *)
THEOREM TopologyImplementsLinkMap == Spec => LinkSpec
<1>1. Init => LinkInit
  BY DEF Init
<1>2. [Next]_vars => [LinkNext]_linkVars
  BY LinkStep DEF LinkNext
<1> QED
  BY <1>1, <1>2, PTL DEF Spec, LinkSpec

\* So the link database is consistent here too.
LEMMA LinkInvStep == LinkInv /\ [Next]_vars => LinkInv'
BY LinkStep, LinkStepInv DEF LinkNext

\* RecomputeCost yields a positive integer whatever the layers hold.
LEMMA EffectivePositive ==
  ASSUME NEW b \in Int, NEW c \in Int, NEW d \in Int, NEW sc \in Int
  PROVE  Effective(b, c, d, sc) \in Int /\ Effective(b, c, d, sc) > 0
<1>1. \A x \in Int : Positive(x) \in Int /\ Positive(x) > 0
  BY CostAssumption DEF Positive
<1>2. b * (1 + c) \in Int /\ sc * d \in Int /\ 1 + d \in Int
  OBVIOUS
<1>3. b * (1 + c) * (1 + d) \in Int
  BY <1>2
<1> QED
  BY <1>1, <1>2, <1>3 DEF Effective

\* A change of the layers of one pair, followed by RecomputeCost.
LEMMA RecomputeInv ==
  ASSUME CostInv, NEW e \in Pair, cost[e] # None, Recompute(e),
         base' \in [Pair -> Int \cup {None}], base'[e] \in Int,
         \A f \in Pair : base'[f] # None => base'[f] > 0,
         \A f \in Pair : base'[f] = None <=> base[f] = None,
         congestion' \in [Pair -> Nat], mlDelta' \in [Pair -> Int]
  PROVE  CostInv'
<1>1. Composed(e)' \in Int /\ Composed(e)' > 0
  <2>1. congestion'[e] \in Int /\ mlDelta'[e] \in Int
    OBVIOUS
  <2>2. scale' = scale /\ scale \in Int
    BY DEF Recompute, CostInv
  <2> QED
    BY <2>1, <2>2, EffectivePositive DEF Composed
<1>2. cost' = [cost EXCEPT ![e] = Composed(e)']
  BY DEF Recompute
<1>3. /\ cost' \in [Pair -> Int \cup {None}]
      /\ \A f \in Pair : cost'[f] = IF f = e THEN Composed(e)' ELSE cost[f]
  BY <1>1, <1>2 DEF CostInv
<1>4. Composed(e)' # None
  BY <1>1, CostAssumption
<1>5. graph' = graph /\ scale' = scale
  BY DEF Recompute, linkVars
<1>6. \A f \in Pair : cost'[f] # None => cost'[f] > 0
  BY <1>1, <1>3 DEF CostInv
<1>7. \A f \in Pair : cost'[f] = None <=> base'[f] = None
  BY <1>3, <1>4 DEF CostInv
<1>8. \A s, d \in Switch : d \in graph'[s] => {s, d} \in Pair /\ cost'[{s, d}] # None
  BY <1>3, <1>4, <1>5 DEF CostInv
<1>9. scale' \in Nat
  BY <1>5 DEF CostInv
<1> QED
  BY <1>3, <1>6, <1>7, <1>8, <1>9 DEF CostInv

\* Every action of the class keeps the costs in order.
LEMMA CostStep == LinkInv /\ CostInv /\ [Next]_vars => CostInv'
<1> SUFFICES ASSUME LinkInv, CostInv, [Next]_vars PROVE CostInv'
  OBVIOUS
<1> USE DEF CostInv
<1>1. \A x \in Int : Positive(x) \in Int /\ Positive(x) > 0 /\ Positive(x) # None
  BY CostAssumption DEF Positive
<1>2. ASSUME NEW p \in Cabled, NEW c \in BaseCosts, c > 0, AddTopologyLink(p, c)
      PROVE  CostInv'
  <2> DEFINE e == Ends(p)
             v == c
  <2>1. e \in Pair /\ v \in Int /\ v > 0 /\ v # None
    BY <1>2, CostAssumption DEF Pair, Ends
  <2>2. CASE AlreadyKnown(p, Peer[p])
    BY <1>2, <2>2 DEF AddTopologyLink, AddLink, linkVars
  <2>3. CASE ~AlreadyKnown(p, Peer[p])
    <3> HIDE DEF v
    <3>1. /\ cost' = [cost EXCEPT ![e] = v]
          /\ base' = [base EXCEPT ![e] = v]
          /\ UNCHANGED <<congestion, mlDelta, scale>>
          /\ RecordLink(p, Peer[p])
      BY <1>2, <2>3 DEF AddTopologyLink, AddLink, v
    <3> HIDE DEF e
    <3>2. /\ cost' \in [Pair -> Int \cup {None}]
          /\ base' \in [Pair -> Int \cup {None}]
          /\ \A f \in Pair : /\ cost'[f] = IF f = e THEN v ELSE cost[f]
                             /\ base'[f] = IF f = e THEN v ELSE base[f]
      BY <2>1, <3>1
    <3>3. ASSUME NEW s \in Switch, NEW d \in Switch, d \in graph'[s]
          PROVE  d \in graph[s] \/ {s, d} = e
      <4>1. At[p] \in Switch /\ At[Peer[p]] \in Switch /\ At[Peer[p]] # At[p]
        BY CableAssumption DEF Cabled
      <4> QED
        BY <3>1, <3>3, <4>1 DEF RecordLink, LinkInv, LinkTypeOK, e, Ends
    <3>4. \A s, d \in Switch : d \in graph'[s] => {s, d} \in Pair /\ cost'[{s, d}] # None
      BY <2>1, <3>2, <3>3
    <3>5. /\ \A f \in Pair : cost'[f] # None => cost'[f] > 0
          /\ \A f \in Pair : base'[f] # None => base'[f] > 0
          /\ \A f \in Pair : cost'[f] = None <=> base'[f] = None
      BY <2>1, <3>2
    <3> QED
      BY <3>1, <3>2, <3>4, <3>5
  <2> QED
    BY <2>2, <2>3
<1>3. ASSUME NEW p \in Port, RemoveTopologyPort(p) PROVE CostInv'
  <2>1. \A s, d \in Switch : d \in graph'[s] => d \in graph[s]
    BY <1>3 DEF RemoveTopologyPort, RemovePort, EraseLink, linkVars
  <2> QED
    BY <1>3, <2>1 DEF RemoveTopologyPort, layerVars
<1>4. ASSUME NEW e \in Pair, NEW c \in DirectCosts, SetLinkCost(e, c) PROVE CostInv'
  <2>1. c \in Int
    BY CostAssumption
  <2>2. /\ cost' \in [Pair -> Int \cup {None}]
        /\ \A f \in Pair : cost'[f] = IF f = e THEN Positive(c) ELSE cost[f]
    BY <1>1, <1>4, <2>1 DEF SetLinkCost
  <2>3. UNCHANGED <<graph, base, congestion, mlDelta, scale>> /\ cost[e] # None
    BY <1>4 DEF SetLinkCost, linkVars, layerVars
  <2> HIDE DEF CostInv
  <2>4. /\ \A f \in Pair : cost'[f] # None => cost'[f] > 0
        /\ \A f \in Pair : cost'[f] = None <=> base'[f] = None
    BY <1>1, <2>1, <2>2, <2>3 DEF CostInv
  <2>5. \A s, d \in Switch : d \in graph'[s] => {s, d} \in Pair /\ cost'[{s, d}] # None
    BY <1>1, <2>1, <2>2, <2>3 DEF CostInv
  <2> QED
    BY <2>2, <2>3, <2>4, <2>5 DEF CostInv
<1>5. CASE ResetLinkCosts
  <2>1. /\ UNCHANGED <<graph, base, scale>>
        /\ congestion' \in [Pair -> Nat] /\ mlDelta' \in [Pair -> Int]
    BY <1>5 DEF ResetLinkCosts, linkVars
  <2>2. /\ cost' \in [Pair -> Int \cup {None}]
        /\ \A f \in Pair : cost'[f] = IF base[f] # None THEN base[f] ELSE cost[f]
    BY <1>5 DEF ResetLinkCosts
  <2> QED
    BY <2>1, <2>2
<1>6. ASSUME NEW e \in Pair, NEW b \in BaseCosts, SetLinkBaseCost(e, b) PROVE CostInv'
  <2>1. b \in Int
    BY CostAssumption
  <2>2. /\ base' \in [Pair -> Int \cup {None}]
        /\ \A f \in Pair : base'[f] = IF f = e THEN Positive(b) ELSE base[f]
    BY <1>1, <1>6, <2>1 DEF SetLinkBaseCost
  <2>3. base[e] # None /\ UNCHANGED <<congestion, mlDelta>> /\ Recompute(e)
    BY <1>6 DEF SetLinkBaseCost
  <2>4. /\ cost[e] # None /\ base'[e] \in Int
        /\ \A f \in Pair : base'[f] # None => base'[f] > 0
        /\ \A f \in Pair : base'[f] = None <=> base[f] = None
    BY <1>1, <2>1, <2>2, <2>3
  <2> QED
    BY <2>2, <2>3, <2>4, RecomputeInv
<1>7. ASSUME NEW e \in Pair, NEW c \in Congestions, SetLinkCongestion(e, c) PROVE CostInv'
  <2>1. NonNegative(c) \in Nat
    BY CostAssumption DEF NonNegative
  <2>2. /\ congestion' \in [Pair -> Nat] /\ UNCHANGED <<base, mlDelta>>
        /\ cost[e] # None /\ Recompute(e)
    BY <1>7, <2>1 DEF SetLinkCongestion
  <2>3. base'[e] \in Int
    BY <2>2
  <2> QED
    BY <2>2, <2>3, RecomputeInv
<1>8. ASSUME NEW e \in Pair, NEW d \in Deltas, SetLinkMlDelta(e, d) PROVE CostInv'
  <2>1. d \in Int
    BY CostAssumption
  <2>2. /\ mlDelta' \in [Pair -> Int] /\ UNCHANGED <<base, congestion>>
        /\ cost[e] # None /\ Recompute(e)
    BY <1>8, <2>1 DEF SetLinkMlDelta
  <2>3. base'[e] \in Int
    BY <2>2
  <2> QED
    BY <2>2, <2>3, RecomputeInv
<1>9. ASSUME NEW x \in Scales, SetMlAbsCostScale(x) PROVE CostInv'
  <2>1. scale' \in Nat
    BY <1>9, CostAssumption DEF SetMlAbsCostScale, NonNegative
  <2>2. /\ UNCHANGED <<graph, base, congestion, mlDelta>>
        /\ cost' = [e \in Pair |-> IF cost[e] # None THEN Composed(e)' ELSE None]
    BY <1>9 DEF SetMlAbsCostScale, linkVars
  <2>3. ASSUME NEW e \in Pair, cost[e] # None
        PROVE  Composed(e)' \in Int /\ Composed(e)' > 0 /\ Composed(e)' # None
    <3>1. base'[e] \in Int /\ congestion'[e] \in Int /\ mlDelta'[e] \in Int
      BY <2>2, <2>3
    <3>2. scale' \in Int
      BY <2>1
    <3>3. Composed(e)' \in Int /\ Composed(e)' > 0
      BY <3>1, <3>2, EffectivePositive DEF Composed
    <3> QED
      BY <3>3, CostAssumption
  <2>4. /\ cost' \in [Pair -> Int \cup {None}]
        /\ \A f \in Pair : cost'[f] = IF cost[f] # None THEN Composed(f)' ELSE None
    BY <2>2, <2>3
  <2>5. /\ \A f \in Pair : cost'[f] # None => cost'[f] > 0
        /\ \A f \in Pair : cost'[f] = None <=> base'[f] = None
        /\ \A s, d \in Switch : d \in graph'[s] => {s, d} \in Pair /\ cost'[{s, d}] # None
    BY <2>2, <2>3, <2>4
  <2> QED
    BY <2>1, <2>2, <2>4, <2>5
<1>10. ASSUME UNCHANGED <<graph, cost, layerVars>> PROVE CostInv'
  BY <1>10 DEF layerVars
<1>11. ASSUME NEW B \in BlockedSets, SetBlockedNodes(B) PROVE CostInv'
  BY <1>10, <1>11 DEF SetBlockedNodes, linkVars
<1>12. ASSUME NEW s \in Switch, NEW d \in Switch, ShortestPath(s, d) PROVE CostInv'
  BY <1>10, <1>12 DEF ShortestPath, linkVars
<1>13. CASE UNCHANGED vars
  BY <1>10, <1>13 DEF vars, linkVars
<1> HIDE DEF CostInv
<1> QED
  BY <1>2, <1>3, <1>4, <1>5, <1>6, <1>7, <1>8, <1>9, <1>11, <1>12, <1>13 DEF Next

(* The costs Dijkstra reads are positive on every edge it can follow.       *)
THEOREM CostsAlwaysPositive == Spec => []CostsPositive
<1>1. Init => LinkInv /\ CostInv
  <2>1. Init => CostInv
    BY CostAssumption DEF Init, LinkInit, CostInv
  <2> QED
    BY <2>1, LinkInitInv DEF Init
<1>2. CostInv => CostsPositive
  BY DEF CostInv, CostsPositive
<1> QED
  BY <1>1, <1>2, LinkInvStep, CostStep, PTL DEF Spec

-----------------------------------------------------------------------------
CacheShape == pathCache \in [Switch -> [Switch -> Seq(Switch) \cup {None}]]

\* A route is a sequence of switches, so the cache only holds such sequences.
LEMMA AnswersShape ==
  ASSUME LinkInv, NEW s \in Switch, NEW d \in Switch
  PROVE  Answers(s, d) \subseteq Seq(Switch)
<1>1. Routes(graph, blocked, s, d) \subseteq Seq(Switch)
  <2>1. DOMAIN graph = Switch
    BY DEF LinkInv, LinkTypeOK
  <2>2. \A n \in 1..Cardinality(Switch) : [1..n -> Switch] \subseteq Seq(Switch)
    OBVIOUS
  <2> QED
    BY <2>1, <2>2 DEF Routes
<1>2. ShortestRoutes(graph, blocked, cost, s, d) \subseteq Seq(Switch)
  BY <1>1 DEF ShortestRoutes
<1>3. <<>> \in Seq(Switch)
  OBVIOUS
<1> QED
  BY <1>2, <1>3 DEF Answers

\* An operation either forgets every cached answer or changes nothing an
\* answer depends on.
LEMMA CacheStep ==
  ASSUME LinkInv, CacheShape, CacheCoherent, [Next]_vars
  PROVE  CacheShape' /\ CacheCoherent'
<1>1. ASSUME pathCache' = EmptyCache PROVE CacheShape' /\ CacheCoherent'
  BY <1>1 DEF EmptyCache, CacheShape, CacheCoherent
<1>2. ASSUME UNCHANGED <<graph, blocked, cost>>, NEW s \in Switch, NEW d \in Switch
      PROVE  Answers(s, d)' = Answers(s, d)
  BY <1>2 DEF Answers
<1>3. ASSUME UNCHANGED <<graph, blocked, cost, pathCache>>
      PROVE  CacheShape' /\ CacheCoherent'
  <2>1. ASSUME NEW s \in Switch, NEW d \in Switch, pathCache'[s][d] # None
        PROVE  pathCache'[s][d] \in Answers(s, d)'
    BY <1>2, <1>3, <2>1 DEF CacheCoherent
  <2> QED
    BY <1>3, <2>1 DEF CacheShape, CacheCoherent
<1>4. ASSUME NEW p \in Cabled, NEW c \in BaseCosts, c > 0, AddTopologyLink(p, c)
      PROVE  pathCache' = EmptyCache \/ UNCHANGED <<graph, blocked, cost, pathCache>>
  BY <1>4 DEF AddTopologyLink, AddLink, linkVars
<1>5. ASSUME NEW p \in Port, RemoveTopologyPort(p)
      PROVE  pathCache' = EmptyCache \/ UNCHANGED <<graph, blocked, cost, pathCache>>
  BY <1>5 DEF RemoveTopologyPort, RemovePort, linkVars
<1>6. ASSUME \/ \E e \in Pair, c \in DirectCosts : SetLinkCost(e, c)
             \/ ResetLinkCosts
             \/ \E e \in Pair, b \in BaseCosts : SetLinkBaseCost(e, b)
             \/ \E e \in Pair, c \in Congestions : SetLinkCongestion(e, c)
             \/ \E e \in Pair, d \in Deltas : SetLinkMlDelta(e, d)
             \/ \E x \in Scales : SetMlAbsCostScale(x)
             \/ \E B \in BlockedSets : SetBlockedNodes(B)
      PROVE  pathCache' = EmptyCache
  BY <1>6 DEF SetLinkCost, ResetLinkCosts, SetLinkBaseCost, SetLinkCongestion,
     SetLinkMlDelta, Recompute, SetMlAbsCostScale, SetBlockedNodes
<1>7. ASSUME NEW s \in Switch, NEW d \in Switch, ShortestPath(s, d)
      PROVE  CacheShape' /\ CacheCoherent'
  <2>1. PICK r \in Answers(s, d) : pathCache' = [pathCache EXCEPT ![s][d] = r]
    BY <1>7 DEF ShortestPath
  <2>2. \A t, u \in Switch :
          pathCache'[t][u] = IF t = s /\ u = d THEN r ELSE pathCache[t][u]
    BY <2>1 DEF CacheShape
  <2>3. UNCHANGED <<graph, blocked, cost>>
    BY <1>7 DEF ShortestPath, linkVars
  <2>4. ASSUME NEW t \in Switch, NEW u \in Switch, pathCache'[t][u] # None
        PROVE  pathCache'[t][u] \in Answers(t, u)'
    BY <1>2, <2>2, <2>3, <2>4 DEF CacheCoherent
  <2>5. r \in Seq(Switch)
    BY AnswersShape
  <2>6. CacheShape'
    BY <2>1, <2>5 DEF CacheShape
  <2> QED
    BY <2>4, <2>6 DEF CacheCoherent
<1>8. CASE UNCHANGED vars
  BY <1>3, <1>8 DEF vars, linkVars
<1> QED
  BY <1>1, <1>3, <1>4, <1>5, <1>6, <1>7, <1>8 DEF Next

(* No stale path, and no stale miss, is ever answered from the path cache.  *)
THEOREM CacheAlwaysCoherent == Spec => []CacheCoherent
<1>1. Init => LinkInv /\ CacheShape /\ CacheCoherent
  BY LinkInitInv DEF Init, EmptyCache, CacheShape, CacheCoherent
<1>2. /\ LinkInv /\ CacheShape /\ CacheCoherent /\ [Next]_vars
      => (LinkInv /\ CacheShape /\ CacheCoherent)'
  BY LinkInvStep, CacheStep
<1> QED
  BY <1>1, <1>2, PTL DEF Spec

-----------------------------------------------------------------------------
LEMMA BlockedStep == blocked \in SUBSET Switch /\ [Next]_vars => blocked' \in SUBSET Switch
<1> SUFFICES ASSUME blocked \in SUBSET Switch, [Next]_vars PROVE blocked' \in SUBSET Switch
  OBVIOUS
<1>1. ASSUME NEW B \in BlockedSets, SetBlockedNodes(B) PROVE blocked' \in SUBSET Switch
  BY <1>1, CostAssumption DEF SetBlockedNodes
<1> QED
  BY <1>1 DEF Next, vars, AddTopologyLink, RemoveTopologyPort, SetLinkCost,
     ResetLinkCosts, SetLinkBaseCost, SetLinkCongestion, SetLinkMlDelta,
     Recompute, SetMlAbsCostScale, ShortestPath

(* Types of every state of the class, for any cabling and any inputs.       *)
THEOREM TopologyTypes == Spec => []TypeOK
<1> DEFINE I == LinkInv /\ CostInv /\ CacheShape /\ CacheCoherent /\ blocked \in SUBSET Switch
<1>1. Init => I
  <2>1. Init => CostInv
    BY CostAssumption DEF Init, LinkInit, CostInv
  <2>2. Init => LinkInv
    BY LinkInitInv DEF Init
  <2>3. Init => CacheShape /\ CacheCoherent /\ blocked \in SUBSET Switch
    BY DEF Init, EmptyCache, CacheShape, CacheCoherent
  <2> QED
    BY <2>1, <2>2, <2>3
<1>2. I /\ [Next]_vars => I'
  BY LinkInvStep, CostStep, CacheStep, BlockedStep
<1>3. I => TypeOK
  BY DEF LinkInv, CostInv, CacheShape, TypeOK
<1> QED
  BY <1>1, <1>2, <1>3, PTL DEF Spec

-----------------------------------------------------------------------------
\* CostsComposedOrBase for every pair that ever had a cost.
Layered == \A e \in Pair : cost[e] \in {Composed(e), base[e]}

\* RecomputeCost restores the composition of its pair and touches no other.
LEMMA RecomputeLayered ==
  ASSUME CostInv, Layered, NEW e \in Pair, Recompute(e),
         \A f \in Pair \ {e} : /\ base'[f] = base[f]
                               /\ congestion'[f] = congestion[f]
                               /\ mlDelta'[f] = mlDelta[f]
  PROVE  Layered'
<1>1. /\ scale' = scale
      /\ \A f \in Pair : cost'[f] = IF f = e THEN Composed(e)' ELSE cost[f]
  BY DEF Recompute, CostInv
<1>2. ASSUME NEW f \in Pair \ {e} PROVE Composed(f)' = Composed(f)
  BY <1>1, <1>2 DEF Composed
<1> QED
  BY <1>1, <1>2 DEF Layered

\* Every operation but SetLinkCost keeps the layering.
LEMMA LayeredStep ==
  ASSUME DirectCosts = {}, CostInv, Layered, [Next]_vars
  PROVE  Layered'
<1>1. ASSUME UNCHANGED <<cost, layerVars>> PROVE Layered'
  BY <1>1 DEF Layered, layerVars, Composed
<1>2. ASSUME NEW p \in Cabled, NEW c \in BaseCosts, AddTopologyLink(p, c) PROVE Layered'
  <2>1. CASE UNCHANGED <<cost, base>>
    BY <1>1, <1>2, <2>1 DEF AddTopologyLink, layerVars
  <2>2. CASE /\ cost' = [cost EXCEPT ![Ends(p)] = c]
             /\ base' = [base EXCEPT ![Ends(p)] = c]
    <3>1. \A f \in Pair : /\ cost'[f] = IF f = Ends(p) THEN c ELSE cost[f]
                          /\ base'[f] = IF f = Ends(p) THEN c ELSE base[f]
      BY <2>2 DEF CostInv
    <3>2. UNCHANGED <<congestion, mlDelta, scale>>
      BY <1>2 DEF AddTopologyLink
    <3>3. ASSUME NEW f \in Pair, f # Ends(p) PROVE Composed(f)' = Composed(f)
      BY <3>1, <3>2, <3>3 DEF Composed
    <3> QED
      BY <3>1, <3>3 DEF Layered
  <2> QED
    BY <1>2, <2>1, <2>2 DEF AddTopologyLink
<1>3. CASE ResetLinkCosts
  <2>1. \A f \in Pair : cost'[f] = base'[f]
    BY <1>3 DEF ResetLinkCosts, CostInv
  <2> QED
    BY <2>1 DEF Layered
<1>4. ASSUME NEW e \in Pair, NEW b \in BaseCosts, SetLinkBaseCost(e, b) PROVE Layered'
  BY <1>4, RecomputeLayered DEF SetLinkBaseCost, CostInv
<1>5. ASSUME NEW e \in Pair, NEW c \in Congestions, SetLinkCongestion(e, c) PROVE Layered'
  BY <1>5, RecomputeLayered DEF SetLinkCongestion, CostInv
<1>6. ASSUME NEW e \in Pair, NEW d \in Deltas, SetLinkMlDelta(e, d) PROVE Layered'
  BY <1>6, RecomputeLayered DEF SetLinkMlDelta, CostInv
<1>7. ASSUME NEW x \in Scales, SetMlAbsCostScale(x) PROVE Layered'
  <2>1. \A f \in Pair : cost'[f] = IF cost[f] # None THEN Composed(f)' ELSE None
    BY <1>7 DEF SetMlAbsCostScale
  <2>2. \A f \in Pair : cost[f] = None => base'[f] = None
    BY <1>7 DEF SetMlAbsCostScale, CostInv
  <2> QED
    BY <2>1, <2>2 DEF Layered
<1>8. ASSUME \/ \E p \in Port : RemoveTopologyPort(p)
             \/ \E B \in BlockedSets : SetBlockedNodes(B)
             \/ \E s, d \in Switch : ShortestPath(s, d)
             \/ UNCHANGED vars
      PROVE  Layered'
  BY <1>1, <1>8 DEF RemoveTopologyPort, SetBlockedNodes, ShortestPath, vars
<1> QED
  BY <1>2, <1>3, <1>4, <1>5, <1>6, <1>7, <1>8 DEF Next

(* Without direct writes by SetLinkCost, which the controller never calls, a *)
(* link's cost is the composition of its layers or the base cost of its last *)
(* discovery.                                                                *)
THEOREM CostsAlwaysLayered ==
  ASSUME DirectCosts = {} PROVE Spec => []CostsComposedOrBase
<1> DEFINE I == LinkInv /\ CostInv /\ Layered
<1>1. Init => I
  <2>1. Init => CostInv
    BY CostAssumption DEF Init, LinkInit, CostInv
  <2>2. Init => LinkInv
    BY LinkInitInv DEF Init
  <2>3. Init => Layered
    BY DEF Init, Layered
  <2> QED
    BY <2>1, <2>2, <2>3
<1>2. I /\ [Next]_vars => I'
  BY LinkInvStep, CostStep, LayeredStep
<1>3. I => CostsComposedOrBase
  BY DEF CostInv, Layered, CostsComposedOrBase
<1> QED
  BY <1>1, <1>2, <1>3, PTL DEF Spec

-----------------------------------------------------------------------------
(* Links are recorded at both ends, so adjacency is symmetric.               *)
LEMMA GraphSymmetric ==
  ASSUME LinkInv
  PROVE  DOMAIN graph = Switch /\ Symmetric(graph)
<1>1. graph \in [Switch -> SUBSET Switch] /\ links \in [Port -> Port \cup {None}]
  BY DEF LinkInv, LinkTypeOK
<1>2. ASSUME NEW u \in Switch, NEW v \in Switch, u \in graph[v] PROVE v \in graph[u]
  <2>1. PICK r \in Port : At[r] = v /\ links[r] # None /\ At[links[r]] = u
    BY <1>2 DEF LinkInv, GraphMatchesLinks
  <2>2. r \in Cabled /\ links[r] = Peer[r] /\ links[links[r]] = r
    BY <2>1 DEF LinkInv, LinksSymmetric
  <2>3. links[r] \in Port /\ None \notin Port
    BY <2>2, CableAssumption DEF Cabled
  <2>4. \E q \in Port : At[q] = u /\ links[q] # None /\ At[links[q]] = v
    BY <2>1, <2>2, <2>3
  <2> QED BY <2>4 DEF LinkInv, GraphMatchesLinks
<1> QED BY <1>1, <1>2 DEF Symmetric

(* The costs a route adds up.                                                *)
LEMMA RouteCosts ==
  ASSUME LinkInv, CostInv, NEW s, NEW d, NEW r \in Routes(graph, blocked, s, d)
  PROVE  /\ Len(r) \in Nat
         /\ \A i \in 1..Len(r) - 1 : cost[{r[i], r[i + 1]}] \in Nat /\ cost[{r[i], r[i + 1]}] > 0
         /\ RouteCost(cost, r) \in Nat
<1>1. DOMAIN graph = Switch /\ Cardinality(Switch) \in Nat
  BY CableAssumption, GraphSymmetric, FS_CardinalityType
<1>2. /\ Len(r) \in 1..Cardinality(Switch) /\ r \in [1..Len(r) -> Switch]
      /\ \A i \in 1..Len(r) - 1 : r[i + 1] \in graph[r[i]]
  BY <1>1, RouteIs
<1>3. Len(r) \in Nat
  BY <1>1, <1>2
<1>4. ASSUME NEW i \in 1..Len(r) - 1
      PROVE  cost[{r[i], r[i + 1]}] \in Nat /\ cost[{r[i], r[i + 1]}] > 0
  <2>1. i \in 1..Len(r) /\ i + 1 \in 1..Len(r)
    BY <1>3
  <2>2. r[i] \in Switch /\ r[i + 1] \in Switch /\ r[i + 1] \in graph[r[i]]
    BY <1>2, <2>1
  <2> DEFINE e == {r[i], r[i + 1]}
  <2>3. e \in Pair /\ cost[e] # None
    BY <2>2 DEF CostInv
  <2> HIDE DEF e
  <2>4. cost[e] \in Int /\ cost[e] > 0
    BY <2>3 DEF CostInv
  <2>5. cost[e] \in Nat /\ cost[e] > 0
    BY <2>4
  <2> QED BY <2>5 DEF e
<1> DEFINE Hops == 1..Len(r) - 1
           f == [i \in Hops |-> cost[{r[i], r[i + 1]}]]
<1>5. IsFiniteSet(Hops)
  BY <1>3, FS_Interval
<1>6. \A i \in Hops : f[i] \in Nat
  BY <1>4
<1>7. RouteCost(cost, r) = SumOver(f, Hops)
  BY DEF RouteCost
<1> HIDE DEF Hops, f
<1>8. SumOver(f, Hops) \in Nat
  BY <1>5, <1>6, SumNat
<1> QED BY <1>3, <1>4, <1>7, <1>8

(* A route costs more than what is left of it after its first hop.           *)
LEMMA RestIsCheaper ==
  ASSUME LinkInv, CostInv, NEW s, NEW d, s # d, NEW r \in Routes(graph, blocked, s, d)
  PROVE  RouteCost(cost, [i \in 1..Len(r) - 1 |-> r[i + 1]]) < RouteCost(cost, r)
<1> DEFINE m == Len(r) - 1
           t == [i \in 1..m |-> r[i + 1]]
<1>1. m \in Nat /\ m >= 1 /\ t \in Routes(graph, blocked, r[2], d)
  BY CableAssumption, GraphSymmetric, RestOfRoute
<1>2. \A i \in 1..m : cost[{r[i], r[i + 1]}] \in Nat /\ cost[{r[i], r[i + 1]}] > 0
  BY RouteCosts
<1> DEFINE f == [i \in 1..m |-> cost[{r[i], r[i + 1]}]]
           h == [i \in 1..m - 1 |-> cost[{t[i], t[i + 1]}]]
<1>3. Len(t) = m
  <2>1. DOMAIN t = 1..m
    OBVIOUS
  <2>2. t \in Seq(Switch)
    <3>1. DOMAIN graph = Switch /\ Cardinality(Switch) \in Nat
      BY CableAssumption, GraphSymmetric, FS_CardinalityType
    <3> HIDE DEF t
    <3> QED BY <1>1, <3>1, RouteIs
  <2> HIDE DEF t, m
  <2>3. Len(t) \in Nat /\ DOMAIN t = 1..Len(t)
    BY <2>2, LenProperties
  <2> QED BY <1>1, <2>1, <2>3
<1>4. RouteCost(cost, r) = SumOver(f, 1..m)
  BY DEF RouteCost
<1>5. RouteCost(cost, t) = SumOver(h, 1..m - 1)
  <2> HIDE DEF m, t
  <2> QED BY <1>3 DEF RouteCost
<1>6. \A i \in 1..m : f[i] \in Int /\ f[i] > 0
  BY <1>2
<1>7. \A i \in 1..m - 1 : f[i + 1] \in Int /\ h[i] = f[i + 1]
  <2> TAKE i \in 1..m - 1
  <2>1. i \in 1..m /\ i + 1 \in 1..m
    BY <1>1
  <2>2. t[i] = r[i + 1] /\ t[i + 1] = r[(i + 1) + 1]
    BY <2>1
  <2> QED BY <1>6, <2>1, <2>2
<1> HIDE DEF f, h, t, m
<1>8. 1 \in 1..m /\ (1..m) \ {1} = 2..(m - 1) + 1 /\ m - 1 \in Nat
  BY <1>1
<1>9. SumOver(f, 1..m) = f[1] + SumOver(f, (1..m) \ {1})
  <2> DEFINE S == 1..m
             x == 1
  <2>1. IsFiniteSet(S) /\ x \in S
    BY <1>1, <1>8, FS_Interval
  <2>2. \A i \in S : f[i] \in Int
    BY <1>6
  <2> HIDE DEF S, x
  <2>3. SumOver(f, S) = f[x] + SumOver(f, S \ {x})
    BY <2>1, <2>2, SumRemove
  <2> QED BY <2>3 DEF S, x
<1>10. SumOver(f, 2..(m - 1) + 1) = SumOver(h, 1..m - 1)
  <2> DEFINE n == m - 1
  <2>1. n \in Nat /\ \A i \in 1..n : f[i + 1] \in Int /\ h[i] = f[i + 1]
    BY <1>7, <1>8
  <2> HIDE DEF n
  <2>2. SumOver(f, 2..n + 1) = SumOver(h, 1..n)
    BY <2>1, SumShift
  <2> QED BY <2>2 DEF n
<1>11. RouteCost(cost, t) \in Nat
  BY <1>1, RouteCosts
<1>12. RouteCost(cost, t) < RouteCost(cost, r)
  <2>1. SumOver(f, (1..m) \ {1}) = SumOver(f, 2..(m - 1) + 1)
    BY <1>8, Zenon
  <2>2. RouteCost(cost, r) = f[1] + RouteCost(cost, t)
    BY ONLY <1>4, <1>5, <1>9, <1>10, <2>1
  <2>3. f[1] \in Int /\ f[1] > 0
    BY <1>6, <1>8
  <2> QED BY ONLY <1>11, <2>2, <2>3
<1> QED BY <1>12 DEF t, m

(* Where there is a route there is a cheapest one.                           *)
LEMMA CheapestExists ==
  ASSUME LinkInv, CostInv, NEW s, NEW d, Routes(graph, blocked, s, d) # {}
  PROVE  ShortestRoutes(graph, blocked, cost, s, d) # {}
<1> DEFINE R == Routes(graph, blocked, s, d)
           B == {RouteCost(cost, r) : r \in R}
<1>1. B \in SUBSET Nat /\ B # {}
  BY RouteCosts
<1>2. PICK x \in B : \A y \in B : x <= y
  <2> HIDE DEF B
  <2> QED BY <1>1, LeastNat
<1>3. PICK r \in R : \A t \in R : RouteCost(cost, r) <= RouteCost(cost, t)
  BY <1>2
<1> QED BY <1>3 DEF ShortestRoutes

(* The first hop of a cheapest route leaves a cheaper one to go: no set of   *)
(* first hops can go round.                                                 *)
LEMMA HopsConverge == LinkInv /\ CostInv => FirstHopsConverge
<1> SUFFICES ASSUME LinkInv, CostInv, NEW d \in Switch PROVE
      LET Cheapest(s) == ShortestRoutes(graph, blocked, cost, s, d)
          Routed      == {s \in Switch \ {d} : Cheapest(s) # {}}
      IN  \A nxt \in [Routed -> Switch] :
            (\A s \in Routed : \E r \in Cheapest(s) : nxt[s] = r[2])
              => nxt \in NextHops(graph, blocked, d)
  BY DEF FirstHopsConverge
<1> DEFINE Cheapest(s) == ShortestRoutes(graph, blocked, cost, s, d)
           Routed == {s \in Switch \ {d} : Cheapest(s) # {}}
           R == Reach(graph, (DOMAIN graph \ blocked) \cup {d}, d)
<1>0. DOMAIN graph = Switch /\ IsFiniteSet(DOMAIN graph) /\ Symmetric(graph)
  BY CableAssumption, GraphSymmetric
<1>1. \A s : Cheapest(s) # {} <=> Routes(graph, blocked, s, d) # {}
  BY CheapestExists DEF ShortestRoutes
<1>2. \A s \in Switch : s \in R <=> Cheapest(s) # {}
  BY <1>0, <1>1, RouteReaches, ReachHasRoute
<1>3. R \subseteq Switch /\ d \in R
  <2>1. R \subseteq Switch
    BY <1>0, ReachHasRoute
  <2>2. d \in R
    BY <1>0, ReachesItself
  <2> QED BY <2>1, <2>2
<1>4. Routed = R \ {d}
  BY <1>2, <1>3
<1> SUFFICES ASSUME NEW nxt \in [Routed -> Switch],
                    \A s \in Routed : \E r \in Cheapest(s) : nxt[s] = r[2]
             PROVE  nxt \in NextHops(graph, blocked, d)
  BY Zenon
<1> DEFINE Best(s) == CHOOSE r \in Cheapest(s) : nxt[s] = r[2]
           Dist == [s \in Switch |-> IF s = d THEN 0 ELSE RouteCost(cost, Best(s))]
<1>5. ASSUME NEW s \in Routed
      PROVE  /\ s \in Switch /\ s # d
             /\ Best(s) \in Routes(graph, blocked, s, d)
             /\ \A t \in Routes(graph, blocked, s, d) : RouteCost(cost, Best(s)) <= RouteCost(cost, t)
             /\ nxt[s] = Best(s)[2]
  <2>1. \E r \in Cheapest(s) : nxt[s] = r[2]
    OBVIOUS
  <2>2. Best(s) \in Cheapest(s) /\ nxt[s] = Best(s)[2]
    BY <2>1, Zenon
  <2> HIDE DEF Best
  <2> QED BY <2>2 DEF ShortestRoutes
<1> HIDE DEF Best
<1>6. ASSUME NEW s \in Routed
      PROVE  /\ nxt[s] \in Switch /\ nxt[s] \in graph[s] /\ (nxt[s] \in blocked => nxt[s] = d)
             /\ nxt[s] \in R
             /\ nxt[s] # d => nxt[s] \in Routed /\ Dist[nxt[s]] < Dist[s]
             /\ Dist[s] \in Nat
  <2> DEFINE r == Best(s)
             u == nxt[s]
             t == [i \in 1..Len(r) - 1 |-> r[i + 1]]
  <2>1. /\ s \in Switch /\ s # d /\ r \in Routes(graph, blocked, s, d) /\ u = r[2]
    BY <1>5
  <2> HIDE DEF r, u
  <2>2. /\ u \in Switch /\ u \in graph[s] /\ (u \in blocked => u = d)
        /\ t \in Routes(graph, blocked, u, d)
    BY <1>0, <2>1, RestOfRoute
  <2>3. RouteCost(cost, t) < RouteCost(cost, r)
    BY <2>1, RestIsCheaper
  <2> HIDE DEF t
  <2>4. u \in R
    BY <1>0, <2>2, RouteReaches
  <2>5. RouteCost(cost, t) \in Nat /\ RouteCost(cost, r) \in Nat
    BY <2>1, <2>2, RouteCosts
  <2>6. Dist[s] = RouteCost(cost, r)
    BY <2>1 DEF r
  <2>7. ASSUME u # d PROVE u \in Routed /\ Dist[u] < Dist[s]
    <3>1. u \in Routed
      BY <1>4, <2>4, <2>7
    <3>2. Dist[u] = RouteCost(cost, Best(u)) /\ RouteCost(cost, Best(u)) <= RouteCost(cost, t)
      BY <1>5, <2>2, <2>7, <3>1
    <3>3. RouteCost(cost, Best(u)) \in Nat
      BY <1>5, <3>1, RouteCosts
    <3> HIDE DEF Dist, Routed
    <3> QED BY <2>3, <2>5, <2>6, <3>1, <3>2, <3>3
  <2> QED BY <2>2, <2>4, <2>5, <2>6, <2>7 DEF u
<1> HIDE DEF Dist
<1>7. nxt \in [R \ {d} -> R]
  BY <1>4, <1>6
<1>8. Acyclic(nxt)
  <2> SUFFICES ASSUME NEW C \in SUBSET DOMAIN nxt, C # {} PROVE \E v \in C : nxt[v] \notin C
    BY DEF Acyclic
  <2>1. C \subseteq Routed
    OBVIOUS
  <2> DEFINE B == {Dist[v] : v \in C}
  <2>2. B \in SUBSET Nat /\ B # {}
    BY <1>6, <2>1
  <2>3. PICK x \in B : \A y \in B : x <= y
    <3> HIDE DEF B
    <3> QED BY <2>2, LeastNat
  <2>4. PICK v \in C : \A w \in C : Dist[v] <= Dist[w]
    BY <2>3
  <2>5. CASE nxt[v] = d
    BY <2>1, <2>5
  <2>6. CASE nxt[v] # d
    <3>1. nxt[v] \in Routed /\ Dist[nxt[v]] < Dist[v] /\ Dist[v] \in Nat /\ Dist[nxt[v]] \in Nat
      BY <1>6, <2>1, <2>6
    <3>2. ~(Dist[v] <= Dist[nxt[v]])
      BY <3>1
    <3> QED BY <2>4, <3>2
  <2> QED BY <2>5, <2>6
<1> HIDE DEF R, Routed
<1> QED BY <1>4, <1>6, <1>7, <1>8 DEF NextHops, R

(* First hops of cheapest routes always lead to the destination.             *)
THEOREM FirstHopsAlwaysConverge == Spec => []FirstHopsConverge
<1>1. Init => LinkInv /\ CostInv
  <2>1. Init => CostInv
    BY CostAssumption DEF Init, LinkInit, CostInv
  <2> QED
    BY <2>1, LinkInitInv DEF Init
<1> QED
  BY <1>1, HopsConverge, LinkInvStep, CostStep, PTL DEF Spec

-----------------------------------------------------------------------------
\* The links of a frozen order: pairs with a base cost, no more than half as
\* many as ports.
OrderOK(order) ==
  /\ order \in Seq(Pair)
  /\ \A i \in DOMAIN order : base[order[i]] \in Int /\ base[order[i]] > 0
  /\ Len(order) <= Cardinality(Cabled) \div 2

(* The fabric is finite.                                                     *)
LEMMA CabledFinite == IsFiniteSet(Cabled) /\ Cardinality(Cabled) \in Nat
<1>1. IsFiniteSet(Port) /\ Cabled \subseteq Port
  BY LeverAssumption, CableAssumption DEF Cabled
<1>2. IsFiniteSet(Cabled)
  BY <1>1, FS_Subset
<1> QED BY <1>2, FS_CardinalityType

(* Every link uses up two cabled ports of its own.                           *)
LEMMA TwoPortsPerLink ==
  ASSUME LinkInv
  PROVE  LET Recorded == {{p, links[p]} : p \in linkPorts}
         IN  /\ IsFiniteSet(Recorded)
             /\ 2 * Cardinality(Recorded) <= Cardinality(Cabled)
<1> DEFINE Recorded == {{p, links[p]} : p \in linkPorts}
<1>1. \A p \in linkPorts : /\ p \in Cabled /\ links[p] \in Cabled /\ links[p] # p
                           /\ links[links[p]] = p
  BY CableAssumption DEF LinkInv, LinksSymmetric, LinkTypeOK, Cabled
<1>2. \A x \in Recorded : x \in SUBSET Cabled
  BY <1>1
<1>3. IsFiniteSet(Recorded)
  <2>1. IsFiniteSet(SUBSET Cabled)
    BY CabledFinite, FS_SUBSET
  <2> QED BY <1>2, <2>1, FS_Subset
<1>4. ASSUME NEW x \in Recorded, NEW y \in Recorded, x # y PROVE x \cap y = {}
  <2>1. PICK p \in linkPorts : x = {p, links[p]}
    OBVIOUS
  <2>2. PICK q \in linkPorts : y = {q, links[q]}
    OBVIOUS
  <2> QED BY <1>1, <1>4, <2>1, <2>2
<1>5. \A x \in Recorded : IsFiniteSet(x) /\ Cardinality(x) = 2
  <2> SUFFICES ASSUME NEW p \in linkPorts
               PROVE  IsFiniteSet({p, links[p]}) /\ Cardinality({p, links[p]}) = 2
    OBVIOUS
  <2>1. IsFiniteSet({p}) /\ Cardinality({p}) = 1
    BY FS_Singleton
  <2>2. {p, links[p]} = {p} \cup {links[p]} /\ links[p] \notin {p}
    BY <1>1
  <2>3. IsFiniteSet({p} \cup {links[p]}) /\ Cardinality({p} \cup {links[p]}) = 1 + 1
    BY <2>1, <2>2, FS_AddElement
  <2> QED BY <2>2, <2>3
<1> HIDE DEF Recorded
<1> DEFINE G == {V \in SUBSET Recorded : IsFiniteSet(UNION V) /\ Cardinality(UNION V) = 2 * Cardinality(V)}
<1>6. {} \in G
  BY FS_EmptySet
<1>7. ASSUME NEW V \in SUBSET Recorded, NEW x \in Recorded \ V, V \in G PROVE V \cup {x} \in G
  <2>1. UNION (V \cup {x}) = (UNION V) \cup x /\ (UNION V) \cap x = {}
    BY <1>4
  <2>2. IsFiniteSet((UNION V) \cup x) /\ Cardinality((UNION V) \cup x) = Cardinality(UNION V) + 2
    <3>1. Cardinality((UNION V) \cap x) = 0
      BY <2>1, FS_EmptySet
    <3>2. IsFiniteSet(UNION V) /\ IsFiniteSet(x) /\ Cardinality(x) = 2 /\ Cardinality(UNION V) \in Nat
      BY <1>5, <1>7, FS_CardinalityType
    <3>3. /\ IsFiniteSet((UNION V) \cup x)
          /\ Cardinality((UNION V) \cup x)
             = Cardinality(UNION V) + Cardinality(x) - Cardinality((UNION V) \cap x)
      BY <3>2, FS_Union
    <3> QED BY <3>1, <3>2, <3>3
  <2>3. Cardinality(V \cup {x}) = Cardinality(V) + 1 /\ Cardinality(V) \in Nat
    <3>1. IsFiniteSet(V)
      BY <1>3, FS_Subset
    <3> QED BY <3>1, FS_AddElement, FS_CardinalityType
  <2>4. Cardinality(UNION V) = 2 * Cardinality(V)
    BY <1>7
  <2>5. IsFiniteSet(UNION (V \cup {x}))
    BY <2>1, <2>2
  <2>6. Cardinality(UNION (V \cup {x})) = 2 * Cardinality(V \cup {x})
    <3>1. Cardinality(UNION (V \cup {x})) = 2 * Cardinality(V) + 2
      BY <2>1, <2>2, <2>4
    <3> QED BY <2>3, <3>1
  <2> QED BY <2>5, <2>6
<1>8. Recorded \in G
  <2> HIDE DEF G
  <2> QED BY <1>3, <1>6, <1>7, SubsetInduction
<1>9. UNION Recorded \subseteq Cabled
  BY <1>2
<1>10. Cardinality(UNION Recorded) <= Cardinality(Cabled)
  BY <1>9, CabledFinite, FS_Subset
<1> QED BY <1>3, <1>8, <1>10 DEF Recorded

(* Any order the links are frozen in has every recorded link once.           *)
LEMMA LinkOrdersOK ==
  ASSUME LinkInv, CostInv, NEW order \in LinkOrders
  PROVE  OrderOK(order)
<1> DEFINE Recorded == {{p, links[p]} : p \in linkPorts}
           n == Cardinality(Recorded)
<1>1. PICK q \in [1..n -> Recorded] : order = [i \in DOMAIN q |-> {At[p] : p \in q[i]}]
  BY DEF LinkOrders, SetToSeqs
<1>2. IsFiniteSet(Recorded) /\ 2 * n <= Cardinality(Cabled)
  BY TwoPortsPerLink
<1>3. n \in Nat
  BY <1>2, FS_CardinalityType
<1> HIDE DEF n
<1>4. ASSUME NEW i \in 1..n
      PROVE  order[i] \in Pair /\ base[order[i]] \in Int /\ base[order[i]] > 0
  <2>1. PICK p \in linkPorts : q[i] = {p, links[p]}
    BY <1>1
  <2>2. /\ p \in Cabled /\ links[p] = Peer[p] /\ p \in Port /\ links[p] # None
        /\ At[p] \in Switch /\ At[Peer[p]] \in Switch
    BY CableAssumption DEF LinkInv, LinksSymmetric, LinkTypeOK, Cabled
  <2>3. {At[x] : x \in q[i]} = {At[p], At[Peer[p]]}
    BY <2>1, <2>2
  <2>4. order[i] = {At[p], At[Peer[p]]}
    BY <1>1, <2>3
  <2>5. At[Peer[p]] \in graph[At[p]]
    BY <2>2 DEF LinkInv, GraphMatchesLinks
  <2>6. order[i] \in Pair /\ cost[order[i]] # None
    <3>1. {At[p], At[Peer[p]]} \in Pair /\ cost[{At[p], At[Peer[p]]}] # None
      BY <2>2, <2>5 DEF CostInv
    <3> QED BY <2>4, <3>1
  <2>7. base[order[i]] # None /\ base[order[i]] \in Int \cup {None} /\ base[order[i]] > 0
    BY <2>6 DEF CostInv
  <2> QED BY <2>6, <2>7
<1>5. order \in [1..n -> Pair]
  BY <1>1, <1>4
<1>6. order \in Seq(Pair) /\ Len(order) = n
  BY <1>3, <1>5
<1>7. n <= Cardinality(Cabled) \div 2
  <2> DEFINE c == Cardinality(Cabled)
  <2>1. c \in Nat /\ 2 * n <= c
    BY <1>2, CabledFinite DEF n
  <2> HIDE DEF c
  <2>2. n <= c \div 2
    BY <1>3, <2>1
  <2> QED BY <2>2 DEF c
<1> QED BY <1>4, <1>6, <1>7 DEF OrderOK

(* The median of the base costs is one of them.                              *)
LEMMA MedianPositive ==
  ASSUME NEW order, OrderOK(order)
  PROVE  Median(order) \in Int /\ Median(order) > 0
<1>1. CASE order = <<>>
  BY <1>1, LeverAssumption DEF Median
<1>2. CASE order # <<>>
  <2> DEFINE D == DOMAIN order
             n == Len(order)
             f == [i \in D |-> base[order[i]]]
             Below(i) == Cardinality({j \in D : f[j] < f[i]})
             UpTo(i)  == Cardinality({j \in D : f[j] <= f[i]})
             k == n \div 2
             T == {i \in D : UpTo(i) > k}
  <2>1. n \in Nat /\ n > 0 /\ D = 1..n /\ \A i \in D : f[i] \in Int /\ f[i] > 0
    BY <1>2 DEF OrderOK
  <2>2. IsFiniteSet(D) /\ Cardinality(D) = n /\ D # {}
    <3>1. IsFiniteSet(1..n) /\ Cardinality(1..n) = n
      BY <2>1, FS_Interval
    <3> QED BY <2>1, <3>1
  <2>3. k \in Nat /\ k < n
    BY <2>1
  <2>4. Median(order) = f[CHOOSE i \in D : Below(i) <= k /\ UpTo(i) > k]
        \/ ~ \E i \in D : Below(i) <= k /\ UpTo(i) > k
    <3>1. \A i \in D : f[i] = base[order[i]]
      OBVIOUS
    <3> QED BY <1>2, <3>1 DEF Median
  <2> HIDE DEF f, k
  <2>5. \A i \in D : Below(i) \in Nat /\ UpTo(i) \in Nat
    <3> TAKE i \in D
    <3>1. IsFiniteSet({j \in D : f[j] < f[i]}) /\ IsFiniteSet({j \in D : f[j] <= f[i]})
      BY <2>2, FS_Subset
    <3> QED BY <3>1, FS_CardinalityType
  <2>6. T # {}
    <3>1. PICK i \in D : \A j \in D : f[j] <= f[i]
      BY <2>1, <2>2, Extremes
    <3>2. {j \in D : f[j] <= f[i]} = D
      BY <3>1
    <3>3. UpTo(i) > k
      BY <2>2, <2>3, <3>2
    <3> QED BY <3>3
  <2>7. PICK i \in T : \A j \in T : f[i] <= f[j]
    <3>1. IsFiniteSet(T) /\ \A j \in T : f[j] \in Int
      BY <2>1, <2>2, FS_Subset
    <3> HIDE DEF T
    <3> QED BY <2>6, <3>1, Extremes
  <2>8. Below(i) <= k
    <3>0. Below(i) \in Nat
      BY <2>5
    <3> HIDE DEF Below
    <3> SUFFICES ASSUME Below(i) > k PROVE FALSE
      BY <2>3, <3>0
    <3> USE DEF Below
    <3> DEFINE B == {j \in D : f[j] < f[i]}
    <3>1. IsFiniteSet(B) /\ B # {} /\ \A j \in B : f[j] \in Int
      <4>1. IsFiniteSet(B)
        BY <2>2, FS_Subset
      <4>2. B # {}
        <5>1. Cardinality(B) > k
          OBVIOUS
        <5> HIDE DEF B
        <5>2. k \in Nat
          BY <2>3
        <5> QED BY <4>1, <5>1, <5>2, FS_EmptySet
      <4> QED BY <2>1, <4>1, <4>2
    <3> HIDE DEF B
    <3>2. PICK j \in B : \A m \in B : f[m] <= f[j]
      BY <3>1, Extremes
    <3> DEFINE C == {m \in D : f[m] <= f[j]}
    <3>3. j \in D /\ f[j] < f[i] /\ B \subseteq C
      BY <3>2 DEF B
    <3>4. IsFiniteSet(C) /\ Cardinality(B) <= Cardinality(C)
      <4>1. IsFiniteSet(C)
        BY <2>2, FS_Subset
      <4> HIDE DEF C
      <4> QED BY <3>3, <4>1, FS_Subset
    <3>5. UpTo(j) > k
      <4>1. Cardinality(C) > k
        BY <2>3, <2>5, <3>4, <3>1, FS_CardinalityType DEF B
      <4> QED BY <4>1
    <3>6. j \in T
      BY <3>3, <3>5
    <3>7. f[i] <= f[j] /\ f[i] \in Int /\ f[j] \in Int
      BY <2>1, <2>7, <3>3, <3>6
    <3> QED BY <3>3, <3>7
  <2>9. \E m \in D : Below(m) <= k /\ UpTo(m) > k
    BY <2>7, <2>8
  <2>10. Median(order) \in Int /\ Median(order) > 0
    BY <2>1, <2>4, <2>9
  <2> QED BY <2>10
<1> QED BY <1>1, <1>2

(* Arithmetic of the lever: quotients of positive numbers.                   *)
LEMMA Cancel ==
  ASSUME NEW n \in Nat \ {0}, NEW x \in Int
  PROVE  (n * x) \div n = x
<1> DEFINE z == (n * x) \div n
<1>1. z \in Int /\ n * z <= n * x /\ n * x < n * z + n
  OBVIOUS
<1> HIDE DEF z
<1>2. CASE x - z >= 1
  <2>1. n * (x - z) >= n
    BY <1>1, <1>2
  <2> QED BY <1>1, <2>1
<1>3. CASE x - z <= -1
  <2>1. n * (x - z) <= -n
    BY <1>1, <1>3
  <2> QED BY <1>1, <2>1
<1>4. z = x
  BY <1>1, <1>2, <1>3
<1> QED BY <1>4 DEF z
(* A number that divides without remainder.                                  *)
LEMMA Divides ==
  ASSUME NEW n \in Nat \ {0}, NEW u \in Nat \ {0}, u % n = 0
  PROVE  \E q \in Nat \ {0} : u = n * q
<1>1. n \in Int /\ n > 0 /\ u \in Int /\ u > 0
  OBVIOUS
<1>2. PICK q \in Int : u = n * q
  <2> DEFINE q == u \div n
  <2>1. q \in Int
    BY <1>1
  <2>2. u = n * q
    BY <1>1
  <2> HIDE DEF q
  <2> QED BY <2>1, <2>2
<1>3. q > 0
  <2>1. CASE q <= 0
    <3>1. n * q <= 0
      BY <1>1, <2>1
    <3> QED BY <1>1, <1>2, <3>1
  <2> QED BY <2>1
<1> QED BY <1>2, <1>3

(* The mean is exact in Unit-ths, so the deviations from it are too.         *)
LEMMA CentredIs ==
  ASSUME NEW n \in Nat \ {0}, NEW q \in Nat \ {0}, Unit = n * q, NEW a \in [1..n -> Int]
  PROVE  Centred(a) = [i \in 1..n |-> q * (n * a[i] - SumOver(a, 1..n))]
<1> DEFINE A == SumOver(a, 1..n)
<1>1. IsFiniteSet(1..n)
  BY FS_Interval
<1>2. A \in Int
  BY <1>1, SumInt
<1>3. a \in Seq(Int) /\ Len(a) = n /\ DOMAIN a = 1..n
  OBVIOUS
<1> HIDE DEF A
<1>4. ASSUME NEW i \in 1..n PROVE (Unit * (n * a[i] - A)) \div n = q * (n * a[i] - A)
  <2> DEFINE x == n * a[i] - A
             y == q * x
  <2>1. a[i] \in Int
    OBVIOUS
  <2>2. x \in Int
    BY <1>2, <2>1
  <2> HIDE DEF x
  <2>3. y \in Int /\ Unit * x = n * y
    BY <2>2
  <2> HIDE DEF y
  <2>4. (Unit * x) \div n = y
    BY <2>3, Cancel
  <2> QED BY <2>4 DEF x, y
<1> QED BY <1>3, <1>4 DEF Centred, A

(* Deviations from a mean cancel out.                                        *)
LEMMA CentredSum ==
  ASSUME NEW n \in Nat \ {0}, NEW q \in Nat \ {0}, Unit = n * q, NEW a \in [1..n -> Int]
  PROVE  Centred(a) \in [1..n -> Int] /\ SumOver(Centred(a), 1..n) = 0
<1> DEFINE A == SumOver(a, 1..n)
           S == 1..n
           d == [i \in S |-> q * (n * a[i] - A)]
           f == [i \in S |-> (q * n) * a[i]]
           g == [i \in S |-> - q * A]
<1>1. IsFiniteSet(S) /\ Cardinality(S) = n
  BY FS_Interval
<1>2. A \in Int /\ \A i \in S : a[i] \in Int
  BY <1>1, SumInt
<1>3. q * n \in Int /\ -q * A \in Int
  BY <1>2
<1> HIDE DEF A
<1>4. \A i \in S : f[i] \in Int /\ g[i] \in Int /\ d[i] = f[i] + g[i] /\ d[i] \in Int
  BY <1>2
<1>5. SumOver(f, S) = (q * n) * SumOver(a, S)
  <2> HIDE DEF S
  <2>1. \A i \in S : a[i] \in Int /\ f[i] = (q * n) * a[i]
    BY <1>2
  <2> DEFINE c == q * n
  <2> HIDE DEF f, c
  <2>2. c \in Int /\ \A i \in S : a[i] \in Int /\ f[i] = c * a[i]
    BY <1>3, <2>1 DEF c
  <2>3. SumOver(f, S) = c * SumOver(a, S)
    BY <1>1, <2>2, SumTimes
  <2> QED BY <2>3 DEF c
<1>6. SumOver(g, S) = n * (-q * A)
  <2>1. \A i \in S : g[i] = -q * A
    OBVIOUS
  <2> DEFINE c == -q * A
  <2> HIDE DEF g, S, c
  <2>2. c \in Int /\ \A i \in S : g[i] = c
    BY <1>3, <2>1 DEF c
  <2>3. SumOver(g, S) = Cardinality(S) * c
    BY <1>1, <2>2, SumConstant
  <2> QED BY <1>1, <2>3 DEF c
<1>7. SumOver(d, S) = SumOver(f, S) + SumOver(g, S)
  <2> HIDE DEF d, f, g, S
  <2> QED BY <1>1, <1>4, SumPlus
<1>8. (q * n) * A + n * (-q * A) = 0
  BY <1>2
<1>9. SumOver(d, S) = 0
  <2> HIDE DEF d, f, g
  <2> QED BY <1>5, <1>6, <1>7, <1>8 DEF A
<1>10. Centred(a) = d
  BY CentredIs DEF A
<1> QED BY <1>4, <1>9, <1>10

(* One term of the swing: with values from -1 to 1 no deviation can change   *)
(* by more than this.                                                        *)
LEMMA SwingTerm ==
  ASSUME NEW n \in Nat, NEW x \in -2..2, NEW X \in Int, -2 * n <= X, X <= 2 * n
  PROVE  2 * Abs(n * x - X) <= 4 * n - x * X
<1>1. CASE x = -2
  BY <1>1 DEF Abs
<1>2. CASE x = -1
  BY <1>2 DEF Abs
<1>3. CASE x = 0
  BY <1>3 DEF Abs
<1>4. CASE x = 1
  BY <1>4 DEF Abs
<1>5. CASE x = 2
  BY <1>5 DEF Abs
<1> QED BY <1>1, <1>2, <1>3, <1>4, <1>5

(* Between two actions the deviations change by no more than MaxSwing.       *)
LEMMA SwingBound ==
  ASSUME NEW n \in Nat \ {0}, NEW q \in Nat \ {0}, Unit = n * q,
         NEW a \in [1..n -> -1..1], NEW b \in [1..n -> -1..1]
  PROVE  SumOver([i \in 1..n |-> Abs(Centred(a)[i] - Centred(b)[i])], 1..n) <= 2 * Unit * n
<1> DEFINE S == 1..n
           A == SumOver(a, S)
           B == SumOver(b, S)
           X == A - B
           x == [i \in S |-> a[i] - b[i]]
           t == [i \in S |-> Abs(n * x[i] - X)]
           u == [i \in S |-> 2 * t[i]]
           h == [i \in S |-> 4 * n - x[i] * X]
           w == [i \in S |-> Abs(Centred(a)[i] - Centred(b)[i])]
<1>1. IsFiniteSet(S) /\ Cardinality(S) = n
  BY FS_Interval
<1>2. \A i \in S : a[i] \in -1..1 /\ b[i] \in -1..1 /\ x[i] = a[i] - b[i] /\ x[i] \in -2..2
  OBVIOUS
<1>3. A \in Int /\ B \in Int
  <2> HIDE DEF S, x
  <2>1. \A i \in S : a[i] \in Int /\ b[i] \in Int
    BY <1>2
  <2> QED BY <1>1, <2>1, SumInt
<1>4. SumOver(x, S) = X
  <2> DEFINE nb == [i \in S |-> -1 * b[i]]
             m == -1
  <2>1. m \in Int /\ \A i \in S : b[i] \in Int /\ nb[i] = m * b[i]
    BY <1>2
  <2>2. \A i \in S : a[i] \in Int /\ nb[i] \in Int /\ x[i] = a[i] + nb[i]
    BY <1>2
  <2>3. m = -1
    OBVIOUS
  <2> HIDE DEF nb, x, S, m
  <2>4. SumOver(nb, S) = m * SumOver(b, S)
    BY <1>1, <2>1, SumTimes
  <2>5. SumOver(x, S) = SumOver(a, S) + SumOver(nb, S)
    BY <1>1, <2>2, SumPlus
  <2> QED BY <1>3, <2>3, <2>4, <2>5
<1>5. -2 * n <= X /\ X <= 2 * n
  <2> DEFINE lo == [i \in S |-> -2]
             hi == [i \in S |-> 2]
             mt == -2
             pt == 2
  <2>1. \A i \in S : lo[i] = mt /\ hi[i] = pt /\ lo[i] \in Int /\ hi[i] \in Int /\ x[i] \in Int
                     /\ lo[i] <= x[i] /\ x[i] <= hi[i]
    BY <1>2
  <2>2. mt \in Int /\ pt \in Int /\ mt = -2 /\ pt = 2
    OBVIOUS
  <2> HIDE DEF lo, hi, x, S, X, mt, pt
  <2>3. SumOver(lo, S) <= SumOver(x, S) /\ SumOver(x, S) <= SumOver(hi, S)
    BY <1>1, <2>1, SumMonotone
  <2>4. SumOver(lo, S) = Cardinality(S) * mt /\ SumOver(hi, S) = Cardinality(S) * pt
    BY <1>1, <2>1, <2>2, SumConstant
  <2> QED BY <1>1, <1>4, <2>2, <2>3, <2>4
<1>6. X \in Int
  BY <1>3
<1> HIDE DEF X
<1>7. \A i \in S : /\ t[i] \in Int /\ u[i] \in Int /\ h[i] \in Int /\ x[i] * X \in Int
                   /\ u[i] = 2 * t[i] /\ h[i] = 4 * n - x[i] * X /\ u[i] <= h[i]
  <2> TAKE i \in S
  <2>1. x[i] \in -2..2
    BY <1>2
  <2> DEFINE y == x[i]
  <2>2. n * y - X \in Int /\ y * X \in Int
    BY <1>6, <2>1
  <2>3. Abs(n * y - X) \in Int
    BY <2>2 DEF Abs
  <2>4. 2 * Abs(n * y - X) <= 4 * n - y * X
    <3> HIDE DEF y
    <3>1. y \in -2..2
      BY <2>1 DEF y
    <3> QED BY <1>5, <1>6, <3>1, SwingTerm
  <2>5. t[i] = Abs(n * y - X) /\ u[i] = 2 * t[i] /\ h[i] = 4 * n - y * X
    OBVIOUS
  <2> HIDE DEF y, t, u, h
  <2>6. t[i] \in Int /\ u[i] \in Int /\ h[i] \in Int /\ u[i] <= h[i]
    BY <2>2, <2>3, <2>4, <2>5
  <2> QED BY <2>2, <2>5, <2>6 DEF y
<1>8. SumOver(h, S) = n * (4 * n) - X * X
  <2> DEFINE k == [i \in S |-> 4 * n]
             nx == [i \in S |-> (-X) * x[i]]
             m == -X
             fn == 4 * n
  <2>1. /\ m \in Int /\ fn \in Int /\ m = -X /\ fn = 4 * n
        /\ \A i \in S : x[i] \in Int /\ nx[i] = m * x[i] /\ k[i] = fn
    BY <1>2, <1>6
  <2>2. \A i \in S : k[i] \in Int /\ nx[i] \in Int /\ h[i] = k[i] + nx[i]
    <3> TAKE i \in S
    <3>1. x[i] \in Int
      BY <1>2
    <3>2. h[i] = 4 * n - x[i] * X /\ k[i] = 4 * n /\ nx[i] = (-X) * x[i]
      BY <1>7
    <3> HIDE DEF h, k, nx, x
    <3> QED BY <1>6, <3>1, <3>2
  <2> HIDE DEF k, nx, m, fn, S, h, x
  <2>3. SumOver(nx, S) = m * SumOver(x, S)
    BY <1>1, <2>1, SumTimes
  <2>4. SumOver(k, S) = Cardinality(S) * fn
    BY <1>1, <2>1, SumConstant
  <2>5. SumOver(h, S) = SumOver(k, S) + SumOver(nx, S)
    BY <1>1, <2>2, SumPlus
  <2>6. SumOver(h, S) = n * (4 * n) + (-X) * X
    BY <1>1, <1>4, <2>1, <2>3, <2>4, <2>5
  <2> QED BY <1>6, <2>6
<1>9. SumOver(t, S) \in Int /\ 2 * SumOver(t, S) <= 4 * (n * n)
  <2> DEFINE two == 2
  <2>1. two \in Int /\ \A i \in S : t[i] \in Int /\ u[i] = two * t[i]
    BY <1>7
  <2>2. two = 2
    OBVIOUS
  <2> HIDE DEF two, t, u, h, S
  <2>3. SumOver(u, S) = two * SumOver(t, S)
    <3>1. IsFiniteSet(S)
      BY <1>1
    <3>2. two \in Int
      BY <2>1
    <3>3. \A i \in S : t[i] \in Int /\ u[i] = two * t[i]
      BY <2>1
    <3> QED BY ONLY <3>1, <3>2, <3>3, SumTimes
  <2>4. SumOver(u, S) <= SumOver(h, S)
    BY <1>1, <1>7, SumMonotone
  <2>5. SumOver(t, S) \in Int
    BY <1>1, <2>1, SumInt
  <2>6. X * X >= 0
    BY <1>6
  <2>7. n * (4 * n) = 4 * (n * n) /\ X * X \in Int /\ n * n \in Int
    BY <1>6
  <2> HIDE DEF X
  <2> QED BY <1>8, <2>2, <2>3, <2>4, <2>5, <2>6, <2>7
<1>10. SumOver(w, S) = q * SumOver(t, S)
  <2>1. /\ Centred(a) = [i \in 1..n |-> q * (n * a[i] - A)]
        /\ Centred(b) = [i \in 1..n |-> q * (n * b[i] - B)]
    <3>1. a \in [1..n -> Int] /\ b \in [1..n -> Int]
      OBVIOUS
    <3> QED BY <3>1, CentredIs
  <2>2. \A i \in S : w[i] = q * t[i] /\ t[i] \in Int
    <3> TAKE i \in S
    <3> DEFINE z == n * x[i] - X
    <3>1. a[i] \in Int /\ b[i] \in Int /\ x[i] = a[i] - b[i] /\ t[i] = Abs(z)
      BY <1>2
    <3>2. Centred(a)[i] - Centred(b)[i] = q * z
      <4>1. Centred(a)[i] = q * (n * a[i] - A) /\ Centred(b)[i] = q * (n * b[i] - B)
        BY <2>1
      <4>2. n * a[i] \in Int /\ n * b[i] \in Int
        BY <3>1
      <4>3. n * a[i] - A - (n * b[i] - B) = z
        BY <1>3, <3>1, <4>2 DEF X
      <4>4. q * (n * a[i] - A) - q * (n * b[i] - B) = q * (n * a[i] - A - (n * b[i] - B))
        BY <1>3, <4>2
      <4> QED BY <4>1, <4>3, <4>4
    <3>3. z \in Int
      BY <1>6, <3>1
    <3> HIDE DEF z
    <3>4. Abs(q * z) = q * Abs(z)
      <4>1. CASE z < 0
        <5>1. q * z < 0
          BY <3>3, <4>1
        <5> QED BY <3>3, <4>1, <5>1 DEF Abs
      <4>2. CASE z >= 0
        <5>1. q * z >= 0
          BY <3>3, <4>2
        <5> QED BY <3>3, <4>2, <5>1 DEF Abs
      <4> QED BY <3>3, <4>1, <4>2
    <3>5. w[i] = Abs(q * z)
      BY <3>2
    <3> QED BY <1>7, <3>1, <3>4, <3>5
  <2>3. q \in Int
    OBVIOUS
  <2> HIDE DEF w, t, S
  <2> QED BY <1>1, <2>2, <2>3, SumTimes
<1>11. q * SumOver(t, S) <= 2 * Unit * n
  <2> DEFINE T == SumOver(t, S)
  <2>1. T \in Int /\ T <= 2 * (n * n)
    BY <1>9
  <2> HIDE DEF T
  <2>2. q * T <= q * (2 * (n * n))
    BY <2>1
  <2>3. q * (2 * (n * n)) = 2 * Unit * n
    OBVIOUS
  <2> QED BY <2>2, <2>3 DEF T
<1> HIDE DEF w, t
<1>12. SumOver(w, S) <= 2 * Unit * n
  BY <1>10, <1>11
<1> QED BY <1>12 DEF w
-----------------------------------------------------------------------------
\* The last action, while every pair of switches has one cable: the deltas are
\* the deviations of the values it gave the links.
LastAction ==
  OnePerPair =>
    \E b \in [DOMAIN linkOrder -> -1..1] :
      \A i \in DOMAIN linkOrder : mlDelta[linkOrder[i]] = Centred(b)[i]

OrderShape ==
  /\ started \in BOOLEAN
  /\ linkOrder \in Seq(Pair)
  /\ Len(linkOrder) <= Cardinality(Cabled) \div 2
  /\ churn \in 0..MaxSwing(linkOrder)
  /\ ~started => linkOrder = <<>> /\ \A e \in Pair : mlDelta[e] = 0

LeverInv ==
  /\ LinkInv /\ CostInv /\ CacheShape /\ blocked \in SUBSET Switch
  /\ OrderShape /\ LeverInForce /\ LastAction

(* Nothing is frozen at first.                                               *)
LEMMA LeverInitInv == LeverInit => LeverInv
<1> SUFFICES ASSUME LeverInit PROVE LeverInv
  OBVIOUS
<1>1. LinkInv /\ CacheShape /\ blocked \in SUBSET Switch
  BY LinkInitInv DEF LeverInit, Init, EmptyCache, CacheShape
<1>2. CostInv
  BY CostAssumption DEF LeverInit, Init, LinkInit, CostInv
<1>3. OrderShape
  <2>1. Cardinality(Cabled) \div 2 >= 0
    BY CabledFinite
  <2>2. linkOrder = <<>> /\ Len(linkOrder) = 0 /\ MaxSwing(linkOrder) = 0
    BY LeverAssumption DEF LeverInit, MaxSwing
  <2>3. Len(linkOrder) <= Cardinality(Cabled) \div 2
    BY <2>1, <2>2
  <2>4. churn \in 0..MaxSwing(linkOrder)
    BY <2>2 DEF LeverInit
  <2>5. linkOrder \in Seq(Pair)
    BY <2>2
  <2>6. started \in BOOLEAN /\ \A e \in Pair : mlDelta[e] = 0
    BY DEF LeverInit, Init
  <2> QED BY <2>2, <2>3, <2>4, <2>5, <2>6 DEF OrderShape
<1>4. LeverInForce
  BY CableAssumption DEF LeverInForce, LeverInit, Init, LinkInit, Cabled
<1>5. LastAction
  <2>1. DOMAIN linkOrder = {}
    BY DEF LeverInit
  <2>2. [x \in {} |-> 0] \in [{} -> -1..1]
    OBVIOUS
  <2> QED BY <2>1, <2>2 DEF LastAction
<1> QED BY <1>1, <1>2, <1>3, <1>4, <1>5 DEF LeverInv

\* The actions of the lever that touch the links are those of the database.
LEMMA LeverLinkStep ==
  ASSUME [LeverNext]_allVars
  PROVE  \/ \E p \in Cabled : AddLink(p, Peer[p])
         \/ \E p \in Port : RemovePort(p)
         \/ UNCHANGED linkVars
BY CableAssumption DEF LeverNext, allVars, vars, HandleLldpPacket, PortDeleted,
   RemoveTopologyPort, MlTick, Cabled

(* Discoveries, port changes and ticks implement the link database alone.    *)
THEOREM LeverImplementsLinkMap == LeverSpec => LinkSpec
<1>1. LeverInit => LinkInit
  BY DEF LeverInit, Init
<1>2. [LeverNext]_allVars => [LinkNext]_linkVars
  BY LeverLinkStep DEF LinkNext
<1> QED BY <1>1, <1>2, PTL DEF LeverSpec, LinkSpec

(* The lever leaves the link database to AddLink and RemovePort.             *)
LEMMA LeverLinkInvStep == LinkInv /\ [LeverNext]_allVars => LinkInv'
BY LeverLinkStep, LinkStepInv DEF LinkNext

\* The two ends of a recorded link are adjacent, so their pair has a cost.
LEMMA RecordedCost ==
  ASSUME LinkInv, CostInv, NEW p \in Cabled, links[p] # None
  PROVE  Ends(p) \in Pair /\ cost[Ends(p)] # None
<1>1. /\ p \in Port /\ links[p] = Peer[p] /\ At[p] \in Switch /\ At[Peer[p]] \in Switch
  BY CableAssumption DEF LinkInv, LinksSymmetric, Cabled
<1>2. At[Peer[p]] \in graph[At[p]]
  BY <1>1 DEF LinkInv, GraphMatchesLinks
<1> QED BY <1>1, <1>2 DEF CostInv, Ends

-----------------------------------------------------------------------------
\* A discovery.
LEMMA DiscoveryStep ==
  ASSUME LeverInv, NEW p \in Cabled, NEW c \in BaseCosts, HandleLldpPacket(p, c)
  PROVE  CostInv' /\ LeverInForce'
<1> DEFINE e == Ends(p)
           v == DiscoveredCost(p, c)
<1>1. e \in Pair
  BY DEF Pair, Ends
<1>2. c \in Int /\ c > 0
  BY LeverAssumption, CostAssumption
<1>3. v \in Int /\ v > 0 /\ v # None
  <2>1. congestion[e] \in Int /\ mlDelta[e] \in Int /\ scale \in Int
    BY <1>1 DEF LeverInv, CostInv
  <2> HIDE DEF e
  <2>2. Effective(c, congestion[e], mlDelta[e], scale) \in Int
        /\ Effective(c, congestion[e], mlDelta[e], scale) > 0
    BY <1>2, <2>1, EffectivePositive
  <2>3. v \in Int /\ v > 0
    BY <1>2, <2>2 DEF DiscoveredCost, e
  <2> QED BY <2>3, CostAssumption
<1>4. UNCHANGED <<congestion, mlDelta, scale>>
  BY DEF HandleLldpPacket
<1>5. CASE AlreadyKnown(p, Peer[p])
  <2>1. UNCHANGED <<linkVars, cost, base>>
    BY <1>5 DEF HandleLldpPacket, AddLink
  <2>2. CostInv'
    BY <1>4, <2>1 DEF LeverInv, CostInv, linkVars
  <2>3. LeverInForce'
    BY <1>4, <2>1 DEF LeverInv, LeverInForce, Composed, linkVars
  <2> QED BY <2>2, <2>3
<1>6. CASE ~AlreadyKnown(p, Peer[p])
  <2>1. /\ cost' = [cost EXCEPT ![e] = v]
        /\ base' = [base EXCEPT ![e] = c]
        /\ RecordLink(p, Peer[p])
    BY <1>6 DEF HandleLldpPacket, AddLink
  <2>2. At[p] \in Switch /\ At[Peer[p]] \in Switch /\ At[Peer[p]] # At[p]
        /\ p \in Port /\ Peer[p] \in Port /\ Peer[Peer[p]] = p
    BY CableAssumption DEF Cabled
  <2>3. Ends(Peer[p]) = e
    <3>1. Ends(Peer[p]) = {At[Peer[p]], At[p]} /\ e = {At[p], At[Peer[p]]}
      BY <2>2 DEF Ends
    <3> QED BY <3>1
  <2> HIDE DEF v, e
  <2>4. /\ cost' \in [Pair -> Int \cup {None}]
        /\ base' \in [Pair -> Int \cup {None}]
        /\ \A f \in Pair : /\ cost'[f] = IF f = e THEN v ELSE cost[f]
                           /\ base'[f] = IF f = e THEN c ELSE base[f]
    BY <1>1, <1>2, <1>3, <2>1 DEF LeverInv, CostInv
  <2>5. CostInv'
    <3>1. c # None
      BY <1>2, CostAssumption
    <3>2. ASSUME NEW s \in Switch, NEW d \in Switch, d \in graph'[s]
          PROVE  d \in graph[s] \/ {s, d} = e
      BY <2>1, <2>2, <3>2 DEF RecordLink, LeverInv, LinkInv, LinkTypeOK, e, Ends
    <3>3. \A s, d \in Switch : d \in graph'[s] => {s, d} \in Pair /\ cost'[{s, d}] # None
      BY <1>1, <1>3, <2>4, <3>2 DEF LeverInv, CostInv
    <3>4. /\ \A f \in Pair : cost'[f] # None => cost'[f] > 0
          /\ \A f \in Pair : base'[f] # None => base'[f] > 0
          /\ \A f \in Pair : cost'[f] = None <=> base'[f] = None
      BY <1>2, <1>3, <2>4, <3>1 DEF LeverInv, CostInv
    <3>5. congestion' \in [Pair -> Nat] /\ mlDelta' \in [Pair -> Int] /\ scale' \in Nat
      BY <1>4 DEF LeverInv, CostInv
    <3> QED BY <2>4, <3>3, <3>4, <3>5 DEF CostInv
  <2>6. LeverInForce'
    <3> SUFFICES ASSUME NEW r \in Cabled, links'[r] # None,
                        \A x \in Cabled : Ends(x) = Ends(r) => SpeedKnown(x)
                 PROVE  cost'[Ends(r)] = Composed(Ends(r))'
      BY DEF LeverInForce
    <3>1. Ends(r) \in Pair /\ r \in Port
      BY CableAssumption DEF Pair, Ends, Cabled
    <3>2. CASE Ends(r) = e
      <4>1. SpeedKnown(p)
        BY <3>2 DEF e
      <4>2. v = Effective(c, congestion[e], mlDelta[e], scale)
        BY <4>1 DEF v, DiscoveredCost, e
      <4> QED BY <1>1, <1>4, <2>4, <3>2, <4>2 DEF Composed
    <3>3. CASE Ends(r) # e
      <4>1. r # p /\ r # Peer[p]
        BY <2>3, <3>3 DEF e
      <4>2. links[r] # None
        BY <2>1, <3>1, <4>1 DEF RecordLink, LeverInv, LinkInv, LinkTypeOK
      <4>3. cost[Ends(r)] = Composed(Ends(r))
        BY <4>2 DEF LeverInv, LeverInForce
      <4> QED BY <1>4, <2>4, <3>1, <3>3, <4>3 DEF Composed
    <3> QED BY <3>2, <3>3
  <2> QED BY <2>5, <2>6
<1> QED BY <1>5, <1>6

\* A port that goes away.
LEMMA PortDeletedStep ==
  ASSUME LeverInv, NEW p \in Cabled, PortDeleted(p)
  PROVE  CostInv' /\ LeverInForce'
<1>1. p \in Port /\ UNCHANGED <<cost, layerVars>> /\ RemovePort(p)
  BY CableAssumption DEF PortDeleted, RemoveTopologyPort, Cabled
<1>2. \A s, d \in Switch : d \in graph'[s] => d \in graph[s]
  BY <1>1 DEF RemovePort, EraseLink, linkVars
<1>3. \A r \in Port : links'[r] # None => links[r] # None
  BY <1>1 DEF RemovePort, EraseLink, linkVars
<1>4. CostInv'
  BY <1>1, <1>2 DEF LeverInv, CostInv, layerVars
<1>5. LeverInForce'
  <2>1. Cabled \subseteq Port
    BY CableAssumption DEF Cabled
  <2> QED BY <1>1, <1>3, <2>1 DEF LeverInv, LeverInForce, Composed, layerVars
<1> QED BY <1>4, <1>5

\* What the library's Max and Min choose.
LEMMA MaxIn ==
  ASSUME NEW S, IsFiniteSet(S), S # {}, \A x \in S : x \in Int
  PROVE  Max(S) \in S
<1> DEFINE f == [x \in S |-> x]
<1>1. \A x \in S : f[x] \in Int /\ f[x] = x
  OBVIOUS
<1> HIDE DEF f
<1>2. \E x \in S : \A y \in S : f[y] <= f[x]
  BY <1>1, Extremes
<1>3. \E x \in S : \A y \in S : x >= y
  BY <1>1, <1>2
<1> QED BY <1>3 DEF Max

(* The lesser of two numbers.                                                *)
LEMMA MinOfTwo ==
  ASSUME NEW s \in Nat, NEW m \in Int, m >= 0
  PROVE  Min({s, m}) \in 0..m
<1>1. \E x \in {s, m} : \A y \in {s, m} : x <= y
  BY SMT
<1>2. Min({s, m}) \in {s, m} /\ \A y \in {s, m} : Min({s, m}) <= y
  BY <1>1 DEF Min
<1> QED BY <1>2

\* What the first tick freezes; later ticks leave it.
LEMMA FreezeOK ==
  ASSUME LeverInv, Freeze
  PROVE  /\ linkOrder' \in Seq(Pair)
         /\ Len(linkOrder') <= Cardinality(Cabled) \div 2
         /\ MaxSwing(linkOrder) \in Int /\ MaxSwing(linkOrder') \in Int
         /\ MaxSwing(linkOrder) <= MaxSwing(linkOrder')
         /\ scale' \in Nat
         /\ started => linkOrder' = linkOrder /\ scale' = scale
<1>1. CASE started
  <2>1. linkOrder' = linkOrder /\ scale' = scale
    BY <1>1 DEF Freeze
  <2>2. MaxSwing(linkOrder) \in Int
    BY LeverAssumption DEF MaxSwing, LeverInv, OrderShape
  <2> QED BY <2>1, <2>2 DEF LeverInv, OrderShape, CostInv, MaxSwing
<1>2. CASE ~started
  <2>1. PICK order \in LinkOrders : linkOrder' = order
    BY <1>2 DEF Freeze
  <2>2. OrderOK(order)
    BY <2>1, LinkOrdersOK DEF LeverInv
  <2>3. scale' = Median(order) \div Unit
    BY <1>2, <2>1 DEF Freeze
  <2>4. scale' \in Nat
    <3>1. Median(order) \in Int /\ Median(order) > 0
      BY <2>2, MedianPositive
    <3> DEFINE m == Median(order)
    <3>2. m \in Int /\ m > 0
      BY <3>1
    <3> HIDE DEF m
    <3>3. m \div Unit \in Nat
      BY <3>2, LeverAssumption
    <3> QED BY <2>3, <3>3 DEF m
  <2>5. MaxSwing(linkOrder) = 0
    BY <1>2, LeverAssumption DEF LeverInv, OrderShape, MaxSwing
  <2>6. MaxSwing(order) \in Int /\ MaxSwing(order) >= 0
    <3>1. Len(order) \in Nat
      BY <2>2 DEF OrderOK
    <3> HIDE DEF OrderOK
    <3> QED BY <3>1, LeverAssumption DEF MaxSwing
  <2> QED BY <1>2, <2>1, <2>2, <2>4, <2>5, <2>6 DEF OrderOK
<1> QED BY <1>1, <1>2 DEF LeverInv, OrderShape

\* Unit is a multiple of the number of links.
LEMMA UnitDivides ==
  ASSUME NEW n \in Nat \ {0}, n <= Cardinality(Cabled) \div 2
  PROVE  \E q \in Nat \ {0} : Unit = n * q
<1>1. Cardinality(Cabled) \div 2 \in Int
  BY CabledFinite
<1>2. Unit % n = 0 /\ Unit \in Nat \ {0}
  BY <1>1, LeverAssumption
<1> QED BY <1>2, Divides

\* What an action makes of the deltas.
LEMMA DeltasOK ==
  ASSUME LeverInv, NEW order \in Seq(Pair), Len(order) <= Cardinality(Cabled) \div 2,
         NEW a \in [DOMAIN order -> Actions], a # <<>>
  PROVE  /\ DOMAIN order # {} /\ DOMAIN order = 1..Len(order)
         /\ Centred(a) \in [DOMAIN order -> Int]
         /\ \A i \in DOMAIN order : Previous(order, Centred(a), i) \in Int
         /\ Swing(order, Centred(a)) \in Nat
<1> DEFINE n == Len(order)
           d == Centred(a)
           S == DOMAIN order
<1>1. n \in Nat /\ S = 1..n
  OBVIOUS
<1>2. n # 0
  <2>1. CASE n = 0
    <3>1. S = {}
      BY <1>1, <2>1
    <3>2. a = <<>>
      BY <3>1
    <3> QED BY <3>2
  <2> QED BY <2>1
<1>3. n \in Nat \ {0} /\ S # {}
  <2>1. 1 \in S
    BY <1>1, <1>2
  <2> QED BY <1>1, <1>2, <2>1
<1> HIDE DEF n
<1>4. PICK q \in Nat \ {0} : Unit = n * q
  BY <1>3, UnitDivides DEF n
<1>5. d \in [S -> Int]
  <2>1. a \in [1..n -> Int]
    <3>1. Actions \subseteq Int
      BY LeverAssumption
    <3>2. a \in [S -> Int]
      BY <3>1
    <3> QED BY <1>1, <3>2
  <2>2. Centred(a) \in [1..n -> Int]
    BY <1>3, <1>4, <2>1, CentredSum
  <2> QED BY <1>1, <2>2
<1> HIDE DEF d, S
<1>6. ASSUME NEW i \in S PROVE Previous(order, d, i) \in Int
  <2> DEFINE Earlier == {j \in 1..i - 1 : order[j] = order[i]}
  <2>1. i \in Int /\ Earlier \subseteq S /\ IsFiniteSet(Earlier) /\ \A j \in Earlier : j \in Int
    <3>1. i \in 1..n
      BY <1>1
    <3>2. IsFiniteSet(1..n)
      BY <1>1, FS_Interval
    <3>3. Earlier \subseteq 1..n
      BY <1>1, <3>1
    <3> QED BY <1>1, <3>1, <3>2, <3>3, FS_Subset
  <2>2. order[i] \in Pair
    BY DEF S
  <2>3. mlDelta[order[i]] \in Int
    BY <2>2 DEF LeverInv, CostInv
  <2>4. CASE Earlier # {}
    <3> DEFINE E == Earlier
    <3>1. IsFiniteSet(E) /\ E # {} /\ \A j \in E : j \in Int
      BY <2>1, <2>4
    <3> HIDE DEF E
    <3>2. Max(E) \in E
      BY <3>1, MaxIn
    <3> QED BY <1>5, <2>1, <2>4, <3>2 DEF Previous, E
  <2>5. CASE Earlier = {}
    BY <2>3, <2>5 DEF Previous
  <2> QED BY <2>4, <2>5
<1>7. Swing(order, d) \in Nat
  <2> DEFINE w == [i \in S |-> Abs(d[i] - Previous(order, d, i))]
             z == [i \in S |-> 0]
             zero == 0
  <2>1. \A i \in S : w[i] \in Int /\ z[i] \in Int /\ z[i] <= w[i] /\ z[i] = zero
    BY <1>5, <1>6 DEF Abs
  <2>2. IsFiniteSet(S)
    BY <1>1, FS_Interval
  <2>3. zero \in Int /\ zero = 0
    OBVIOUS
  <2>4. Swing(order, d) = SumOver(w, S)
    BY <1>5 DEF Swing
  <2> HIDE DEF w, z, zero
  <2>5. SumOver(w, S) \in Int
    BY <2>1, <2>2, SumInt
  <2>6. SumOver(z, S) <= SumOver(w, S)
    BY <2>1, <2>2, SumMonotone
  <2>7. SumOver(z, S) = Cardinality(S) * zero
    BY <2>1, <2>2, <2>3, SumConstant
  <2>8. Cardinality(S) \in Nat
    BY <2>2, FS_CardinalityType
  <2> QED BY <2>3, <2>4, <2>5, <2>6, <2>7, <2>8
<1> QED BY <1>1, <1>3, <1>5, <1>6, <1>7 DEF S, d, n

\* A tick.
LEMMA TickStep ==
  ASSUME LeverInv, MlTick
  PROVE  CostInv' /\ LeverInForce' /\ OrderShape' /\ LastAction'
<1> DEFINE K == [e \in Pair |-> Effective(base'[e], congestion'[e], mlDelta'[e], scale')]
<1>0. \A e \in Pair : Composed(e)' = K[e]
  BY DEF Composed
<1> HIDE DEF K
<1>1. UNCHANGED <<linkVars, base, congestion>> /\ started' = TRUE /\ Freeze
  BY DEF MlTick
<1>2. /\ linkOrder' \in Seq(Pair)
      /\ Len(linkOrder') <= Cardinality(Cabled) \div 2
      /\ MaxSwing(linkOrder) \in Int /\ MaxSwing(linkOrder') \in Int
      /\ MaxSwing(linkOrder) <= MaxSwing(linkOrder')
      /\ scale' \in Nat
      /\ started => linkOrder' = linkOrder /\ scale' = scale
  BY <1>1, FreezeOK
<1>3. ASSUME mlDelta' \in [Pair -> Int],
             \A e \in Pair : cost[e] = None => cost'[e] = None,
             \A e \in Pair : cost[e] # None =>
               cost'[e] = K[e]
               \/ (cost'[e] = cost[e] /\ mlDelta'[e] = mlDelta[e] /\ scale' = scale),
             DOMAIN cost' = Pair, cost' = [e \in DOMAIN cost' |-> cost'[e]]
      PROVE  CostInv' /\ LeverInForce'
  <2>1. UNCHANGED <<links, graph, base, congestion>>
    BY <1>1 DEF linkVars
  <2>2. ASSUME NEW e \in Pair, cost[e] # None
        PROVE  K[e] \in Int /\ K[e] > 0 /\ K[e] # None
    <3>1. base'[e] \in Int /\ congestion'[e] \in Int /\ mlDelta'[e] \in Int /\ scale' \in Int
      BY <1>2, <1>3, <2>1, <2>2 DEF LeverInv, CostInv
    <3>2. K[e] \in Int /\ K[e] > 0
      BY <3>1, EffectivePositive DEF K
    <3> QED BY <3>2, CostAssumption
  <2>3. \A e \in Pair : /\ cost'[e] \in Int \cup {None}
                        /\ cost'[e] # None => cost'[e] > 0
                        /\ cost'[e] = None <=> cost[e] = None
    BY <1>3, <2>2 DEF LeverInv, CostInv
  <2>4. cost' \in [Pair -> Int \cup {None}]
    BY <1>3, <2>3
  <2>5. CostInv'
    BY <1>2, <1>3, <2>1, <2>3, <2>4 DEF LeverInv, CostInv
  <2>6. LeverInForce'
    <3> SUFFICES ASSUME NEW p \in Cabled, links'[p] # None,
                        \A q \in Cabled : Ends(q) = Ends(p) => SpeedKnown(q)
                 PROVE  cost'[Ends(p)] = Composed(Ends(p))'
      BY DEF LeverInForce
    <3>1. links[p] # None
      BY <2>1
    <3>2. Ends(p) \in Pair /\ cost[Ends(p)] # None
      BY <3>1, RecordedCost DEF LeverInv
    <3>3. cost[Ends(p)] = Composed(Ends(p))
      BY <3>1 DEF LeverInv, LeverInForce
    <3>4. CASE cost'[Ends(p)] = K[Ends(p)]
      BY <1>0, <3>2, <3>4
    <3>5. CASE UNCHANGED scale /\ cost'[Ends(p)] = cost[Ends(p)] /\ mlDelta'[Ends(p)] = mlDelta[Ends(p)]
      <4>1. K[Ends(p)] = Composed(Ends(p))
        BY <2>1, <3>2, <3>5 DEF K, Composed
      <4> QED BY <1>0, <3>2, <3>3, <3>5, <4>1
    <3> QED BY <1>3, <3>2, <3>4, <3>5
  <2> QED BY <2>5, <2>6
<1>4. CASE NoAction
  <2>1. UNCHANGED <<mlDelta, churn>>
    BY <1>4 DEF NoAction
  <2>3. /\ \A e \in Pair : cost[e] = None => cost'[e] = None
        /\ \A e \in Pair : cost[e] # None =>
             cost'[e] = K[e]
             \/ (cost'[e] = cost[e] /\ mlDelta'[e] = mlDelta[e] /\ scale' = scale)
        /\ DOMAIN cost' = Pair /\ cost' = [e \in DOMAIN cost' |-> cost'[e]]
    <3>1. CASE scale' # scale
      <4>1. cost' = [e \in Pair |-> IF cost[e] # None THEN Composed(e)' ELSE None]
        BY <1>4, <3>1 DEF NoAction
      <4>2. \A e \in Pair : cost'[e] = IF cost[e] # None THEN K[e] ELSE None
        BY <1>0, <4>1
      <4>3. DOMAIN cost' = Pair
        BY <4>1
      <4>4. cost' = [e \in DOMAIN cost' |-> cost'[e]]
        BY <4>1
      <4> QED BY <4>2, <4>3, <4>4
    <3>2. CASE scale' = scale
      <4>1. cost' = cost
        BY <1>4, <3>2 DEF NoAction
      <4> QED BY <2>1, <3>2, <4>1 DEF LeverInv, CostInv
    <3> QED BY <3>1, <3>2
  <2>4. CostInv' /\ LeverInForce'
    <3>1. mlDelta' \in [Pair -> Int]
      BY <2>1 DEF LeverInv, CostInv
    <3> QED BY <1>3, <2>3, <3>1
  <2>5. OrderShape'
    <3>1. churn' \in 0..MaxSwing(linkOrder')
      <4>1. churn \in 0..MaxSwing(linkOrder) /\ churn' = churn
        BY <2>1 DEF LeverInv, OrderShape
      <4> HIDE DEF MaxSwing
      <4> QED BY <1>2, <4>1
    <3> QED BY <1>1, <1>2, <3>1 DEF OrderShape, MaxSwing
  <2>6. LastAction'
    <3>1. CASE started
      <4>1. UNCHANGED <<linkOrder, mlDelta>>
        BY <1>2, <2>1, <3>1
      <4> QED BY <4>1 DEF LeverInv, LastAction, OnePerPair
    <3>2. CASE ~started
      <4> DEFINE S == DOMAIN linkOrder'
                 n == Len(linkOrder')
                 b == [i \in S |-> 0]
      <4>1. S = 1..n /\ n \in Nat /\ b \in [S -> -1..1] /\ b \in [1..n -> Int]
        BY <1>2
      <4>2. ASSUME NEW i \in S PROVE mlDelta'[linkOrder'[i]] = Centred(b)[i]
        <5>1. n \in Nat \ {0}
          BY <4>1
        <5> HIDE DEF n
        <5>2. PICK q \in Nat \ {0} : Unit = n * q
          BY <1>2, <5>1, UnitDivides DEF n
        <5>3. IsFiniteSet(1..n)
          BY <5>1, FS_Interval
        <5> DEFINE zero == 0
                   N == 1..n
        <5>4. zero \in Int /\ zero = 0 /\ N = S /\ IsFiniteSet(N)
          BY <4>1, <5>3
        <5> HIDE DEF zero, N
        <5>5. \A j \in N : b[j] = zero
          BY <5>4
        <5>6. SumOver(b, N) = Cardinality(N) * zero
          <6> HIDE DEF b
          <6> QED BY <5>4, <5>5, SumConstant
        <5>7. SumOver(b, 1..n) = 0
          <6>1. Cardinality(N) \in Nat
            BY <5>4, FS_CardinalityType
          <6> QED BY <5>4, <5>6, <6>1 DEF N
        <5>8. Centred(b) = [j \in 1..n |-> q * (n * b[j] - SumOver(b, 1..n))]
          <6> HIDE DEF b
          <6> QED BY <4>1, <5>1, <5>2, CentredIs
        <5>9. Centred(b)[i] = 0
          BY <4>1, <5>1, <5>7, <5>8
        <5>10. linkOrder'[i] \in Pair
          BY <1>2
        <5> QED BY <2>1, <3>2, <5>9, <5>10 DEF LeverInv, OrderShape
      <4> HIDE DEF b
      <4> QED BY <4>1, <4>2 DEF LastAction
    <3> QED BY <3>1, <3>2
  <2> QED BY <2>4, <2>5, <2>6
<1>5. ASSUME NEW a \in [DOMAIN linkOrder' -> Actions], a # <<>>, ApplyDeltaCosts(a)
      PROVE  CostInv' /\ LeverInForce' /\ OrderShape' /\ LastAction'
  <2> DEFINE S == DOMAIN linkOrder'
             d == Centred(a)
             Named(e)   == {i \in S : linkOrder'[i] = e}
             Changed(e) == \E i \in Named(e) : d[i] # Previous(linkOrder', d, i)
  <2>1. PICK order \in Seq(Pair) : order = linkOrder'
    BY <1>2
  <2>2. /\ S # {} /\ S = 1..Len(order)
        /\ d \in [S -> Int]
        /\ \A i \in S : Previous(order, d, i) \in Int
        /\ Swing(order, d) \in Nat
    BY <1>2, <1>5, <2>1, DeltasOK
  <2>3. /\ mlDelta' = [e \in Pair |-> IF Changed(e) THEN d[Max(Named(e))] ELSE mlDelta[e]]
        /\ cost' = [e \in Pair |->
                      IF cost[e] # None /\ (Changed(e) \/ scale' # scale)
                      THEN Composed(e)' ELSE cost[e]]
        /\ churn' = Min({Swing(linkOrder', d), MaxSwing(linkOrder')})
    <3>1. DOMAIN d = S
      BY <2>2
    <3> QED BY <1>5, <3>1 DEF ApplyDeltaCosts
  <2> HIDE DEF d, S
  <2>4. ASSUME NEW e \in Pair, Named(e) # {}
        PROVE  Max(Named(e)) \in Named(e)
    <3> DEFINE E == Named(e)
    <3>1. IsFiniteSet(1..Len(order))
      BY <2>1, FS_Interval
    <3>2. E \subseteq 1..Len(order)
      BY <2>2
    <3>3. IsFiniteSet(E) /\ E # {} /\ \A j \in E : j \in Int
      BY <2>4, <3>1, <3>2, FS_Subset
    <3> HIDE DEF E
    <3>4. Max(E) \in E
      BY <3>3, MaxIn
    <3> QED BY <3>4 DEF E
  <2>5. mlDelta' \in [Pair -> Int]
    <3>1. ASSUME NEW e \in Pair, Changed(e) PROVE d[Max(Named(e))] \in Int
      <4>1. Max(Named(e)) \in Named(e)
        BY <2>4, <3>1
      <4>2. Max(Named(e)) \in S
        BY <4>1
      <4> QED BY <2>2, <4>2
    <3>2. \A e \in Pair : mlDelta[e] \in Int
      BY DEF LeverInv, CostInv
    <3> HIDE DEF Changed, Named
    <3> QED BY <2>3, <3>1, <3>2
  <2>6. CostInv' /\ LeverInForce'
    <3> HIDE DEF Changed, Named
    <3>1. \A e \in Pair : ~Changed(e) => mlDelta'[e] = mlDelta[e]
      BY <2>3
    <3>2. \A e \in Pair : cost'[e] = IF cost[e] # None /\ (Changed(e) \/ scale' # scale)
                                     THEN K[e] ELSE cost[e]
      BY <1>0, <2>3
    <3>3. DOMAIN cost' = Pair /\ cost' = [e \in DOMAIN cost' |-> cost'[e]]
      BY <2>3
    <3>4. \A e \in Pair : cost[e] = None => cost'[e] = None
      BY <3>2
    <3>5. \A e \in Pair : cost[e] # None =>
            cost'[e] = K[e]
            \/ (cost'[e] = cost[e] /\ mlDelta'[e] = mlDelta[e] /\ scale' = scale)
      BY <3>1, <3>2
    <3> QED BY <1>3, <2>5, <3>3, <3>4, <3>5
  <2>7. OrderShape'
    <3>1. churn' \in 0..MaxSwing(linkOrder')
      <4> DEFINE s == Swing(order, d)
                 m == MaxSwing(order)
      <4>1. s \in Nat /\ m \in Int /\ m >= 0
        <5>1. 0 <= MaxSwing(linkOrder)
          BY LeverAssumption DEF MaxSwing, LeverInv, OrderShape
        <5> HIDE DEF MaxSwing
        <5> QED BY <1>2, <2>1, <2>2, <5>1
      <4> HIDE DEF s, m
      <4>2. Min({s, m}) \in 0..m
        BY <4>1, MinOfTwo
      <4> QED BY <2>1, <2>3, <4>2 DEF s, m
    <3> QED BY <1>1, <1>2, <3>1 DEF OrderShape, MaxSwing
  <2>8. LastAction'
    <3> SUFFICES ASSUME OnePerPair'
                 PROVE  \A i \in S : mlDelta'[linkOrder'[i]] = d[i]
      <4>1. a \in [DOMAIN linkOrder' -> -1..1]
        BY LeverAssumption
      <4> QED BY <4>1 DEF LastAction, S, d
    <3>1. \A i, j \in S : linkOrder'[i] = linkOrder'[j] => i = j
      BY DEF OnePerPair, S
    <3> TAKE i \in S
    <3> DEFINE e == linkOrder'[i]
    <3>2. e \in Pair
      BY <1>2 DEF S
    <3>3. Named(e) = {i} /\ i \in Int
      BY <2>2, <3>1
    <3>4. Previous(linkOrder', d, i) = mlDelta[e]
      <4>1. {j \in 1..i - 1 : linkOrder'[j] = linkOrder'[i]} = {}
        <5> SUFFICES ASSUME NEW j \in 1..i - 1, linkOrder'[j] = linkOrder'[i] PROVE FALSE
          OBVIOUS
        <5>1. i \in 1..Len(order) /\ Len(order) \in Nat
          BY <2>1, <2>2
        <5>2. j \in S /\ j # i
          BY <2>2, <5>1
        <5> QED BY <3>1, <5>2
      <4> QED BY <2>1, <4>1 DEF Previous
    <3>5. CASE Changed(e)
      <4>1. Max(Named(e)) = i
        BY <2>4, <3>2, <3>3
      <4> QED BY <2>3, <3>2, <3>5, <4>1
    <3>6. CASE ~Changed(e)
      <4>1. d[i] = mlDelta[e]
        BY <3>3, <3>4, <3>6
      <4> HIDE DEF Changed
      <4> QED BY <2>3, <3>2, <3>6, <4>1
    <3> QED BY <3>5, <3>6
  <2> QED BY <2>6, <2>7, <2>8
<1> QED BY <1>4, <1>5 DEF MlTick

(* Every step of the lever keeps the invariant.                              *)
LEMMA LeverStep == LeverInv /\ [LeverNext]_allVars => LeverInv'
<1> SUFFICES ASSUME LeverInv, [LeverNext]_allVars PROVE LeverInv'
  OBVIOUS
<1>1. LinkInv'
  BY LeverLinkInvStep DEF LeverInv
<1>2. ASSUME NEW p \in Cabled, NEW c \in BaseCosts, HandleLldpPacket(p, c) PROVE LeverInv'
  <2>1. CostInv' /\ LeverInForce'
    BY <1>2, DiscoveryStep
  <2>2. UNCHANGED <<mlDelta, blocked, started, linkOrder, churn>>
        /\ (pathCache' = pathCache \/ pathCache' = EmptyCache)
    BY <1>2 DEF HandleLldpPacket, leverVars
  <2>3. CacheShape' /\ blocked' \in SUBSET Switch
    BY <2>2 DEF LeverInv, CacheShape, EmptyCache
  <2>4. OrderShape' /\ LastAction'
    BY <2>2 DEF LeverInv, OrderShape, LastAction, OnePerPair
  <2> QED BY <1>1, <2>1, <2>3, <2>4 DEF LeverInv
<1>3. ASSUME NEW p \in Cabled, PortDeleted(p) PROVE LeverInv'
  <2>1. CostInv' /\ LeverInForce'
    BY <1>3, PortDeletedStep
  <2>2. UNCHANGED <<mlDelta, blocked, started, linkOrder, churn>>
        /\ (pathCache' = pathCache \/ pathCache' = EmptyCache)
    BY <1>3 DEF PortDeleted, RemoveTopologyPort, layerVars, leverVars
  <2>3. CacheShape' /\ blocked' \in SUBSET Switch
    BY <2>2 DEF LeverInv, CacheShape, EmptyCache
  <2>4. OrderShape' /\ LastAction'
    BY <2>2 DEF LeverInv, OrderShape, LastAction, OnePerPair
  <2> QED BY <1>1, <2>1, <2>3, <2>4 DEF LeverInv
<1>4. CASE MlTick
  <2>1. CostInv' /\ LeverInForce' /\ OrderShape' /\ LastAction'
    BY <1>4, TickStep
  <2>2. pathCache' = EmptyCache /\ blocked' = blocked
    BY <1>4 DEF MlTick
  <2>3. CacheShape' /\ blocked' \in SUBSET Switch
    BY <2>2 DEF LeverInv, CacheShape, EmptyCache
  <2> QED BY <1>1, <2>1, <2>3 DEF LeverInv
<1>5. CASE UNCHANGED allVars
  <2>1. CostInv' /\ LeverInForce' /\ CacheShape' /\ blocked' \in SUBSET Switch
    BY <1>5 DEF LeverInv, allVars, vars, linkVars, layerVars, CostInv, LeverInForce, Composed, CacheShape
  <2>2. OrderShape' /\ LastAction'
    BY <1>5 DEF LeverInv, allVars, vars, layerVars, leverVars, OrderShape, LastAction, OnePerPair
  <2> QED BY <1>1, <2>1, <2>2 DEF LeverInv
<1> QED BY <1>2, <1>3, <1>4, <1>5 DEF LeverNext

(* The invariant holds throughout.                                           *)
LEMMA LeverInvAlways == LeverSpec => []LeverInv
BY LeverInitInv, LeverStep, PTL DEF LeverSpec

(* Types of every state of the lever, with the churn within its bound.       *)
THEOREM LeverTypes == LeverSpec => []LeverTypeOK
<1>1. LeverInv => LeverTypeOK
  BY DEF LeverInv, LinkInv, CostInv, CacheShape, OrderShape, TypeOK, LeverTypeOK
<1> QED BY <1>1, LeverInvAlways, PTL

(* The cost of every edge is what its layers compose to, with the last       *)
(* action among them, whatever was lost and discovered since.                *)
THEOREM LeverAlwaysInForce == LeverSpec => []LeverInForce
<1>1. LeverInv => LeverInForce
  BY DEF LeverInv
<1> QED BY <1>1, LeverInvAlways, PTL

(* What an action gives some links it takes from others, rounding included.  *)
THEOREM DeltasAlwaysBalance == LeverSpec => []DeltasBalance
<1>1. ASSUME LeverInv, OnePerPair
      PROVE  SumOver([i \in DOMAIN linkOrder |-> mlDelta[linkOrder[i]]], DOMAIN linkOrder) = 0
  <2> DEFINE n == Len(linkOrder)
             S == DOMAIN linkOrder
             m == [i \in S |-> mlDelta[linkOrder[i]]]
  <2>1. PICK b \in [S -> -1..1] : \A i \in S : mlDelta[linkOrder[i]] = Centred(b)[i]
    BY <1>1 DEF LeverInv, LastAction
  <2>2. n \in Nat /\ S = 1..n /\ IsFiniteSet(S)
    <3>1. n \in Nat /\ S = 1..n
      BY <1>1 DEF LeverInv, OrderShape
    <3> QED BY <3>1, FS_Interval
  <2>3. n <= Cardinality(Cabled) \div 2
    BY <1>1 DEF LeverInv, OrderShape
  <2>4. \A i \in S : m[i] \in Int /\ m[i] = Centred(b)[i]
    BY <1>1, <2>1 DEF LeverInv, OrderShape, CostInv
  <2> HIDE DEF m, n, S
  <2>5. CASE n = 0
    <3>1. S = {}
      BY <2>2, <2>5
    <3> QED BY <3>1, SumEmpty DEF m, S
  <2>6. CASE n # 0
    <3>1. n \in Nat \ {0}
      BY <2>2, <2>6
    <3>2. PICK q \in Nat \ {0} : Unit = n * q
      BY <2>3, <3>1, UnitDivides
    <3>3. SumOver(Centred(b), 1..n) = 0
      <4>1. b \in [1..n -> Int]
        BY <2>2
      <4> QED BY <3>1, <3>2, <4>1, CentredSum
    <3>4. SumOver(m, S) = SumOver(Centred(b), S)
      <4> DEFINE d == Centred(b)
      <4>1. \A i \in S : m[i] \in Int /\ d[i] = m[i]
        BY <2>4
      <4> HIDE DEF d
      <4> QED BY <2>2, <4>1, SumEqual DEF d
    <3> QED BY <2>2, <3>3, <3>4 DEF m, S
  <2> QED BY <2>5, <2>6
<1>2. LeverInv => DeltasBalance
  BY <1>1 DEF DeltasBalance
<1> QED BY <1>2, LeverInvAlways, PTL

(* No action whatever swings the deltas further than the churn is normalised *)
(* by, so the clamp on the churn never hides a larger swing.                 *)
THEOREM ChurnAlwaysWithinSwing == LeverSpec => []ChurnWithinSwing
<1>1. ASSUME LeverInv, OnePerPair, NEW a \in [DOMAIN linkOrder -> Actions]
      PROVE  Swing(linkOrder, Centred(a)) <= MaxSwing(linkOrder)
  <2> DEFINE n == Len(linkOrder)
             S == DOMAIN linkOrder
             d == Centred(a)
             w == [i \in DOMAIN d |-> Abs(d[i] - Previous(linkOrder, d, i))]
  <2>1. PICK b \in [S -> -1..1] : \A i \in S : mlDelta[linkOrder[i]] = Centred(b)[i]
    BY <1>1 DEF LeverInv, LastAction
  <2>2. n \in Nat /\ S = 1..n /\ linkOrder \in Seq(Pair)
    BY <1>1 DEF LeverInv, OrderShape
  <2>3. n <= Cardinality(Cabled) \div 2
    BY <1>1 DEF LeverInv, OrderShape
  <2>4. a \in [1..n -> -1..1] /\ b \in [1..n -> -1..1] /\ DOMAIN d = S
    BY <2>1, <2>2, LeverAssumption DEF Centred
  <2>5. \A i \in S : Previous(linkOrder, d, i) = Centred(b)[i]
    <3> TAKE i \in S
    <3>1. \A j, k \in S : linkOrder[j] = linkOrder[k] => j = k
      BY <1>1 DEF OnePerPair
    <3>2. {j \in 1..i - 1 : linkOrder[j] = linkOrder[i]} = {}
      <4> SUFFICES ASSUME NEW j \in 1..i - 1, linkOrder[j] = linkOrder[i] PROVE FALSE
        OBVIOUS
      <4>1. i \in 1..n
        BY <2>2
      <4>2. j \in S /\ j # i
        BY <2>2, <4>1
      <4> QED BY <3>1, <4>2
    <3> QED BY <2>1, <3>2 DEF Previous
  <2>6. Swing(linkOrder, d) = SumOver([i \in S |-> Abs(d[i] - Centred(b)[i])], S)
    <3>1. Swing(linkOrder, d) = SumOver(w, S)
      BY <2>4 DEF Swing
    <3>2. w = [i \in S |-> Abs(d[i] - Centred(b)[i])]
      <4> HIDE DEF d, S
      <4> QED BY <2>4, <2>5
    <3> QED BY <3>1, <3>2
  <2> HIDE DEF n, S
  <2>7. CASE n = 0
    <3>1. S = {}
      BY <2>2, <2>7
    <3>2. MaxSwing(linkOrder) = 0
      BY <2>7, LeverAssumption DEF MaxSwing, n
    <3> QED BY <2>6, <3>1, <3>2, SumEmpty
  <2>8. CASE n # 0
    <3>1. n \in Nat \ {0}
      BY <2>2, <2>8
    <3>2. PICK q \in Nat \ {0} : Unit = n * q
      BY <2>3, <3>1, UnitDivides
    <3>3. SumOver([i \in 1..n |-> Abs(Centred(a)[i] - Centred(b)[i])], 1..n) <= 2 * Unit * n
      BY <2>4, <3>1, <3>2, SwingBound
    <3>4. MaxSwing(linkOrder) = 2 * Unit * n
      BY DEF MaxSwing, n
    <3> QED BY <2>2, <2>6, <3>3, <3>4
  <2> QED BY <2>7, <2>8
<1>2. LeverInv => ChurnWithinSwing
  BY <1>1 DEF ChurnWithinSwing
<1> QED BY <1>2, LeverInvAlways, PTL
=============================================================================
