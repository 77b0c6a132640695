------------------------------ MODULE Topology ------------------------------
(***************************************************************************)
(* Class Topology (src/libs/controller/topology.cc): the link database     *)
(* with its layered link costs, its blocked switches and its path cache.   *)
(*                                                                         *)
(* Costs are integers, multiples of a quantum; Epsilon is the small        *)
(* positive value (1e-3 in the code) that replaces a cost that is not      *)
(* positive.  Every setter writes both directions of a pair with the same  *)
(* value, so the maps are keyed by the unordered pair of switches.         *)
(* Delays and capacities are left out: no operation of the class reads     *)
(* them to decide anything.                                                *)
(***************************************************************************)
EXTENDS LinkMap, Paths, Sums

CONSTANTS BaseCosts,    \* base costs AddLink and SetLinkBaseCost may receive
          Congestions,  \* congestion factors SetLinkCongestion may receive
          Deltas,       \* ML deltas SetLinkMlDelta may receive
          Scales,       \* absolute scales SetMlAbsCostScale may receive
          DirectCosts,  \* costs SetLinkCost may receive
          BlockedSets,  \* sets of switches SetBlockedNodes may receive
          Epsilon

ASSUME CostAssumption ==
  /\ BaseCosts \cup Congestions \cup Deltas \cup Scales \cup DirectCosts \subseteq Int
  /\ BlockedSets \subseteq SUBSET Switch
  /\ Epsilon \in Nat \ {0}
  /\ None \notin Int \cup Seq(Switch)

\* The pairs of switches a link cost can be stored for.
Pair == {{At[p], At[Peer[p]]} : p \in Cabled}
Ends(p) == {At[p], At[Peer[p]]}

VARIABLES
  cost,        \* m_linkCost: the effective cost, what Dijkstra uses
  base,        \* m_baseLinkCost
  congestion,  \* m_linkCongestion
  mlDelta,     \* m_linkMlDelta
  scale,       \* m_mlAbsCostScale
  blocked,     \* m_blockedNodes
  pathCache    \* m_pathCache: src -> dst -> path, <<>> for a cached miss

layerVars == <<base, congestion, mlDelta, scale>>
vars == <<linkVars, cost, layerVars, blocked, pathCache>>

EmptyCache == [s \in Switch |-> [d \in Switch |-> None]]

Init ==
  /\ LinkInit
  /\ cost = [e \in Pair |-> None]
  /\ base = [e \in Pair |-> None]
  /\ congestion = [e \in Pair |-> 0]
  /\ mlDelta = [e \in Pair |-> 0]
  /\ scale = 0
  /\ blocked = {}
  /\ pathCache = EmptyCache

-----------------------------------------------------------------------------
\* Mutants of Positive and NonNegative: the clamp is dropped.
Unclamped(x) == x

\* A cost that is not positive becomes Epsilon.
Positive(x) == IF x > 0 THEN x ELSE Epsilon

\* std::max(0.0, x).
NonNegative(x) == IF x >= 0 THEN x ELSE 0

\* RecomputeCost: additive in the delta once a scale is set, multiplicative
\* before.  The layers are those after the caller's own assignment.
Effective(b, c, d, sc) ==
  Positive(IF sc > 0 THEN b * (1 + c) + sc * d
                     ELSE b * (1 + c) * (1 + d))

Composed(e) == Effective(base[e], congestion[e], mlDelta[e], scale)

\* A new link overwrites the pair's cost and base cost with the same value,
\* positive by ComputeBaseCost; the congestion and the delta of the pair are
\* not touched.
AddTopologyLink(p, c) ==
  /\ AddLink(p, Peer[p])
  /\ IF AlreadyKnown(p, Peer[p])
     THEN UNCHANGED <<cost, base, pathCache>>
     ELSE /\ cost' = [cost EXCEPT ![Ends(p)] = c]
          /\ base' = [base EXCEPT ![Ends(p)] = c]
          /\ pathCache' = EmptyCache
  /\ UNCHANGED <<congestion, mlDelta, scale, blocked>>

\* Mutant of RemoveTopologyPort: the path cache outlives the link.
RemoveTopologyPortCached(p) ==
  /\ RemovePort(p)
  /\ UNCHANGED <<cost, layerVars, blocked, pathCache>>

\* No cost of a removed link is forgotten.
RemoveTopologyPort(p) ==
  /\ RemovePort(p)
  /\ pathCache' = IF links[p] = None THEN pathCache ELSE EmptyCache
  /\ UNCHANGED <<cost, layerVars, blocked>>

SetLinkCost(e, c) ==
  /\ cost[e] # None
  /\ cost' = [cost EXCEPT ![e] = Positive(c)]
  /\ pathCache' = EmptyCache
  /\ UNCHANGED <<linkVars, layerVars, blocked>>

ResetLinkCosts ==
  /\ congestion' = [e \in Pair |-> 0]
  /\ mlDelta' = [e \in Pair |-> 0]
  /\ cost' = [e \in Pair |-> IF base[e] # None THEN base[e] ELSE cost[e]]
  /\ pathCache' = EmptyCache
  /\ UNCHANGED <<linkVars, base, scale, blocked>>

\* The three layer setters end in RecomputeCost.
Recompute(e) ==
  /\ UNCHANGED <<linkVars, scale, blocked>>
  /\ cost' = [cost EXCEPT ![e] = Composed(e)']
  /\ pathCache' = EmptyCache

SetLinkBaseCost(e, b) ==
  /\ base[e] # None
  /\ base' = [base EXCEPT ![e] = Positive(b)]
  /\ UNCHANGED <<congestion, mlDelta>>
  /\ Recompute(e)

SetLinkCongestion(e, c) ==
  /\ cost[e] # None
  /\ congestion' = [congestion EXCEPT ![e] = NonNegative(c)]
  /\ UNCHANGED <<base, mlDelta>>
  /\ Recompute(e)

SetLinkMlDelta(e, d) ==
  /\ cost[e] # None
  /\ mlDelta' = [mlDelta EXCEPT ![e] = d]
  /\ UNCHANGED <<base, congestion>>
  /\ Recompute(e)

\* Mutant of SetMlAbsCostScale: existing links keep the old composition.
SetMlAbsCostScaleLazy(x) ==
  /\ scale # NonNegative(x)
  /\ scale' = NonNegative(x)
  /\ pathCache' = EmptyCache
  /\ UNCHANGED <<linkVars, cost, base, congestion, mlDelta, blocked>>

\* A new scale recomposes every link cost.
SetMlAbsCostScale(x) ==
  /\ scale # NonNegative(x)
  /\ scale' = NonNegative(x)
  /\ UNCHANGED <<linkVars, base, congestion, mlDelta, blocked>>
  /\ cost' = [e \in Pair |-> IF cost[e] # None THEN Composed(e)' ELSE None]
  /\ pathCache' = EmptyCache

SetBlockedNodes(B) ==
  /\ B # blocked
  /\ blocked' = B
  /\ pathCache' = EmptyCache
  /\ UNCHANGED <<linkVars, cost, layerVars>>

-----------------------------------------------------------------------------
RouteCost(cst, r) ==
  LET Hops == 1..Len(r) - 1
  IN  SumOver([i \in Hops |-> cst[{r[i], r[i + 1]}]], Hops)

\* What Dijkstra computes: any cheapest route, ties broken by hash order.
ShortestRoutes(g, bl, cst, s, d) ==
  LET R == Routes(g, bl, s, d)
  IN  {r \in R : \A t \in R : RouteCost(cst, r) <= RouteCost(cst, t)}

Answers(s, d) ==
  LET R == ShortestRoutes(graph, blocked, cost, s, d)
  IN  IF R = {} THEN {<<>>} ELSE R

\* A query that is not in the cache is computed and cached, misses included.
\* A query from a switch to itself is answered before the cache is read.
ShortestPath(s, d) ==
  /\ s # d /\ pathCache[s][d] = None
  /\ \E r \in Answers(s, d) : pathCache' = [pathCache EXCEPT ![s][d] = r]
  /\ UNCHANGED <<linkVars, cost, layerVars, blocked>>

Next ==
  \/ \E p \in Cabled, c \in BaseCosts : c > 0 /\ AddTopologyLink(p, c)
  \/ \E p \in Port : RemoveTopologyPort(p)
  \/ \E e \in Pair, c \in DirectCosts : SetLinkCost(e, c)
  \/ ResetLinkCosts
  \/ \E e \in Pair, b \in BaseCosts : SetLinkBaseCost(e, b)
  \/ \E e \in Pair, c \in Congestions : SetLinkCongestion(e, c)
  \/ \E e \in Pair, d \in Deltas : SetLinkMlDelta(e, d)
  \/ \E x \in Scales : SetMlAbsCostScale(x)
  \/ \E B \in BlockedSets : SetBlockedNodes(B)
  \/ \E s, d \in Switch : ShortestPath(s, d)

Spec == Init /\ [][Next]_vars

-----------------------------------------------------------------------------
TypeOK ==
  /\ LinkTypeOK
  /\ cost \in [Pair -> Int \cup {None}]
  /\ base \in [Pair -> Int \cup {None}]
  /\ congestion \in [Pair -> Nat]
  /\ mlDelta \in [Pair -> Int]
  /\ scale \in Nat
  /\ blocked \in SUBSET Switch
  /\ pathCache \in [Switch -> [Switch -> Seq(Switch) \cup {None}]]

(* Dijkstra needs a strictly positive cost on every edge it can follow,     *)
(* whatever deltas, congestion and scales were applied, in any order.       *)
CostsPositive ==
  \A s, d \in Switch : d \in graph[s] =>
    cost[{s, d}] # None /\ cost[{s, d}] > 0

(* A cached answer is the answer a fresh computation would give: no stale   *)
(* path survives a change of links, of costs or of the blocked set, and no  *)
(* stale miss hides a path that has appeared.                               *)
CacheCoherent ==
  \A s, d \in Switch : pathCache[s][d] # None => pathCache[s][d] \in Answers(s, d)

(* The first hops of cheapest routes to a switch, taken from every switch    *)
(* that has one and however ties are broken, never chase each other in a     *)
(* circle or enter a blocked switch.  The forwarding model relies on it.     *)
FirstHopsConverge ==
  \A d \in Switch :
    LET Cheapest(s) == ShortestRoutes(graph, blocked, cost, s, d)
        Routed      == {s \in Switch \ {d} : Cheapest(s) # {}}
    IN  \A nxt \in [Routed -> Switch] :
          (\A s \in Routed : \E r \in Cheapest(s) : nxt[s] = r[2])
            => nxt \in NextHops(graph, blocked, d)

(* A link's cost is the composition of its layers, as the class comment says, *)
(* or it is still the base cost that its last discovery wrote over them.     *)
CostsComposedOrBase ==
  \A s, d \in Switch : d \in graph[s] =>
    cost[{s, d}] \in {Composed({s, d}), base[{s, d}]}
=============================================================================
