------------------------------- MODULE Paths -------------------------------
(***************************************************************************)
(* What the graph algorithms of class Topology return, stated without the  *)
(* priority queue and the FIFO queue that compute it.  A graph g maps each *)
(* switch to the set of its neighbours; bl is the set of blocked switches. *)
(* Each operator is the set of answers the code may give, because ties are *)
(* broken by the iteration order of a hash set.                            *)
(***************************************************************************)
EXTENDS Integers, Sequences, FiniteSetsExt

\* Routes that may start or end at a blocked switch but never pass through
\* one; with arbitrary positive costs any of them may be the shortest.
Routes(g, bl, s, d) ==
  {r \in UNION {[1..n -> DOMAIN g] : n \in 1..Cardinality(DOMAIN g)} :
     /\ r[1] = s /\ r[Len(r)] = d
     /\ \A i, j \in 1..Len(r) : r[i] = r[j] => i = j
     /\ \A i \in 1..Len(r) - 1 : r[i + 1] \in g[r[i]]
     /\ \A i \in 2..Len(r) - 1 : r[i] \notin bl}

\* Ball(g, via, d)[k]: the switches within k hops of d, going through
\* switches of via only.
Ball(g, via, d) ==
  LET B[k \in 0..Cardinality(DOMAIN g)] ==
        IF k = 0 THEN {d} ELSE B[k - 1] \cup UNION {g[u] : u \in B[k - 1] \cap via}
  IN  B

Reach(g, via, d) == Ball(g, via, d)[Cardinality(DOMAIN g)]

\* No nonempty set of switches on which nxt is closed: nxt leads out of every
\* cycle, so it leads out of its domain.
Acyclic(nxt) ==
  \A C \in SUBSET DOMAIN nxt : C # {} => \E v \in C : nxt[v] \notin C

\* First hops towards d of shortest routes taken from every switch that has a
\* route, under one assignment of positive costs: each hop brings d nearer, so
\* the hops form no cycle.
NextHops(g, bl, d) ==
  LET R == Reach(g, (DOMAIN g \ bl) \cup {d}, d)
  IN  {nxt \in [R \ {d} -> R] :
         /\ \A v \in R \ {d} : nxt[v] \in g[v] /\ (nxt[v] \in bl => nxt[v] = d)
         /\ Acyclic(nxt)}

\* Breadth-first trees over the unblocked switches, from the least one that
\* has a neighbour; a tree is the function from a switch to its parent.
BreadthFirstTrees(g, bl) ==
  LET Roots == {s \in DOMAIN g : s \notin bl /\ g[s] # {}}
      B     == Ball([s \in DOMAIN g |-> g[s] \ bl], DOMAIN g, Min(Roots))
      Found == B[Cardinality(DOMAIN g)]
  IN  IF Roots = {} THEN {<<>>}
      ELSE {par \in [Found \ {Min(Roots)} -> Found] :
              \A v \in DOMAIN par :
                /\ par[v] \in DOMAIN g \ bl /\ v \in g[par[v]] \ bl
                /\ \E k \in DOMAIN B : par[v] \in B[k] /\ v \notin B[k]}
=============================================================================
