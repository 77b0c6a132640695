------------------------------- MODULE Lever -------------------------------
(***************************************************************************)
(* How the agent's actions become link costs: the part of MlTick and       *)
(* ApplyDeltaCosts (src/libs/controller/zmq-openflow-controller.cc) that   *)
(* works on class Topology, with the discoveries and port changes that go  *)
(* on between the ticks.                                                   *)
(*                                                                         *)
(* An action is a value per link, a multiple of action_scale; its deviation *)
(* from the mean of the action is counted in Unit-ths, as base costs are,  *)
(* so that all arithmetic is on integers.  Paths, and with them the path   *)
(* cache and the blocked switches, are left to modules Topology and        *)
(* Controller.  The exchange with the service is in module MlBridge.       *)
(***************************************************************************)
EXTENDS Topology, SequencesExt

CONSTANTS Speed,    \* ports whose speed a port description has reported
          Actions,  \* values an agent gives a link
          Unit      \* fractions of a value that a mean can come out at

ASSUME LeverAssumption ==
  /\ Speed \subseteq Port
  /\ Actions \subseteq -1..1
  /\ Unit \in Nat \ {0}
  /\ \A n \in 1..Cardinality(Cabled) \div 2 : Unit % n = 0
  /\ \A c \in BaseCosts : c > 0 /\ c % Unit = 0

VARIABLES
  started,    \* m_mlTick > 0
  linkOrder,  \* m_mlLinkOrder: the pair of switches of every link
  churn       \* m_lastChurnNorm, times MaxSwing

leverVars == <<started, linkOrder, churn>>
allVars == <<vars, leverVars>>

LeverInit ==
  /\ Init
  /\ started = FALSE
  /\ linkOrder = <<>>
  /\ churn = 0

SpeedKnown(p) == p \in Speed \/ Peer[p] \in Speed

-----------------------------------------------------------------------------
\* Mutant of DiscoveredCost: the base cost is set without recomposing.
DiscoveredCostBase(p, c) == c

\* AddLink writes the base cost over the composed cost, SetLinkBaseCost, for
\* which a speed must be known, composes it again.
DiscoveredCost(p, c) ==
  IF SpeedKnown(p) THEN Effective(c, congestion[Ends(p)], mlDelta[Ends(p)], scale)
  ELSE c

\* HandleLldpPacket.
HandleLldpPacket(p, c) ==
  /\ AddLink(p, Peer[p])
  /\ IF AlreadyKnown(p, Peer[p])
     THEN UNCHANGED <<cost, base, pathCache>>
     ELSE /\ cost' = [cost EXCEPT ![Ends(p)] = DiscoveredCost(p, c)]
          /\ base' = [base EXCEPT ![Ends(p)] = c]
          /\ pathCache' = EmptyCache
  /\ UNCHANGED <<congestion, mlDelta, scale, blocked, leverVars>>

PortDeleted(p) == RemoveTopologyPort(p) /\ UNCHANGED leverVars

-----------------------------------------------------------------------------
\* GetAllLinks lists every link once, in hash order; of each the order keeps
\* the pair of switches.
LinkOrders ==
  LET Recorded == {{p, links[p]} : p \in linkPorts}
  IN  {[i \in DOMAIN q |-> {At[p] : p \in q[i]}] : q \in SetToSeqs(Recorded)}

\* The upper median of the base costs of the links, or 1.
Median(order) ==
  LET At_(i)   == base[order[i]]
      Below(i) == Cardinality({j \in DOMAIN order : At_(j) < At_(i)})
      UpTo(i)  == Cardinality({j \in DOMAIN order : At_(j) <= At_(i)})
      k        == Len(order) \div 2
  IN  IF order = <<>> THEN Unit
      ELSE At_(CHOOSE i \in DOMAIN order : Below(i) <= k /\ UpTo(i) > k)

\* The first tick freezes the order of links and the scale of the deltas.
Freeze ==
  IF started THEN UNCHANGED <<linkOrder, scale>>
  ELSE /\ linkOrder' \in LinkOrders
       /\ scale' = Median(linkOrder') \div Unit

\* Mutant of Centred: the action is used as it is.
CentredRaw(a) == [i \in DOMAIN a |-> Unit * a[i]]

\* The deviation of every value from the mean.
Centred(a) ==
  [i \in DOMAIN a |-> (Unit * (Len(a) * a[i] - SumOver(a, DOMAIN a))) \div Len(a)]

\* The delta link i has when its turn comes: that of the last link before it
\* between the same switches, or what the tick before has left.
Previous(order, d, i) ==
  LET Earlier == {j \in 1..i - 1 : order[j] = order[i]}
  IN  IF Earlier = {} THEN mlDelta[order[i]] ELSE d[Max(Earlier)]

Abs(x) == IF x < 0 THEN -x ELSE x

\* Mutant of Swing: the differences are summed with their signs.
SwingSigned(order, d) ==
  SumOver([i \in DOMAIN d |-> d[i] - Previous(order, d, i)], DOMAIN d)

\* How far an action swings the deltas, link by link, and how far any could.
Swing(order, d) ==
  SumOver([i \in DOMAIN d |-> Abs(d[i] - Previous(order, d, i))], DOMAIN d)

\* Mutant of MaxSwing: the swing from the middle.
MaxSwingHalf(order) == Unit * Len(order)

MaxSwing(order) == 2 * Unit * Len(order)

\* ApplyDeltaCosts: only deltas that change are set and recomposed.
ApplyDeltaCosts(a) ==
  LET d == Centred(a)
      Named(e)   == {i \in DOMAIN d : linkOrder'[i] = e}
      Changed(e) == \E i \in Named(e) : d[i] # Previous(linkOrder', d, i)
  IN  /\ mlDelta' = [e \in Pair |-> IF Changed(e) THEN d[Max(Named(e))] ELSE mlDelta[e]]
      /\ cost' = [e \in Pair |->
                    IF cost[e] # None /\ (Changed(e) \/ scale' # scale)
                    THEN Composed(e)' ELSE cost[e]]
      /\ churn' = Min({Swing(linkOrder', d), MaxSwing(linkOrder')})

\* No reply came in time, or it held no action.
NoAction ==
  /\ UNCHANGED <<mlDelta, churn>>
  /\ cost' = IF scale' # scale
             THEN [e \in Pair |-> IF cost[e] # None THEN Composed(e)' ELSE None]
             ELSE cost

\* The service answers with a value for each link the hello has told it of.
MlTick ==
  /\ UNCHANGED <<linkVars, base, congestion, blocked>>
  /\ pathCache' = EmptyCache
  /\ started' = TRUE
  /\ Freeze
  /\ \/ NoAction
     \/ \E a \in [DOMAIN linkOrder' -> Actions] : a # <<>> /\ ApplyDeltaCosts(a)

LeverNext ==
  \/ \E p \in Cabled, c \in BaseCosts : HandleLldpPacket(p, c)
  \/ \E p \in Cabled : PortDeleted(p)
  \/ MlTick

LeverSpec == LeverInit /\ [][LeverNext]_allVars

-----------------------------------------------------------------------------
LeverTypeOK ==
  /\ TypeOK
  /\ started \in BOOLEAN
  /\ linkOrder \in Seq(Pair)
  /\ churn \in 0..MaxSwing(linkOrder)

(* The last action stays in force whatever is lost and discovered after it: *)
(* the cost of an edge is always the composition of its layers, where the   *)
(* speed of the cables is known.                                            *)
LeverInForce ==
  \A p \in Cabled :
    /\ links[p] # None
    /\ \A q \in Cabled : Ends(q) = Ends(p) => SpeedKnown(q)
    => cost[Ends(p)] = Composed(Ends(p))

\* One cable per pair of switches: of two only the last one's value counts.
OnePerPair == \A i, j \in DOMAIN linkOrder : linkOrder[i] = linkOrder[j] => i = j

(* The actions only ever shift cost between links: what some links gain     *)
(* others lose, so an agent that gives every link the same changes nothing. *)
DeltasBalance ==
  OnePerPair => SumOver([i \in DOMAIN linkOrder |-> mlDelta[linkOrder[i]]], DOMAIN linkOrder) = 0

(* The clamp in the churn never bites: no action, whatever the one before,  *)
(* swings the deltas by more than the bound they are normalised by.         *)
ChurnWithinSwing ==
  started /\ OnePerPair =>
    \A a \in [DOMAIN linkOrder -> Actions] :
      Swing(linkOrder, Centred(a)) <= MaxSwing(linkOrder)
=============================================================================
