------------------------------- MODULE Reward -------------------------------
(***************************************************************************)
(* The reward class ZmqOpenFlowController sends to the agent at each tick, *)
(* as a function of what the statistics replies, the sleep labels and the  *)
(* last action have left behind, and the events that change these.         *)
(*                                                                         *)
(* Arithmetic is in thousandths: One stands for 1.0, and a quotient is      *)
(* rounded down.  What each event does besides is in modules Energy (sleep *)
(* labels, batteries, deaths), Lever (churn) and MlBridge (the exchange).  *)
(***************************************************************************)
EXTENDS Integers, FiniteSets, Sums

CONSTANTS Switch,       \* DOMAIN m_switchMap
          Port, At,     \* ports with statistics, and their switches
          Peer,         \* port -> the switch on the other end, 0 for a host
          LinkOrder,    \* m_mlLinkOrder, as a set of pairs of switches
          Capacity,     \* capacity of a port
          Rates,        \* tx_rate_bps of a port
          Deliveries,   \* <<packets from hosts, packets to hosts>> of a tick
          Initial,      \* initial_energy_j, -1 for a switch without a battery
          Drains,       \* what a battery may lose between two replies
          IdlePower,    \* idle_power_w; a unit of traffic draws one unit
          PowerRef,     \* power_ref_w
          DelayRef,     \* delay_ref_ms
          Floor, Share, \* footprint_floor_bps and 1 / footprint_frac
          Churns,       \* values m_lastChurnNorm may take
          NonSleepable, \* switches that are never labelled asleep
          Presets       \* priority presets that may be configured

One == 1000

ASSUME RewardAssumption ==
  /\ IsFiniteSet(Switch) /\ IsFiniteSet(Port)
  /\ At \in [Port -> Switch] /\ Peer \in [Port -> Switch \cup {0}] /\ 0 \notin Switch
  /\ LinkOrder \subseteq Switch \X Switch
  /\ Capacity \in [Port -> Nat] /\ Rates \subseteq Nat /\ 0 \in Rates
  /\ Deliveries \subseteq Nat \X Nat
  /\ Initial \in [Switch -> Nat \cup {-1}]
  /\ Drains \subseteq Nat \ {0}
  /\ {IdlePower, PowerRef, DelayRef, Floor, Share} \subseteq Nat
  /\ Churns \subseteq 0..One /\ 0 \in Churns
  /\ Presets \subseteq {"BALANCED", "THROUGHPUT", "ENERGY"}

VARIABLES
  preset,    \* m_ml.priority_preset
  tx,        \* m_portStats: tx_rate_bps of a port
  delivery,  \* m_portStats: packets at the host-facing ports in the last interval
  residual,  \* m_switchResidualEnergy, -1 without a battery
  dead,      \* m_deadNodes
  asleep,    \* m_sleepSwitches
  churn      \* m_lastChurnNorm

rewardVars == <<preset, tx, delivery, residual, dead, asleep, churn>>

Tracked == {s \in Switch : Initial[s] > 0}

RewardInit ==
  /\ preset \in Presets
  /\ tx = [p \in Port |-> 0]
  /\ delivery = <<0, 0>>
  /\ residual = Initial
  /\ dead = {} /\ asleep = {}
  /\ churn = 0

-----------------------------------------------------------------------------
\* a / b clamped to [0, 1].
Frac(a, b) == IF a >= b THEN One ELSE (a * One) \div b
AtLeast(x, lo) == IF x < lo THEN lo ELSE x
AtMost(x, hi) == IF x > hi THEN hi ELSE x
Largest(S) == IF S = {} THEN 0 ELSE CHOOSE x \in S : \A y \in S : y <= x

PortsOf(s) == {p \in Port : At[p] = s}
TxOf(P) == SumOver(tx, P)

\* M/M/1 waiting time of a port in milliseconds, on a base delay of one.
Delay(p) == LET u == AtMost(Frac(tx[p], Capacity[p]), One - 1) IN u \div (One - u)

DelayQuality ==
  One - Frac(Largest({Delay(p) : p \in {q \in Port : Capacity[q] > 0}}), AtLeast(DelayRef, 1))

\* Packets that reached hosts out of those that hosts sent.
Pdr == IF delivery[1] = 0 THEN One ELSE Frac(delivery[2], delivery[1])

\* Mutant of Drawing: the labels are not looked at.
DrawingAll == Tracked

\* The switches that draw power; a dead one that was not asleep is among them.
Drawing == Tracked \ asleep

Power == SumOver([s \in Drawing |-> IdlePower + TxOf(PortsOf(s))], Drawing)

\* Mutant of PowerCost: more than the ceiling costs more than one.
PowerCostOpen == (Power * One) \div AtLeast(PowerRef, 1)

PowerCost == Frac(Power, AtLeast(PowerRef, 1))

\* What switch a sends to switch b; the other direction of a link counts for
\* none of the terms below.
EntryTx[e \in LinkOrder] == TxOf({p \in Port : At[p] = e[1] /\ Peer[p] = e[2]})
EntryCapacity(e) == Largest({Capacity[p] : p \in {q \in Port : {At[q], Peer[q]} = {e[1], e[2]}}})

UtilPenalty ==
  LET Known == {e \in LinkOrder : EntryCapacity(e) > 0}
      U     == [e \in Known |-> Frac(EntryTx[e], EntryCapacity(e))]
      mean  == IF Known = {} THEN 0 ELSE SumOver(U, Known) \div Cardinality(Known)
      peak  == Largest({U[e] : e \in Known})
  IN  CASE preset = "THROUGHPUT" -> peak
        [] preset = "ENERGY" -> (80 * mean + (20 * peak * peak) \div One) \div 100
        [] preset = "BALANCED" -> (mean + peak) \div 2

\* Traffic of a switch as the source of links of the frozen order.
SourceTx(s) == SumOver(EntryTx, {e \in LinkOrder : e[1] = s})
TotalTx == SumOver(EntryTx, LinkOrder)

FootprintPenalty ==
  LET Active == {s \in Switch : /\ \E e \in LinkOrder : e[1] = s
                                /\ SourceTx(s) >= Floor
                                /\ SourceTx(s) * Share >= TotalTx}
  IN  (Cardinality(Active) * One) \div AtLeast(Cardinality(Switch), 1)

Charge(s) == IF s \in Tracked THEN Frac(residual[s], Initial[s]) ELSE One

ReservePenalty ==
  IF TotalTx = 0 THEN 0
  ELSE SumOver([s \in Switch |-> SourceTx(s) * (One - Charge(s)) * (One - Charge(s))], Switch)
         \div (TotalTx * One)

\* ComputeResidualEnergyStddev times n, the root of n * sum of squares - square
\* of sum, rounded down to a hundredth.
Deviation ==
  LET n  == Cardinality(Tracked)
      s1 == SumOver([s \in Tracked |-> Charge(s)], Tracked)
      s2 == SumOver([s \in Tracked |-> Charge(s) * Charge(s)], Tracked)
      x  == (n * s2 - s1 * s1) \div 100
  IN  10 * CHOOSE r \in 0..n * 100 : r * r <= x /\ x < (r + 1) * (r + 1)

BalancePenalty ==
  IF Cardinality(Tracked) < 2 THEN 0
  ELSE AtMost((2 * Deviation) \div Cardinality(Tracked), One)

Threshold == 350  \* min_residual_threshold

\* Mutant of Weakest: the dead switches are not left out.
WeakestOrDead == Tracked

Weakest == Tracked \ dead

MinResidualPenalty ==
  LET least == -Largest({-One} \cup {-Charge(s) : s \in Weakest})
  IN  IF least < Threshold THEN Frac(Threshold - least, Threshold) ELSE 0

-----------------------------------------------------------------------------
\* SetMlConfig, in tenths: delay, delivery, power, utilisation, footprint,
\* reserve, balance, churn.
Weights ==
  CASE preset = "BALANCED"   -> <<10, 20, 15, 10, 5, 15, 10, 10>>
    [] preset = "THROUGHPUT" -> <<25, 30, 3, 10, 0, 2, 2, 10>>

\* The additive reward before its last clamp: a sum of weighted terms, scaled
\* from the interval the weights bound it by.
Additive ==
  LET w == Weights
      bad == w[3] + w[4] + w[5] + w[6] + w[7] + w[8]
      span == w[1] + w[2] + bad
      r == w[1] * DelayQuality + w[2] * Pdr - w[3] * PowerCost - w[4] * UtilPenalty
           - w[5] * FootprintPenalty - w[6] * ReservePenalty
           - w[7] * BalancePenalty - w[8] * churn
  IN  (2 * (r + bad * One)) \div span - One

\* en_w_power to en_w_churn in hundredths, divided by their sum in SetMlConfig.
EnergyPenalty ==
  (25 * PowerCost + 20 * UtilPenalty + 15 * FootprintPenalty + 10 * ReservePenalty
    + 5 * BalancePenalty + 5 * churn) \div (25 + 20 + 15 + 10 + 5 + 5)

\* One-sided gates: nothing above the floor, up to One below it.
LossHinge == AtMost(3 * AtLeast(990 - Pdr, 0), One)
DelayHinge == AtMost(3 * AtLeast(900 - DelayQuality, 0), One)

\* Mutant of LifeHinge: one more weighted term, diluted among the others.
LifeHingeDiluted == MinResidualPenalty \div 7

LifeHinge == AtMost((14 * MinResidualPenalty) \div 10, One)

\* The gated reward before its last clamp.
Gated == One - 2 * EnergyPenalty - LossHinge - DelayHinge - LifeHinge

ComputeMlReward ==
  LET r == IF preset = "ENERGY" THEN Gated ELSE Additive
  IN  AtLeast(AtMost(r, One), -One)

-----------------------------------------------------------------------------
\* HandlePortStatsReply: new rates and packet counts of a port.
PortStats(p, r) ==
  /\ tx' = [tx EXCEPT ![p] = r]
  /\ UNCHANGED <<preset, delivery, residual, dead, asleep, churn>>

HostPackets(d) ==
  /\ delivery' = d
  /\ UNCHANGED <<preset, tx, residual, dead, asleep, churn>>

\* ForceDeplete, from a stress event: the switch is found empty by the next
\* statistics reply only.
ForceDeplete(s) ==
  /\ s \in Tracked
  /\ residual' = [residual EXCEPT ![s] = 0]
  /\ UNCHANGED <<preset, tx, delivery, dead, asleep, churn>>

\* ComputeSwitchObservations: energy was spent, and the switch may be found
\* empty.
Drain(s, e) ==
  /\ s \in Tracked \ dead
  /\ residual' = [residual EXCEPT ![s] = AtLeast(residual[s] - e, 0)]
  /\ dead' = IF residual[s] <= e THEN dead \cup {s} ELSE dead
  /\ UNCHANGED <<preset, tx, delivery, asleep, churn>>

\* UpdateSleepStates: dead switches lose their label.
UpdateSleepStates(S) ==
  /\ asleep' = S \ dead
  /\ UNCHANGED <<preset, tx, delivery, residual, dead, churn>>

\* ApplyDeltaCosts: how far the last action went from the one before.
ApplyDeltaCosts(c) ==
  /\ churn' = c
  /\ UNCHANGED <<preset, tx, delivery, residual, dead, asleep>>

RewardNext ==
  \/ \E p \in Port, r \in Rates : PortStats(p, r)
  \/ \E d \in Deliveries : HostPackets(d)
  \/ \E s \in Switch : ForceDeplete(s) \/ \E e \in Drains : Drain(s, e)
  \/ \E S \in SUBSET (Switch \ NonSleepable) : UpdateSleepStates(S)
  \/ \E c \in Churns : ApplyDeltaCosts(c)

RewardSpec == RewardInit /\ [][RewardNext]_rewardVars

RewardTypeOK ==
  /\ preset \in Presets
  /\ tx \in [Port -> Rates]
  /\ delivery \in Deliveries \cup {<<0, 0>>}
  /\ residual \in [Switch -> Int]
  /\ \A s \in Switch : IF Initial[s] = -1 THEN residual[s] = -1 ELSE residual[s] \in 0..Initial[s]
  /\ dead \subseteq {s \in Tracked : residual[s] = 0}
  /\ asleep \in SUBSET (Switch \ NonSleepable)
  /\ churn \in Churns

-----------------------------------------------------------------------------
(* "Reward out of analytic bounds (term-clamp regression?)" is never logged: *)
(* whatever the telemetry, the additive reward is between -1 and 1 before    *)
(* its clamp, and the energy penalty of the gated one between 0 and 1.       *)
AnalyticBounds ==
  IF preset = "ENERGY" THEN EnergyPenalty \in 0..One ELSE Additive \in -One..One

Below(s) == 14 * AtLeast(Threshold - Charge(s), 0) > 10 * Threshold

(* The life hinge is a barrier: as long as a living battery is below the     *)
(* floor threshold * (1 - 1 / life_hinge_w), no saving of energy and no      *)
(* delivery makes the gated reward positive.                                 *)
BarrierBinds ==
  preset = "ENERGY" /\ (\E s \in Tracked \ dead : Below(s)) => ComputeMlReward <= 0

(* Powering a switch off is a real win: where fewer switches draw power than *)
(* before and nothing else changed, the reward grows, unless the draw was    *)
(* above the ceiling or the reward stays at its lower bound.                 *)
SleepPays ==
  [][ asleep' # asleep /\ asleep \subseteq asleep' /\ (asleep' \ asleep) \cap Tracked # {}
        => \/ ComputeMlReward' > ComputeMlReward
           \/ ComputeMlReward' = -One
           \/ Power > PowerRef /\ ComputeMlReward' >= ComputeMlReward ]_rewardVars

(* And in no network, however its sleepers are chosen and however large its  *)
(* power is, does it cost any reward.                                        *)
SleepNeverCosts ==
  [][ asleep' # asleep /\ asleep \subseteq asleep' => ComputeMlReward' >= ComputeMlReward ]_rewardVars

(* Taking energy from the weakest living battery, which was not below the    *)
(* floor yet and gets below the threshold, never pays, be it spent on traffic *)
(* or lost to a stress event, and although it may even out the batteries     *)
(* (those of the dead count as empty ones).                                  *)
WeakDrainCosts ==
  [][ \A s \in Tracked :
        /\ preset = "ENERGY" /\ residual'[s] < residual[s] /\ s \notin dead'
        /\ \A u \in Tracked \ dead : Charge(s) <= Charge(u)
        /\ Charge(s)' < Threshold /\ ~Below(s)
        => ComputeMlReward' < ComputeMlReward \/ ComputeMlReward' = -One ]_rewardVars

(* The comments on the life hinge: node death is a barrier that the energy   *)
(* terms cannot offset, and driving a node towards it is never bought back.  *)
(* The death itself then does not raise the gated reward.                    *)
DeathNeverPays ==
  [][ preset = "ENERGY" /\ dead' # dead => ComputeMlReward' <= ComputeMlReward ]_rewardVars
=============================================================================
